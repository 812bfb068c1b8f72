---------------------------- MODULE QuoteChanges ----------------------------
(***************************************************************************)
(* What becomes of a charged quote: src/src/server/actions/exchange.ts and *)
(* cancellation.ts, and the last step of a cancellation in bookings.ts.    *)
(*                                                                         *)
(* An exchange is a new quote that points at its original; once approved   *)
(* it is sent, opened, signed and ticketed by the handlers of              *)
(* QuoteLifecycle, which run beside those of this module.  A cancellation  *)
(* is a request row on the charged quote.  Each handler reads, and later   *)
(* commits one transaction: two steps.                                     *)
(*                                                                         *)
(* Left out: itineraries and amounts, notifications to reviewers, history  *)
(* rows, deletion of quotes by an administrator.  The clock stands still:  *)
(* within its window a quote is sent once, unless that send gives up.      *)
(***************************************************************************)
EXTENDS QuoteLifecycle

CONSTANTS
  Proposals,   \* rows that exchanges may create; the other quotes are charged
  Requests,    \* QuoteCancellationRequest rows that may be created
  ChangeOps    \* what agents, reviewers and customers do in an instance

ASSUME ChangesAssumption ==
  /\ Proposals \subseteq Quotes
  /\ None \notin Requests /\ Requests \cap Quotes = {}
  /\ ChangeOps \subseteq {"exchange", "revise", "review", "request", "confirm",
                          "disregard", "form", "form_fails", "submit", "finalize", "final_fails"}

VARIABLES
  original,    \* Quote.originalQuoteId
  current,     \* Quote.isCurrentExchangeProposal
  successor,   \* Quote.supersededByQuoteId
  approved,    \* history: an exchange proposal or a request was approved
  request,     \* QuoteCancellationRequest.status, "none" without a row
  requestFor,  \* QuoteCancellationRequest.quoteId
  told,        \* history: the customer got the form, or the final confirmation
  about        \* the proposal or the request an invocation works on

proposalVars == <<original, current, successor>>
requestVars  == <<request, requestFor>>
historyVars  == <<approved, told>>
changeVars   == <<proposalVars, requestVars, historyVars, about>>
\* What no step of this module writes.
untouchedVars == <<price, snapshot, claim, bookingVars, rowLock, lead, now, mailed, seen, since, from>>

Revisable == {"PENDING_EXCHANGE_APPROVAL", "EXCHANGE_APPROVED", "SENT", "READ", "VIEWED"}

\* The originals are charged and confirmed, their e-mail long sent.
ChangesInit ==
  LET charges(yes, no) == [q \in Quotes |-> IF q \in Proposals THEN no ELSE yes] IN
  /\ status = charges("CHARGED", "deleted")
  /\ price = [q \in Quotes |-> 0]
  /\ snapshot = charges(0, NotYet)
  /\ claim = charges(0, NotYet)
  /\ mailed = charges(0, NotYet)
  /\ booking = charges("CONFIRMED", "none")
  /\ charged = charges(0, NotYet)
  /\ \E p \in Procs : signer = charges(p, None)
  /\ recorded = charges("CONFIRMED", "none")
  /\ rowLock = [q \in Quotes |-> None]
  /\ lead = [l \in Leads |-> "booked"]
  /\ now = 0
  /\ pc = [p \in Procs |-> "idle"]
  /\ target = [p \in Procs |-> None]
  /\ to = [p \in Procs |-> "none"]
  /\ seen = [p \in Procs |-> NotYet]
  /\ since = [p \in Procs |-> NotYet]
  /\ from = [p \in Procs |-> "none"]
  /\ original = [q \in Quotes |-> None]
  /\ current = [q \in Quotes |-> FALSE]
  /\ successor = [q \in Quotes |-> None]
  /\ approved = {}
  /\ request = [r \in Requests |-> "none"]
  /\ requestFor = [r \in Requests |-> None]
  /\ told = {}
  /\ about = [p \in Procs |-> None]

\* The handler has read the rows and passed its checks.
Begin(p, label, q, x, wanted) ==
  /\ Start(p, label, q, wanted)
  /\ about' = [about EXCEPT ![p] = x]
  /\ UNCHANGED <<status, proposalVars, requestVars, historyVars, untouchedVars>>

End(p) ==
  /\ Goto(p, "idle")
  /\ target' = [target EXCEPT ![p] = None]
  /\ to' = [to EXCEPT ![p] = "none"]
  /\ about' = [about EXCEPT ![p] = None]
  /\ UNCHANGED untouchedVars

\* A claim that matched no row: the transaction rolls back, the handler throws.
Refuse(p) ==
  /\ End(p)
  /\ UNCHANGED <<status, proposalVars, requestVars, historyVars>>

-----------------------------------------------------------------------------
(* sendExchangeForApproval, approveExchange, disapproveExchange *)

Unused(n) == n \in Proposals /\ original[n] = None

\* The unique index on [originalQuoteId, isCurrentExchangeProposal].
HasCurrent(q) == \E n \in Quotes : original[n] = q /\ current[n]

StartExchange(p, q) ==
  /\ "exchange" \in ChangeOps
  /\ status[q] = "CHARGED"
  /\ Begin(p, "propose", q, None, "none")

\* Defect: a first proposal is taken although another one is current.
ProposeAnyway(p) ==
  LET q == target[p] IN
  /\ pc[p] = "propose"
  /\ \E n \in Quotes :
       /\ Unused(n)
       /\ status' = [status EXCEPT ![n] = "PENDING_EXCHANGE_APPROVAL", ![q] = "EXCHANGED"]
       /\ original' = [original EXCEPT ![n] = q]
       /\ current' = [current EXCEPT ![n] = TRUE]
  /\ End(p)
  /\ UNCHANGED <<successor, requestVars, historyVars>>

\* The original is moved without looking at its status again.
ProposeExchange(p) ==
  LET q == target[p] IN
  /\ pc[p] = "propose"
  /\ ~HasCurrent(q)
  /\ \E n \in Quotes :
       /\ Unused(n)
       /\ status' = [status EXCEPT ![n] = "PENDING_EXCHANGE_APPROVAL", ![q] = "EXCHANGED"]
       /\ original' = [original EXCEPT ![n] = q]
       /\ current' = [current EXCEPT ![n] = TRUE]
  /\ End(p)
  /\ UNCHANGED <<successor, requestVars, historyVars>>

ExchangeRefused(p) ==
  /\ pc[p] = "propose"
  /\ HasCurrent(target[p])
  /\ Refuse(p)

StartRevision(p, old) ==
  /\ "revise" \in ChangeOps
  /\ original[old] # None
  /\ current[old]
  /\ status[old] \in Revisable
  /\ Begin(p, "revise", original[old], old, "none")

\* The conditional claim of the proposal being replaced.
Replaceable(p) == current[about[p]] /\ status[about[p]] \in Revisable

ReviseExchange(p) ==
  LET old == about[p] IN
  /\ pc[p] = "revise"
  /\ Replaceable(p)
  /\ \E n \in Quotes :
       /\ Unused(n)
       /\ status' = [status EXCEPT ![n] = "PENDING_EXCHANGE_APPROVAL", ![old] = "EXCHANGE_SUPERSEDED"]
       /\ original' = [original EXCEPT ![n] = target[p]]
       /\ current' = [current EXCEPT ![n] = TRUE, ![old] = FALSE]
       /\ successor' = [successor EXCEPT ![old] = n]
  /\ End(p)
  /\ UNCHANGED <<requestVars, historyVars>>

RevisionRefused(p) ==
  /\ pc[p] = "revise"
  /\ ~Replaceable(p)
  /\ Refuse(p)

StartReview(p, n, verdict) ==
  /\ "review" \in ChangeOps
  /\ original[n] # None
  /\ status[n] = "PENDING_EXCHANGE_APPROVAL"
  /\ Begin(p, "review", n, None, verdict)

\* Defect: the verdict is written on the strength of the check before.
ReviewableAsRead(p) == status[target[p]] # "EXCHANGE_SUPERSEDED"

Reviewable(p) == status[target[p]] = "PENDING_EXCHANGE_APPROVAL"

ApproveExchange(p) ==
  /\ pc[p] = "review" /\ to[p] = "EXCHANGE_APPROVED"
  /\ Reviewable(p)
  /\ status' = [status EXCEPT ![target[p]] = "EXCHANGE_APPROVED"]
  /\ approved' = approved \cup {target[p]}
  /\ End(p)
  /\ UNCHANGED <<proposalVars, requestVars, told>>

\* The original returns to CHARGED whatever it is by now.
DisapproveExchange(p) ==
  LET n == target[p] IN
  /\ pc[p] = "review" /\ to[p] = "EXCHANGE_DISAPPROVED"
  /\ Reviewable(p)
  /\ status' = [status EXCEPT ![n] = "EXCHANGE_DISAPPROVED", ![original[n]] = "CHARGED"]
  /\ current' = [current EXCEPT ![n] = FALSE]
  /\ End(p)
  /\ UNCHANGED <<original, successor, requestVars, historyVars>>

ReviewRefused(p) ==
  /\ pc[p] = "review"
  /\ ~Reviewable(p)
  /\ Refuse(p)

-----------------------------------------------------------------------------
(* cancellation.ts *)

StartCancellation(p, q) ==
  /\ "request" \in ChangeOps
  /\ status[q] = "CHARGED"
  /\ Begin(p, "request", q, None, "none")

RequestCancellation(p) ==
  /\ pc[p] = "request"
  /\ \E r \in Requests :
       /\ request[r] = "none"
       /\ request' = [request EXCEPT ![r] = "PENDING"]
       /\ requestFor' = [requestFor EXCEPT ![r] = target[p]]
  /\ status' = [status EXCEPT ![target[p]] = "PENDING_CANCELLATION_APPROVAL"]
  /\ End(p)
  /\ UNCHANGED <<proposalVars, historyVars>>

\* getPendingCancellationRequest looks at the request only.
StartConfirmation(p, r) ==
  /\ "confirm" \in ChangeOps
  /\ request[r] = "PENDING"
  /\ Begin(p, "confirm", requestFor[r], r, "none")

ConfirmCancellation(p) ==
  /\ pc[p] = "confirm"
  /\ request' = [request EXCEPT ![about[p]] = "CONFIRMED"]
  /\ approved' = approved \cup {about[p]}
  /\ status' = [status EXCEPT ![target[p]] = "CANCELLATION_APPROVED"]
  /\ End(p)
  /\ UNCHANGED <<proposalVars, requestFor, told>>

StartDisregard(p, r) ==
  /\ "disregard" \in ChangeOps
  /\ request[r] \in {"PENDING", "CONFIRMED"}
  /\ status[requestFor[r]] \in {"PENDING_CANCELLATION_APPROVAL", "CANCELLATION_APPROVED"}
  /\ Begin(p, "disregard", requestFor[r], r, "none")

DisregardCancellation(p) ==
  /\ pc[p] = "disregard"
  /\ request' = [request EXCEPT ![about[p]] = "DISREGARDED"]
  /\ status' = [status EXCEPT ![target[p]] = "CHARGED"]
  /\ End(p)
  /\ UNCHANGED <<proposalVars, requestFor, historyVars>>

Formable(r) == request[r] = "CONFIRMED" /\ status[requestFor[r]] = "CANCELLATION_APPROVED"

StartForm(p, r) ==
  /\ "form" \in ChangeOps
  /\ Formable(r)
  /\ Begin(p, "form", requestFor[r], r, "none")

ResendForm(p, r) ==
  /\ "form" \in ChangeOps
  /\ request[r] = "CONFIRMED"
  /\ status[requestFor[r]] = "CANCELLATION_FORM_SENT"
  /\ Begin(p, "mail_form", requestFor[r], r, "none")

\* The status is claimed first, the mail follows.
ClaimForm(p) ==
  /\ pc[p] = "form"
  /\ status[target[p]] = "CANCELLATION_APPROVED"
  /\ status' = [status EXCEPT ![target[p]] = "CANCELLATION_FORM_SENT"]
  /\ Goto(p, "mail_form")
  /\ UNCHANGED <<proposalVars, requestVars, historyVars, untouchedVars, target, to, about>>

FormRefused(p) ==
  /\ pc[p] = "form"
  /\ status[target[p]] # "CANCELLATION_APPROVED"
  /\ Refuse(p)

MailForm(p) ==
  /\ pc[p] = "mail_form"
  /\ told' = told \cup {about[p]}
  /\ End(p)
  /\ UNCHANGED <<status, proposalVars, requestVars, approved>>

\* The status stays: "Resend" is the way out.
FormFails(p) ==
  /\ "form_fails" \in ChangeOps
  /\ pc[p] = "mail_form"
  /\ Refuse(p)

\* Defect: any link to a booked quote will do.
ConfirmsAnyLink(p, q) ==
  /\ "submit" \in ChangeOps
  /\ booking[q] # "none"
  /\ Begin(p, "submit", q, None, "none")

CustomerConfirms(p, q) ==
  /\ "submit" \in ChangeOps
  /\ status[q] = "CANCELLATION_FORM_SENT"
  /\ Begin(p, "submit", q, None, "none")

SubmitCancellation(p) ==
  /\ pc[p] = "submit"
  /\ status' = [status EXCEPT ![target[p]] = "CANCELLATION_SUBMITTED"]
  /\ End(p)
  /\ UNCHANGED <<proposalVars, requestVars, historyVars>>

-----------------------------------------------------------------------------
(* sendCancellationConfirmationEmail *)

\* The booking is read with its quote's confirmed requests, if there are any.
ConfirmedRequests(q) == {r \in Requests : requestFor[r] = q /\ request[r] = "CONFIRMED"}

StartFinal(p, q) ==
  /\ "finalize" \in ChangeOps
  /\ booking[q] # "none"
  /\ \E r \in (IF ConfirmedRequests(q) = {} THEN {None} ELSE ConfirmedRequests(q)) :
       Begin(p, "finalize", q, r, "none")

\* The claim comes before the check that a confirmed request was found.
ClaimFinal(p) ==
  LET q == target[p] IN
  /\ pc[p] = "finalize"
  /\ status[q] = "CANCELLATION_SUBMITTED"
  /\ status' = [status EXCEPT ![q] = "CANCELLATION_CONFIRMED"]
  /\ IF about[p] # None
     THEN Goto(p, "mail_final") /\ UNCHANGED <<untouchedVars, target, to, about>>
     ELSE End(p)
  /\ UNCHANGED <<proposalVars, requestVars, historyVars>>

FinalRefused(p) ==
  /\ pc[p] = "finalize"
  /\ status[target[p]] # "CANCELLATION_SUBMITTED"
  /\ Refuse(p)

MailFinal(p) ==
  /\ pc[p] = "mail_final"
  /\ told' = told \cup {target[p]}
  /\ End(p)
  /\ UNCHANGED <<status, proposalVars, requestVars, approved>>

FinalFails(p) ==
  /\ "final_fails" \in ChangeOps
  /\ pc[p] = "mail_final"
  /\ Goto(p, "revert")
  /\ UNCHANGED <<status, proposalVars, requestVars, historyVars, untouchedVars, target, to, about>>

RevertFinal(p) ==
  /\ pc[p] = "revert"
  /\ status' = [status EXCEPT ![target[p]] = "CANCELLATION_SUBMITTED"]
  /\ End(p)
  /\ UNCHANGED <<proposalVars, requestVars, historyVars>>

-----------------------------------------------------------------------------
ExchangeStep(p) ==
  \/ ProposeExchange(p) \/ ExchangeRefused(p)
  \/ ReviseExchange(p) \/ RevisionRefused(p)
  \/ ApproveExchange(p) \/ DisapproveExchange(p) \/ ReviewRefused(p)

CancellationStep(p) ==
  \/ RequestCancellation(p) \/ ConfirmCancellation(p) \/ DisregardCancellation(p)
  \/ ClaimForm(p) \/ FormRefused(p) \/ MailForm(p) \/ FormFails(p)
  \/ SubmitCancellation(p)
  \/ ClaimFinal(p) \/ FinalRefused(p) \/ MailFinal(p) \/ FinalFails(p) \/ RevertFinal(p)

ChangeRequest(p) ==
  \/ \E q \in Quotes :
       \/ StartExchange(p, q) \/ StartRevision(p, q)
       \/ \E verdict \in {"EXCHANGE_APPROVED", "EXCHANGE_DISAPPROVED"} : StartReview(p, q, verdict)
       \/ StartCancellation(p, q) \/ CustomerConfirms(p, q) \/ StartFinal(p, q)
  \/ \E r \in Requests :
       StartConfirmation(p, r) \/ StartDisregard(p, r) \/ StartForm(p, r) \/ ResendForm(p, r)

\* The handlers of QuoteLifecycle, on proposals and originals alike.
OrdinaryStep(p) ==
  (Transition(p) \/ SendStep(p) \/ BookingStep(p) \/ Request(p)) /\ UNCHANGED changeVars

Killed(p) ==
  /\ Crash(p)
  /\ about' = [about EXCEPT ![p] = None]
  /\ UNCHANGED <<proposalVars, requestVars, historyVars>>

ChangesNext ==
  \E p \in Procs :
    ExchangeStep(p) \/ CancellationStep(p) \/ ChangeRequest(p) \/ OrdinaryStep(p) \/ Killed(p)

ChangesSpec == ChangesInit /\ [][ChangesNext]_<<vars, changeVars>>

-----------------------------------------------------------------------------
(* What exchanges and cancellations must keep of a charged quote. *)

ExchangeStatuses ==
  {"EXCHANGED", "PENDING_EXCHANGE_APPROVAL", "EXCHANGE_APPROVED", "EXCHANGE_DISAPPROVED",
   "EXCHANGE_SUPERSEDED"}
BeyondApproval == {"CANCELLATION_FORM_SENT", "CANCELLATION_SUBMITTED", "CANCELLATION_CONFIRMED"}
CancellationStatuses ==
  {"PENDING_CANCELLATION_APPROVAL", "CANCELLATION_APPROVED"} \cup BeyondApproval

Proposed == {q \in Quotes : original[q] # None}

\* Rows: a proposal that exists has an original, one that does not has nothing.
ProposalTypes ==
  /\ status \in [Quotes -> Linear \cup {"CANCELED", "deleted"} \cup ExchangeStatuses
                                  \cup CancellationStatuses]
  /\ original \in [Quotes -> Quotes \cup {None}]
  /\ current \in [Quotes -> BOOLEAN]
  /\ successor \in [Quotes -> Quotes \cup {None}]
  /\ \A q \in Quotes :
       /\ q \notin Proposed => ~current[q] /\ successor[q] = None
       /\ status[q] = "deleted" <=> q \in Proposals \ Proposed

RequestTypes ==
  /\ request \in [Requests -> {"none", "PENDING", "CONFIRMED", "DISREGARDED"}]
  /\ requestFor \in [Requests -> Quotes \cup {None}]
  /\ \A r \in Requests : (request[r] = "none") <=> (requestFor[r] = None)
  /\ approved \subseteq Proposed \cup {r \in Requests : request[r] # "none"}
  /\ told \subseteq Quotes \cup Requests

AboutTypes ==
  \A p \in Procs :
    /\ pc[p] = "revise" => about[p] \in Proposed /\ target[p] = original[about[p]]
    /\ pc[p] \in {"confirm", "disregard", "form", "mail_form"} =>
         about[p] \in Requests /\ target[p] = requestFor[about[p]]
    /\ pc[p] = "review" => target[p] \in Proposed
    /\ pc[p] = "idle" => about[p] = None

TypeOK == ProposalTypes /\ RequestTypes /\ AboutTypes

\* The versions of an exchange form one chain: of the proposals against one
\* original at most one is current, every other one was disapproved or has
\* exactly one successor, made for the same original, however many revisions,
\* reviews and first proposals are submitted at once.
ProposalsFormOneChain ==
  /\ \A a, b \in Proposed :
       original[a] = original[b] /\ current[a] /\ current[b] => a = b
  /\ \A q \in Proposed :
       current[q] \/ successor[q] # None \/ status[q] = "EXCHANGE_DISAPPROVED"
  /\ \A q \in Proposed :
       successor[q] # None =>
         ~current[q] /\ original[successor[q]] = original[q] /\ successor[q] # q
  /\ \A a, b \in Proposed : successor[a] = successor[b] /\ successor[a] # None => a = b

\* No customer sees, signs or is ticketed on a proposal that no reviewer
\* approved, and no reviewer's refusal is followed by an approval: approval and
\* refusal of one proposal exclude each other whatever sends, clicks and late
\* status writes are under way.
OnlyApprovedReachCustomers ==
  \A q \in Proposed :
    /\ status[q] \in Linear \/ booking[q] # "none" => q \in approved
    /\ status[q] = "EXCHANGE_DISAPPROVED" => q \notin approved /\ booking[q] = "none"

\* The customer is asked to confirm a cancellation, and it is carried out, only
\* if a reviewer confirmed a request for that quote, even though most of these
\* statuses are written without a condition.
NoUnapprovedCancellation ==
  \A q \in Quotes :
    status[q] \in BeyondApproval \/ q \in told => \E r \in approved \cap Requests : requestFor[r] = q

-----------------------------------------------------------------------------
(* What the comments say, and the code does not do *)

\* "A stale/superseded/disapproved/pending-review proposal's token can never be
\* used to create a Booking" (exchange-proposal.ts).
SupersededIsNeverSigned ==
  [][\A q \in Proposed : successor[q] # None /\ booking[q] = "none" => booking'[q] = "none"]_vars
=============================================================================

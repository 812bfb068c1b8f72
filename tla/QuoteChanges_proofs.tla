------------------------- MODULE QuoteChanges_proofs -------------------------
(***************************************************************************)
(* Exchanges and cancellations, for every number of quotes, requests and   *)
(* invocations: types, and what a reviewer's approval is needed for.       *)
(*                                                                         *)
(* Statuses are written without a condition nearly everywhere, so the      *)
(* invariant is about what an invocation knows of its quote when it gets   *)
(* there: that it is an original, or a proposal somebody approved          *)
(* (Settled), and, past the form, that a request for it was confirmed      *)
(* (Licensed).  Both stay true once they are true.                         *)
(***************************************************************************)
EXTENDS QuoteChanges, TLAPS

Settled(q) == q \in Proposals => q \in approved
Licensed(q) == \E r \in approved \cap Requests : requestFor[r] = q

AnyStatus == (Linear \ {"DRAFT"}) \cup {"CANCELED", "deleted"}
               \cup ExchangeStatuses \cup CancellationStatuses

Shapes ==
  /\ status \in [Quotes -> AnyStatus]
  /\ booking \in [Quotes -> BookingStatuses \cup {"none"}]
  /\ original \in [Quotes -> Quotes \cup {None}]
  /\ current \in [Quotes -> BOOLEAN]
  /\ successor \in [Quotes -> Quotes \cup {None}]
  /\ request \in [Requests -> {"none", "PENDING", "CONFIRMED", "DISREGARDED"}]
  /\ requestFor \in [Requests -> Quotes \cup {None}]
  /\ approved \subseteq Quotes \cup Requests
  /\ told \subseteq Quotes \cup Requests

Ordinary == {"claim", "freeze", "mail", "read", "write", "release", "lead", "quoted", "sign",
             "ticket", "reconcile", "save"}
\* The handlers that work on a proposal or a request besides their quote.
Carrying == {"revise", "confirm", "disregard", "form", "mail_form", "finalize", "mail_final", "revert"}
Labels == {"idle", "propose", "review", "request", "submit"} \cup Ordinary \cup Carrying
Wishes == {"none", "SENT", "READ", "VIEWED", "CANCELED", "SIGNED", "EXCHANGE_APPROVED",
           "EXCHANGE_DISAPPROVED"} \cup BookingStatuses

JobShapes ==
  /\ pc \in [Procs -> Labels]
  /\ target \in [Procs -> Quotes \cup {None}]
  /\ to \in [Procs -> Wishes]
  /\ about \in [Procs -> Quotes \cup Requests \cup {None}]

QuoteReady(q) ==
  /\ original[q] # None => q \in Proposals /\ Settled(original[q])
  /\ original[q] = None => ~current[q] /\ successor[q] = None
  /\ status[q] = "deleted" <=> q \in Proposals /\ original[q] = None
  /\ status[q] \in Linear \cup {"EXCHANGE_APPROVED"} \/ booking[q] # "none" => Settled(q)
  /\ status[q] \in {"PENDING_EXCHANGE_APPROVAL", "EXCHANGE_DISAPPROVED", "deleted"} =>
       q \in Proposals /\ q \notin approved
  /\ q \in approved => original[q] # None
  /\ status[q] \in BeyondApproval \/ q \in told => Licensed(q)

RequestReady(r) ==
  /\ request[r] = "none" <=> requestFor[r] = None
  /\ request[r] = "CONFIRMED" => r \in approved
  /\ r \in approved => request[r] # "none"
  /\ requestFor[r] # None => Settled(requestFor[r])

JobReady(p) ==
  /\ about[p] # None => pc[p] \in Carrying
  /\ pc[p] # "idle" => target[p] \in Quotes
  /\ pc[p] \notin {"idle", "review"} => Settled(target[p])
  /\ pc[p] = "review" => original[target[p]] # None
  /\ pc[p] \in {"claim", "freeze", "mail"} => to[p] = "SENT"
  /\ pc[p] \in {"read", "write"} => to[p] \in {"SENT", "READ", "VIEWED", "CANCELED"}
  /\ pc[p] \in {"ticket", "reconcile", "save"} => to[p] \in BookingStatuses
  /\ pc[p] = "reconcile" => BookingDrives[to[p]] # "none"
  /\ pc[p] \in {"reconcile", "save"} => booking[target[p]] # "none"
  /\ pc[p] = "revise" => /\ about[p] \in Quotes /\ original[about[p]] # None
                         /\ target[p] = original[about[p]]
  /\ pc[p] \in {"confirm", "disregard", "form", "mail_form"} =>
       about[p] \in Requests /\ requestFor[about[p]] = target[p]
  /\ pc[p] \in {"form", "mail_form", "submit", "mail_final", "revert"} => Licensed(target[p])

QuotesReady == \A q \in Quotes : QuoteReady(q)
RequestsReady == \A r \in Requests : RequestReady(r)
JobsReady == \A p \in Procs : JobReady(p)

IInv == Shapes /\ JobShapes /\ QuotesReady /\ RequestsReady /\ JobsReady

-----------------------------------------------------------------------------
(* Frames *)

\* What no step takes back.
Kept ==
  /\ approved \subseteq approved'
  /\ \A q \in Quotes : original[q] # None => original'[q] = original[q]
  /\ \A r \in Requests : requestFor[r] # None => requestFor'[r] = requestFor[r]
  /\ \A q \in Quotes : booking[q] # "none" => booking'[q] # "none"

\* The next statement of p, what it works on, and nobody else's.
Job(p, label, q, wanted, x) ==
  /\ JobShapes'
  /\ \A o \in Procs \ {p} :
       pc'[o] = pc[o] /\ target'[o] = target[o] /\ to'[o] = to[o] /\ about'[o] = about[o]
  /\ pc'[p] = label /\ target'[p] = q /\ to'[p] = wanted /\ about'[p] = x

LEMMA Starts ==
  ASSUME JobShapes, NEW p \in Procs, NEW q \in Quotes, NEW x \in Quotes \cup Requests \cup {None},
         NEW label \in Labels, NEW wanted \in Wishes, Start(p, label, q, wanted),
         \/ about' = [about EXCEPT ![p] = x]
         \/ about' = about /\ about[p] = x
  PROVE  Job(p, label, q, wanted, x)
BY DEF Start, JobShapes, Job

LEMMA Moves ==
  ASSUME JobShapes, NEW p \in Procs, NEW label \in Labels, Goto(p, label),
         UNCHANGED <<target, to, about>>
  PROVE  Job(p, label, target[p], to[p], about[p])
BY DEF Goto, JobShapes, Job

LEMMA Ends ==
  ASSUME JobShapes, NEW p \in Procs, Goto(p, "idle"), target' = [target EXCEPT ![p] = None],
         to' = [to EXCEPT ![p] = "none"],
         \/ about' = [about EXCEPT ![p] = None]
         \/ about' = about /\ about[p] = None
  PROVE  Job(p, "idle", None, "none", None)
<1>1. about' = [about EXCEPT ![p] = None]
  BY DEF JobShapes
<1>2. pc' = [pc EXCEPT ![p] = "idle"]
  BY DEF Goto
<1>3. "idle" \in Labels /\ "none" \in Wishes
  BY DEF Labels, Wishes
<1>4. JobShapes'
  BY <1>1, <1>2, <1>3 DEF JobShapes
<1> QED
  BY <1>1, <1>2, <1>4 DEF JobShapes, Job

LEMMA IdleIsReady == ASSUME NEW p \in Procs, pc'[p] = "idle", about'[p] = None PROVE JobReady(p)'
BY DEF JobReady, Carrying

LEMMA OthersStayReady ==
  ASSUME IInv, Kept, NEW p \in Procs, NEW o \in Procs \ {p},
         pc'[o] = pc[o], target'[o] = target[o], to'[o] = to[o], about'[o] = about[o]
  PROVE  JobReady(o)'
<1>1. JobReady(o) /\ target[o] \in Quotes \cup {None} /\ about[o] \in Quotes \cup Requests \cup {None}
  BY DEF IInv, JobsReady, JobShapes
<1>2. Settled(target[o]) => Settled(target[o])'
  BY DEF Settled, Kept
<1>3. ASSUME target[o] \in Quotes, Licensed(target[o]) PROVE Licensed(target[o])'
  BY <1>3, QuoteAssumption DEF Licensed, Kept
<1>4. \A q \in Quotes : original[q] # None => original'[q] = original[q]
  BY DEF Kept
<1>5. \A r \in Requests : requestFor[r] \in Quotes => requestFor'[r] = requestFor[r]
  BY QuoteAssumption DEF Kept
<1>6. \A q \in Quotes : booking[q] # "none" => booking'[q] # "none"
  BY DEF Kept
<1> QED
  BY <1>1, <1>2, <1>3, <1>4, <1>5, <1>6 DEF JobReady

\* The step of one job: what remains is the rows and that job.
LEMMA OneJobMoves ==
  ASSUME IInv, Kept, NEW p \in Procs, NEW label, NEW q, NEW wanted, NEW x,
         Job(p, label, q, wanted, x), Shapes', QuotesReady', RequestsReady', JobReady(p)'
  PROVE  IInv'
BY OthersStayReady DEF Job, IInv, JobsReady

\* The rows the invariant is about stay as they are.
Quiet == UNCHANGED <<status, booking, proposalVars, requestVars, historyVars>>

LEMMA QuietStep ==
  ASSUME IInv, Quiet, NEW p \in Procs, NEW label, NEW q, NEW wanted, NEW x,
         Job(p, label, q, wanted, x), JobReady(p)'
  PROVE  IInv'
<1>1. UNCHANGED <<status, booking, original, current, successor, request, requestFor, approved, told>>
  BY DEF Quiet, proposalVars, requestVars, historyVars
<1>2. Kept
  BY <1>1 DEF Kept
<1>3. Shapes' /\ QuotesReady' /\ RequestsReady'
  BY <1>1 DEF IInv, Shapes, QuotesReady, QuoteReady, RequestsReady, RequestReady, Settled, Licensed
<1> QED
  BY <1>2, <1>3, OneJobMoves
LEMMA QuietEnd ==
  ASSUME IInv, Quiet, NEW p \in Procs, Goto(p, "idle"), target' = [target EXCEPT ![p] = None],
         to' = [to EXCEPT ![p] = "none"],
         \/ about' = [about EXCEPT ![p] = None]
         \/ about' = about /\ about[p] = None
  PROVE  IInv'
<1>1. Job(p, "idle", None, "none", None)
  BY Ends DEF IInv
<1> QED
  BY <1>1, IdleIsReady, QuietStep DEF Job

-----------------------------------------------------------------------------
(* The handlers of QuoteLifecycle, which leave proposals and requests alone *)

LEMMA OrdinaryFinish ==
  ASSUME IInv, NEW p \in Procs, Finish(p), UNCHANGED <<status, booking, changeVars>>,
         pc[p] \notin Carrying
  PROVE  IInv'
<1>1. about[p] = None
  BY DEF IInv, JobsReady, JobReady
<1> QED
  BY <1>1, QuietEnd DEF Finish, Quiet, changeVars

LEMMA OrdinaryGoto ==
  ASSUME IInv, NEW p \in Procs, NEW label \in Labels, Goto(p, label),
         UNCHANGED <<status, booking, target, to, changeVars>>,
         pc[p] \notin Carrying \cup {"idle", "review"},
         label \in {"freeze", "mail"} => to[p] = "SENT",
         label \in {"read", "write"} => to[p] \in {"SENT", "READ", "VIEWED", "CANCELED"},
         label \in {"reconcile", "save"} => to[p] \in BookingStatuses /\ booking[target[p]] # "none",
         label = "reconcile" => BookingDrives[to[p]] # "none",
         label \in {"write", "freeze", "mail", "read", "release", "lead", "quoted", "reconcile", "save"}
  PROVE  IInv'
<1>1. Job(p, label, target[p], to[p], about[p])
  BY Moves DEF IInv, changeVars
<1>2. JobReady(p) /\ about[p] = None
  BY DEF IInv, JobsReady, JobReady
<1>3. JobReady(p)'
  BY <1>1, <1>2 DEF Job, JobReady, Carrying, Settled, changeVars, historyVars
<1> QED
  BY <1>1, <1>3, QuietStep DEF Quiet, changeVars

LEMMA OrdinaryRequest ==
  ASSUME IInv, NEW p \in Procs, Request(p), UNCHANGED changeVars
  PROVE  IInv'
<1>1. PICK q \in Quotes :
        \/ CustomerOpens(p, q) \/ CustomerViews(p, q) \/ CancelQuote(p, q)
        \/ StartSend(p, q) \/ StartSign(p, q) \/ StartDeleteDraft(p, q)
        \/ \E s \in BookingStatuses : StartTicketing(p, q, s)
  BY DEF Request
<1>2. Quiet /\ pc[p] = "idle"
  BY <1>1
  DEF Quiet, changeVars, quoteVars, bookingVars, CustomerOpens, CustomerViews, CancelQuote, StartSend,
      StartSign, StartDeleteDraft, StartTicketing, Start
<1>3. about[p] = None /\ about' = about /\ approved' = approved
  BY <1>2 DEF IInv, JobsReady, JobReady, Carrying, Quiet, changeVars, historyVars
<1>4. QuoteReady(q) /\ JobShapes
  BY DEF IInv, QuotesReady
<1>5. ~StartDeleteDraft(p, q)
  BY DEF StartDeleteDraft, IInv, Shapes, AnyStatus, Linear, ExchangeStatuses, CancellationStatuses,
         BeyondApproval
<1>6. ASSUME NEW label \in {"read", "claim", "sign", "ticket"}, NEW wanted \in Wishes,
             Start(p, label, q, wanted), Settled(q),
             label = "read" => wanted \in {"READ", "VIEWED", "CANCELED"},
             label = "claim" => wanted = "SENT",
             label = "ticket" => wanted \in BookingStatuses
      PROVE  IInv'
  <2>1. Job(p, label, q, wanted, None)
    BY <1>3, <1>4, <1>6, Starts DEF Labels, Ordinary
  <2>2. JobReady(p)'
    BY <1>3, <1>6, <2>1 DEF Job, JobReady, Carrying, Settled
  <2> QED
    BY <1>2, <2>1, <2>2, QuietStep
<1>7. CASE CustomerOpens(p, q) \/ CustomerViews(p, q)
  <2>1. Settled(q)
    BY <1>4, <1>7 DEF CustomerOpens, CustomerViews, QuoteReady, Linear
  <2> QED
    BY <1>6, <1>7, <2>1 DEF CustomerOpens, CustomerViews, Wishes
<1>8. CASE CancelQuote(p, q)
  <2>1. Settled(q)
    BY <1>4, <1>8 DEF CancelQuote, Cancelable, QuoteReady, Linear
  <2> QED
    BY <1>6, <1>8, <2>1 DEF CancelQuote, Wishes
<1>9. CASE StartSend(p, q)
  <2>1. Settled(q)
    BY <1>4, <1>9 DEF StartSend, Sendable, QuoteReady, Linear
  <2> QED
    BY <1>6, <1>9, <2>1 DEF StartSend, Wishes
<1>10. CASE StartSign(p, q)
  <2>1. Settled(q)
    BY <1>4, <1>10 DEF StartSign, Bookable, QuoteReady, Linear
  <2> QED
    BY <1>6, <1>10, <2>1 DEF StartSign, Wishes
<1>11. ASSUME NEW s \in BookingStatuses, StartTicketing(p, q, s) PROVE IInv'
  <2>1. Settled(q)
    BY <1>4, <1>11 DEF StartTicketing, QuoteReady
  <2> QED
    BY <1>6, <1>11, <2>1 DEF StartTicketing, Wishes
<1> QED
  BY <1>1, <1>5, <1>7, <1>8, <1>9, <1>10, <1>11
\* A write by id on an original or an approved proposal, whatever its status.
LEMMA SettledMoves ==
  ASSUME IInv, Kept, NEW q \in Quotes, Settled(q),
         NEW s \in AnyStatus \ {"PENDING_EXCHANGE_APPROVAL", "EXCHANGE_DISAPPROVED", "deleted"},
         status' = [status EXCEPT ![q] = s], s \in BeyondApproval => Licensed(q),
         UNCHANGED proposalVars, approved' \cap Quotes = approved \cap Quotes,
         told' \cap Quotes = told \cap Quotes, \A o \in Quotes \ {q} : booking'[o] = booking[o]
  PROVE  QuotesReady'
<1>1. UNCHANGED <<original, current, successor>>
  BY DEF proposalVars
<1>2. SUFFICES ASSUME NEW o \in Quotes PROVE QuoteReady(o)'
  BY DEF QuotesReady
<1>3. QuoteReady(o) /\ QuoteReady(q)
  BY DEF IInv, QuotesReady
<1>4. status[q] # "deleted"
  BY <1>3 DEF QuoteReady, Settled
<1>5. status'[q] = s /\ (o # q => status'[o] = status[o])
  BY DEF IInv, Shapes
<1>6. Licensed(o) => Licensed(o)'
  BY QuoteAssumption DEF Licensed, Kept
<1>7. /\ original'[o] = original[o] /\ current'[o] = current[o] /\ successor'[o] = successor[o]
      /\ \A x \in Quotes : x \in approved' <=> x \in approved
      /\ o \in told' <=> o \in told
  BY <1>1
<1>8. original[o] \in Quotes \cup {None}
  BY DEF IInv, Shapes
<1>9. CASE o = q
  BY <1>3, <1>4, <1>5, <1>6, <1>7, <1>8, <1>9 DEF QuoteReady, Settled
<1>10. CASE o # q
  BY <1>3, <1>5, <1>6, <1>7, <1>8, <1>10 DEF QuoteReady, Settled
<1> QED
  BY <1>9, <1>10

\* The same, by a handler of QuoteLifecycle.
LEMMA OrdinaryWrite ==
  ASSUME IInv, NEW p \in Procs, NEW label \in Labels, NEW q, NEW wanted, NEW x,
         Job(p, label, q, wanted, x), JobReady(p)', UNCHANGED changeVars,
         NEW t \in Quotes, Settled(t), NEW s \in AnyStatus,
         s \in Linear \cup {"CANCELED"}, status' = [status EXCEPT ![t] = s],
         NEW b \in BookingStatuses \cup {"none"}, booking' = [booking EXCEPT ![t] = b],
         booking[t] # "none" => b # "none"
  PROVE  IInv'
<1>1. UNCHANGED <<original, current, successor, request, requestFor, approved, told>>
  BY DEF changeVars, proposalVars, requestVars, historyVars
<1>2. Kept
  BY <1>1 DEF Kept, IInv, Shapes
<1>3. Shapes' /\ RequestsReady'
  BY <1>1 DEF IInv, Shapes, RequestsReady, RequestReady, Settled
<1>4. \A o \in Quotes \ {t} : booking'[o] = booking[o]
  BY DEF IInv, Shapes
<1>5. s \in AnyStatus \ {"PENDING_EXCHANGE_APPROVAL", "EXCHANGE_DISAPPROVED", "deleted"}
      /\ s \notin BeyondApproval
  BY DEF Linear, BeyondApproval
<1>6. QuotesReady'
  BY <1>1, <1>2, <1>4, <1>5, SettledMoves DEF proposalVars
<1> QED
  BY <1>2, <1>3, <1>6, OneJobMoves

LEMMA AfterTransitionStep ==
  ASSUME IInv, NEW p \in Procs, AfterTransition(p), pc[p] \in {"read", "write"},
         UNCHANGED <<status, booking, changeVars>>
  PROVE  IInv'
<1>1. CASE to[p] = "SENT"
  BY <1>1, OrdinaryGoto DEF AfterTransition, Labels, Ordinary, Carrying
<1>2. CASE to[p] # "SENT"
  BY <1>2, OrdinaryFinish DEF AfterTransition, Carrying
<1> QED
  BY <1>1, <1>2

LEMMA OrdinaryTransition ==
  ASSUME IInv, NEW p \in Procs, Transition(p), UNCHANGED changeVars
  PROVE  IInv'
<1>1. JobReady(p) /\ JobShapes
  BY DEF IInv, JobsReady
<1>2. CASE ReadStatus(p)
  <2>1. /\ pc[p] = "read" /\ UNCHANGED <<status, booking>>
        /\ \/ Goto(p, "write") /\ UNCHANGED <<target, to, seen, since, from>>
           \/ AfterTransition(p)
    BY <1>2 DEF ReadStatus, quoteVars, bookingVars
  <2>2. CASE AfterTransition(p)
    BY <2>1, <2>2, AfterTransitionStep
  <2>3. CASE Goto(p, "write") /\ UNCHANGED <<target, to, seen, since, from>>
    BY <1>1, <2>1, <2>3, OrdinaryGoto DEF JobReady, Labels, Ordinary, Carrying
  <2> QED
    BY <2>1, <2>2, <2>3
<1>3. CASE WriteStatus(p)
  <2>1. /\ pc[p] = "write" /\ status' = [status EXCEPT ![target[p]] = to[p]]
        /\ AfterTransition(p) /\ UNCHANGED booking
    BY <1>3 DEF WriteStatus, bookingVars
  <2>2. /\ target[p] \in Quotes /\ Settled(target[p]) /\ about[p] = None
        /\ to[p] \in {"SENT", "READ", "VIEWED", "CANCELED"}
    BY <1>1, <2>1 DEF JobReady, Carrying
  <2>3. about' = about /\ approved' = approved
    BY DEF changeVars, historyVars
  <2>4. \/ Job(p, "lead", target[p], to[p], None)
        \/ Job(p, "idle", None, "none", None)
    <3>1. CASE to[p] = "SENT"
      BY <1>1, <2>1, <2>2, <2>3, <3>1, Moves DEF AfterTransition, Labels, Ordinary
    <3>2. CASE to[p] # "SENT"
      BY <1>1, <2>1, <2>2, <2>3, <3>2, Ends DEF AfterTransition, Finish
    <3> QED
      BY <3>1, <3>2
  <2>5. JobReady(p)'
    BY <2>2, <2>3, <2>4 DEF Job, JobReady, Carrying, Settled
  <2>6. /\ to[p] \in AnyStatus /\ to[p] \in Linear \cup {"CANCELED"}
        /\ booking[target[p]] \in BookingStatuses \cup {"none"}
        /\ booking' = [booking EXCEPT ![target[p]] = booking[target[p]]]
    BY <2>1, <2>2 DEF AnyStatus, Linear, IInv, Shapes
  <2>7. "lead" \in Labels /\ "idle" \in Labels
    BY DEF Labels, Ordinary
  <2> QED
    BY <2>1, <2>2, <2>4, <2>5, <2>6, <2>7, OrdinaryWrite
<1>4. CASE QuoteVanished(p)
  BY <1>4, OrdinaryFinish DEF QuoteVanished, quoteVars, bookingVars, Carrying
<1> QED
  BY <1>2, <1>3, <1>4 DEF Transition

LEMMA OrdinarySend ==
  ASSUME IInv, NEW p \in Procs, SendStep(p), UNCHANGED changeVars
  PROVE  IInv'
<1>1. JobReady(p)
  BY DEF IInv, JobsReady
<1> USE DEF quoteVars, bookingVars
<1>2. CASE ClaimSend(p)
  BY <1>1, <1>2, OrdinaryGoto DEF ClaimSend, JobReady, Labels, Ordinary, Carrying
<1>3. CASE DuplicateSend(p)
  BY <1>3, OrdinaryFinish DEF DuplicateSend, Carrying
<1>4. CASE FreezeSnapshot(p)
  BY <1>1, <1>4, OrdinaryGoto DEF FreezeSnapshot, JobReady, Labels, Ordinary, Carrying
<1>5. CASE QuoteChangedWhileSending(p)
  BY <1>5, OrdinaryGoto DEF QuoteChangedWhileSending, Labels, Ordinary, Carrying
<1>6. CASE MailQuote(p)
  BY <1>1, <1>6, OrdinaryGoto DEF MailQuote, JobReady, Labels, Ordinary, Carrying
<1>7. CASE MailFails(p)
  BY <1>7, OrdinaryGoto DEF MailFails, Labels, Ordinary, Carrying
<1>8. CASE ReplyLost(p)
  BY <1>8, OrdinaryGoto DEF ReplyLost, Labels, Ordinary, Carrying
<1>9. CASE ReleaseSend(p)
  BY <1>9, OrdinaryFinish DEF ReleaseSend, Carrying
<1>10. CASE ReadLead(p)
  BY <1>10, OrdinaryGoto, OrdinaryFinish DEF ReadLead, Labels, Ordinary, Carrying
<1>11. CASE AdvanceLead(p)
  BY <1>11, OrdinaryFinish DEF AdvanceLead, Carrying
<1> QED
  BY <1>2, <1>3, <1>4, <1>5, <1>6, <1>7, <1>8, <1>9, <1>10, <1>11 DEF SendStep
LEMMA OrdinaryBooking ==
  ASSUME IInv, NEW p \in Procs, BookingStep(p), UNCHANGED changeVars
  PROVE  IInv'
<1>1. JobReady(p) /\ JobShapes
  BY DEF IInv, JobsReady
<1>2. about' = about
  BY DEF changeVars
<1>3. ASSUME NEW t \in Quotes, Settled(t), NEW s \in AnyStatus, s \in Linear \cup {"CANCELED"},
             status' = [status EXCEPT ![t] = s], NEW b \in BookingStatuses,
             booking' = [booking EXCEPT ![t] = b], Finish(p), about[p] = None
      PROVE  IInv'
  <2>1. Job(p, "idle", None, "none", None)
    BY <1>1, <1>2, <1>3, Ends DEF Finish
  <2>2. JobReady(p)' /\ "idle" \in Labels /\ b # "none"
    BY <2>1, IdleIsReady DEF Job, Labels, BookingStatuses
  <2> QED
    BY <1>3, <2>1, <2>2, OrdinaryWrite
<1>4. CASE SignQuote(p)
  <2>1. target[p] \in Quotes /\ Settled(target[p]) /\ about[p] = None
    BY <1>1, <1>4 DEF SignQuote, JobReady, Carrying
  <2>2. "SIGNED" \in AnyStatus /\ "SIGNED" \in Linear /\ "PENDING_TICKETING" \in BookingStatuses
    BY DEF AnyStatus, Linear, BookingStatuses
  <2> QED
    BY <1>3, <1>4, <2>1, <2>2 DEF SignQuote
<1>5. CASE SigningRefused(p)
  BY <1>5, OrdinaryFinish DEF SigningRefused, quoteVars, bookingVars, Carrying
<1>6. CASE LockBooking(p)
  <2>1. /\ pc[p] = "ticket" /\ booking[target[p]] # "none" /\ to[p] \in BookingStatuses
        /\ UNCHANGED <<status, booking, target, to>>
        /\ \/ Goto(p, "save")
           \/ Goto(p, "reconcile") /\ BookingDrives[to[p]] # "none"
    BY <1>1, <1>6 DEF LockBooking, JobReady, quoteVars, bookingVars
  <2> QED
    BY <2>1, OrdinaryGoto DEF Labels, Ordinary, Carrying
<1>7. CASE BookingVanished(p)
  BY <1>7, OrdinaryFinish DEF BookingVanished, quoteVars, bookingVars, Carrying
<1>8. CASE SaveTicketing(p)
  <2>1. /\ pc[p] \in {"reconcile", "save"} /\ Finish(p)
        /\ booking' = [booking EXCEPT ![target[p]] = to[p]]
        /\ status' = [status EXCEPT ![target[p]] =
                        IF pc[p] = "reconcile" THEN BookingDrives[to[p]] ELSE status[target[p]]]
    BY <1>8 DEF SaveTicketing
  <2>2. /\ target[p] \in Quotes /\ Settled(target[p]) /\ about[p] = None
        /\ to[p] \in BookingStatuses /\ booking[target[p]] # "none"
        /\ pc[p] = "reconcile" => BookingDrives[to[p]] # "none"
    BY <1>1, <2>1 DEF JobReady, Carrying
  <2>3. CASE pc[p] = "reconcile"
    <3>1. BookingDrives[to[p]] \in {"BOOKED", "CHARGED"}
      BY <2>2, <2>3 DEF BookingDrives
    <3>2. BookingDrives[to[p]] \in AnyStatus /\ BookingDrives[to[p]] \in Linear
      BY <3>1 DEF AnyStatus, Linear
    <3> QED
      BY <1>3, <2>1, <2>2, <2>3, <3>2
  <2>4. CASE pc[p] # "reconcile"
    <3>1. UNCHANGED status
      BY <2>1, <2>2, <2>4 DEF IInv, Shapes
    <3>2. Job(p, "idle", None, "none", None)
      BY <1>1, <1>2, <2>1, <2>2, Ends DEF Finish
    <3>3. JobReady(p)'
      BY <3>2, IdleIsReady DEF Job
    <3>4. Kept
      BY <2>1, <2>2 DEF Kept, IInv, Shapes, changeVars, proposalVars, requestVars, historyVars,
                        BookingStatuses
    <3>5. Shapes' /\ RequestsReady'
      BY <2>1, <2>2, <3>1 DEF IInv, Shapes, RequestsReady, RequestReady, Settled, changeVars,
                              proposalVars, requestVars, historyVars
    <3>6. QuotesReady'
      BY <2>1, <2>2, <3>1 DEF IInv, Shapes, QuotesReady, QuoteReady, Settled, Licensed, changeVars,
                              proposalVars, requestVars, historyVars
    <3> QED
      BY <3>2, <3>3, <3>4, <3>5, <3>6, OneJobMoves
  <2> QED
    BY <2>3, <2>4
<1>9. ~DeleteDraftQuote(p)
  BY <1>1 DEF DeleteDraftQuote, JobShapes, Labels, Ordinary, Carrying
<1> QED
  BY <1>4, <1>5, <1>6, <1>7, <1>8, <1>9 DEF BookingStep

LEMMA OrdinaryKeeps == ASSUME IInv, NEW p \in Procs, OrdinaryStep(p) PROVE IInv'
BY OrdinaryRequest, OrdinaryTransition, OrdinarySend, OrdinaryBooking DEF OrdinaryStep

LEMMA KilledKeeps == ASSUME IInv, NEW p \in Procs, Killed(p) PROVE IInv'
BY QuietEnd DEF Killed, Crash, Finish, Quiet, quoteVars, bookingVars

-----------------------------------------------------------------------------
(* Clicks: what a handler has read before its transaction *)

LEMMA BeginKeeps ==
  ASSUME IInv, NEW p \in Procs, NEW label \in Labels \ Ordinary, NEW q \in Quotes,
         NEW x \in Quotes \cup Requests \cup {None}, NEW wanted \in Wishes,
         Begin(p, label, q, x, wanted), label # "idle", x # None => label \in Carrying,
         IF label = "review" THEN original[q] # None ELSE Settled(q),
         label = "revise" => x \in Quotes /\ original[x] # None /\ q = original[x],
         label \in {"confirm", "disregard", "form", "mail_form"} => x \in Requests /\ requestFor[x] = q,
         label \in {"form", "mail_form", "submit", "mail_final", "revert"} => Licensed(q)
  PROVE  IInv'
<1>1. Quiet
  BY DEF Begin, Quiet, untouchedVars, bookingVars
<1>2. Job(p, label, q, wanted, x)
  BY Starts DEF Begin, IInv
<1>3. UNCHANGED <<approved, original, requestFor>>
  BY <1>1 DEF Quiet, historyVars, proposalVars, requestVars
<1>4. JobReady(p)'
  BY <1>2, <1>3 DEF Job, JobReady, Settled, Licensed, Ordinary
<1> QED
  BY <1>1, <1>2, <1>4, QuietStep

LEMMA RequestedIsSettled ==
  ASSUME IInv, NEW r \in Requests, request[r] # "none"
  PROVE  /\ requestFor[r] \in Quotes /\ Settled(requestFor[r])
         /\ request[r] = "CONFIRMED" => Licensed(requestFor[r])
BY DEF IInv, RequestsReady, RequestReady, Shapes, Licensed

LEMMA ClicksKeep == ASSUME IInv, NEW p \in Procs, ChangeRequest(p) PROVE IInv'
<1>1. ASSUME NEW q \in Quotes,
             \/ StartExchange(p, q) \/ StartRevision(p, q)
             \/ \E verdict \in {"EXCHANGE_APPROVED", "EXCHANGE_DISAPPROVED"} : StartReview(p, q, verdict)
             \/ StartCancellation(p, q) \/ CustomerConfirms(p, q) \/ StartFinal(p, q)
      PROVE  IInv'
  <2>1. QuoteReady(q) /\ original[q] \in Quotes \cup {None} /\ "none" \in Wishes
    BY DEF IInv, QuotesReady, Shapes, Wishes
  <2>2. CASE StartExchange(p, q) \/ StartCancellation(p, q)
    <3>1. Settled(q)
      BY <2>1, <2>2 DEF StartExchange, StartCancellation, QuoteReady, Linear
    <3> QED
      BY <2>1, <2>2, <3>1, BeginKeeps DEF StartExchange, StartCancellation, Labels, Ordinary, Carrying
  <2>3. CASE StartRevision(p, q)
    BY <2>1, <2>3, BeginKeeps DEF StartRevision, QuoteReady, Labels, Ordinary, Carrying
  <2>4. ASSUME NEW verdict \in {"EXCHANGE_APPROVED", "EXCHANGE_DISAPPROVED"}, StartReview(p, q, verdict)
        PROVE  IInv'
    BY <2>4, BeginKeeps DEF StartReview, Labels, Ordinary, Carrying, Wishes
  <2>5. CASE CustomerConfirms(p, q)
    <3>1. Licensed(q)
      BY <2>1, <2>5 DEF CustomerConfirms, QuoteReady, BeyondApproval
    <3>2. Settled(q)
      BY <3>1 DEF Licensed, IInv, RequestsReady, RequestReady, Settled, Shapes
    <3> QED
      BY <2>1, <2>5, <3>1, <3>2, BeginKeeps DEF CustomerConfirms, Labels, Ordinary, Carrying
  <2>6. CASE StartFinal(p, q)
    <3>1. Settled(q)
      BY <2>1, <2>6 DEF StartFinal, QuoteReady
    <3>2. PICK x \in Requests \cup {None} : Begin(p, "finalize", q, x, "none")
      BY <2>6 DEF StartFinal, ConfirmedRequests
    <3> QED
      BY <2>1, <3>1, <3>2, BeginKeeps DEF Labels, Ordinary, Carrying
  <2> QED
    BY <1>1, <2>2, <2>3, <2>4, <2>5, <2>6
<1>2. ASSUME NEW r \in Requests,
             StartConfirmation(p, r) \/ StartDisregard(p, r) \/ StartForm(p, r) \/ ResendForm(p, r)
      PROVE  IInv'
  <2>1. request[r] # "none"
    BY <1>2 DEF StartConfirmation, StartDisregard, StartForm, Formable, ResendForm
  <2>2. /\ requestFor[r] \in Quotes /\ Settled(requestFor[r])
        /\ request[r] = "CONFIRMED" => Licensed(requestFor[r])
    BY <2>1, RequestedIsSettled
  <2>3. \E label \in {"confirm", "disregard", "form", "mail_form"} :
          /\ Begin(p, label, requestFor[r], r, "none")
          /\ label \in {"form", "mail_form"} => request[r] = "CONFIRMED"
    BY <1>2 DEF StartConfirmation, StartDisregard, StartForm, Formable, ResendForm
  <2> QED
    BY <2>2, <2>3, BeginKeeps DEF Labels, Ordinary, Carrying, Wishes
<1> QED
  BY <1>1, <1>2 DEF ChangeRequest
-----------------------------------------------------------------------------
(* Exchanges *)

LEMMA EndJob ==
  ASSUME IInv, NEW p \in Procs, End(p)
  PROVE  Job(p, "idle", None, "none", None) /\ JobReady(p)' /\ UNCHANGED booking
<1>1. Job(p, "idle", None, "none", None)
  BY Ends DEF End, IInv
<1> QED
  BY <1>1, IdleIsReady DEF Job, End, untouchedVars, bookingVars

LEMMA Refused == ASSUME IInv, NEW p \in Procs, Refuse(p) PROVE IInv'
BY QuietEnd DEF Refuse, End, Quiet, untouchedVars, bookingVars

\* A row nobody has used: no approval, booking or e-mail knows of it.
LEMMA UnusedIsFresh ==
  ASSUME IInv, NEW n \in Quotes, Unused(n)
  PROVE  status[n] = "deleted" /\ n \notin approved /\ booking[n] = "none" /\ n \notin told
         /\ ~Settled(n) /\ n \in Proposals
<1>1. QuoteReady(n)
  BY DEF IInv, QuotesReady
<1>2. status[n] = "deleted" /\ n \notin approved /\ n \in Proposals
  BY <1>1 DEF QuoteReady, Unused
<1>3. ~Licensed(n)
  BY <1>2 DEF IInv, RequestsReady, RequestReady, Settled, Licensed, Unused, Shapes
<1> QED
  BY <1>1, <1>2, <1>3 DEF QuoteReady, Settled

\* A new proposal n, made from row o of the same exchange.
LEMMA ProposalKeeps ==
  ASSUME IInv, NEW p \in Procs, End(p), UNCHANGED <<requestVars, historyVars>>,
         NEW n \in Quotes, Unused(n), NEW root \in Quotes, Settled(root), NEW o \in Quotes, n # o,
         NEW s \in {"EXCHANGED", "EXCHANGE_SUPERSEDED"},
         status' = [status EXCEPT ![n] = "PENDING_EXCHANGE_APPROVAL", ![o] = s],
         original' = [original EXCEPT ![n] = root],
         current' \in [Quotes -> BOOLEAN], successor' \in [Quotes -> Quotes \cup {None}],
         \A q \in Quotes \ {n} :
           original[q] = None => current'[q] = current[q] /\ successor'[q] = successor[q],
         status[o] # "deleted"
  PROVE  IInv'
<1>1. /\ Job(p, "idle", None, "none", None) /\ JobReady(p)'
      /\ UNCHANGED <<booking, request, requestFor, approved, told>>
  BY EndJob DEF requestVars, historyVars
<1>2. /\ n \in Proposals /\ n \notin approved /\ booking[n] = "none" /\ n \notin told
      /\ original[n] = None /\ status[n] = "deleted"
  BY UnusedIsFresh DEF Unused
<1>3. Kept
  BY <1>1, <1>2 DEF Kept, IInv, Shapes
<1>4. status'[n] = "PENDING_EXCHANGE_APPROVAL" /\ status'[o] = s
      /\ \A q \in Quotes \ {n, o} : status'[q] = status[q]
  BY DEF IInv, Shapes
<1>5. original'[n] = root /\ \A q \in Quotes \ {n} : original'[q] = original[q]
  BY DEF IInv, Shapes
<1>6. Shapes'
  <2>1. s \in AnyStatus /\ "PENDING_EXCHANGE_APPROVAL" \in AnyStatus
    BY DEF AnyStatus, ExchangeStatuses
  <2> QED
    BY <1>1, <2>1 DEF IInv, Shapes
<1>7. RequestsReady'
  BY <1>1 DEF IInv, RequestsReady, RequestReady, Settled
<1>8. QuotesReady'
  <2>1. SUFFICES ASSUME NEW q \in Quotes PROVE QuoteReady(q)'
    BY DEF QuotesReady
  <2>2. QuoteReady(q) /\ QuoteReady(o)
    BY DEF IInv, QuotesReady
  <2>3. Licensed(q) <=> Licensed(q)'
    BY <1>1 DEF Licensed
  <2>4. CASE q = n
    BY <1>1, <1>2, <1>4, <1>5, <2>3, <2>4, QuoteAssumption
    DEF QuoteReady, Settled, Linear, BeyondApproval
  <2>5. CASE q = o
    <3>1. s \notin Linear \cup {"EXCHANGE_APPROVED", "PENDING_EXCHANGE_APPROVAL", "EXCHANGE_DISAPPROVED",
                            "deleted"} \cup BeyondApproval
      BY DEF Linear, BeyondApproval
    <3>2. /\ status'[q] = s /\ original'[q] = original[q]
          /\ original[q] = None => current'[q] = current[q] /\ successor'[q] = successor[q]
      BY <1>4, <1>5, <2>5
    <3>3. status[q] # "deleted"
      BY <2>5
    <3> QED
      BY <1>1, <2>2, <2>3, <3>1, <3>2, <3>3 DEF QuoteReady, Settled
  <2>6. CASE q \notin {n, o}
    <3>1. /\ status'[q] = status[q] /\ original'[q] = original[q]
          /\ original[q] = None => current'[q] = current[q] /\ successor'[q] = successor[q]
      BY <1>4, <1>5, <2>6
    <3> QED
      BY <1>1, <2>2, <2>3, <3>1 DEF QuoteReady, Settled
  <2> QED
    BY <2>4, <2>5, <2>6
<1> QED
  BY <1>1, <1>3, <1>6, <1>7, <1>8, OneJobMoves

LEMMA ExchangeKeeps == ASSUME IInv, NEW p \in Procs, ExchangeStep(p) PROVE IInv'
<1>0. JobReady(p) /\ Shapes
  BY DEF IInv, JobsReady
<1>1. CASE ProposeExchange(p)
  <2>1. target[p] \in Quotes /\ Settled(target[p]) /\ End(p) /\ UNCHANGED <<requestVars, historyVars>>
    BY <1>0, <1>1 DEF ProposeExchange, JobReady
  <2>2. PICK n \in Quotes :
          /\ Unused(n)
          /\ status' = [status EXCEPT ![n] = "PENDING_EXCHANGE_APPROVAL", ![target[p]] = "EXCHANGED"]
          /\ original' = [original EXCEPT ![n] = target[p]]
          /\ current' = [current EXCEPT ![n] = TRUE] /\ successor' = successor
    BY <1>1 DEF ProposeExchange
  <2>3. ~Settled(n) /\ n # target[p]
    BY <2>1, <2>2, UnusedIsFresh
  <2>4. status[target[p]] # "deleted"
    BY <2>1 DEF IInv, QuotesReady, QuoteReady, Settled
  <2>5. /\ current' \in [Quotes -> BOOLEAN] /\ successor' \in [Quotes -> Quotes \cup {None}]
        /\ \A q \in Quotes \ {n} :
             original[q] = None => current'[q] = current[q] /\ successor'[q] = successor[q]
    BY <1>0, <2>2 DEF Shapes
  <2> QED
    BY <2>1, <2>2, <2>3, <2>4, <2>5, ProposalKeeps
<1>2. CASE ReviseExchange(p)
  <2>1. /\ target[p] \in Quotes /\ Settled(target[p]) /\ about[p] \in Quotes
        /\ original[about[p]] # None /\ End(p) /\ UNCHANGED <<requestVars, historyVars>>
        /\ status[about[p]] \in Revisable
    BY <1>0, <1>2 DEF ReviseExchange, Replaceable, JobReady
  <2>2. PICK n \in Quotes :
          /\ Unused(n)
          /\ status' = [status EXCEPT ![n] = "PENDING_EXCHANGE_APPROVAL",
                                      ![about[p]] = "EXCHANGE_SUPERSEDED"]
          /\ original' = [original EXCEPT ![n] = target[p]]
          /\ current' = [current EXCEPT ![n] = TRUE, ![about[p]] = FALSE]
          /\ successor' = [successor EXCEPT ![about[p]] = n]
    BY <1>2 DEF ReviseExchange
  <2>3. n # about[p] /\ status[about[p]] # "deleted"
    BY <2>1, <2>2 DEF Unused, Revisable
  <2>4. /\ current' \in [Quotes -> BOOLEAN] /\ successor' \in [Quotes -> Quotes \cup {None}]
        /\ \A q \in Quotes \ {n} :
             original[q] = None => current'[q] = current[q] /\ successor'[q] = successor[q]
    BY <1>0, <2>1, <2>2 DEF Shapes
  <2> QED
    BY <2>1, <2>2, <2>3, <2>4, ProposalKeeps
<1>3. CASE ApproveExchange(p)
  <2> DEFINE n == target[p]
  <2>1. /\ n \in Quotes /\ original[n] # None /\ status[n] = "PENDING_EXCHANGE_APPROVAL"
        /\ status' = [status EXCEPT ![n] = "EXCHANGE_APPROVED"]
        /\ approved' = approved \cup {n} /\ UNCHANGED <<proposalVars, requestVars, told>>
    BY <1>0, <1>3 DEF ApproveExchange, Reviewable, JobReady
  <2>2. Job(p, "idle", None, "none", None) /\ JobReady(p)' /\ UNCHANGED booking
    BY <1>3, EndJob DEF ApproveExchange
  <2> HIDE DEF n
  <2>3. UNCHANGED <<original, current, successor, request, requestFor>> /\ n \notin Requests
    BY <2>1, ChangesAssumption DEF proposalVars, requestVars
  <2>4. Kept
    BY <2>1, <2>2, <2>3 DEF Kept
  <2>5. "EXCHANGE_APPROVED" \in AnyStatus
    BY DEF AnyStatus, ExchangeStatuses
  <2>6. Shapes'
    BY <1>0, <2>1, <2>2, <2>3, <2>5 DEF Shapes
  <2>7. RequestsReady'
    BY <2>1, <2>3 DEF IInv, RequestsReady, RequestReady, Settled
  <2>8. ASSUME NEW q \in Quotes PROVE QuoteReady(q)'
    <3>1. QuoteReady(q) /\ QuoteReady(n) /\ (Licensed(q) => Licensed(q)')
      BY <2>1, <2>3 DEF IInv, QuotesReady, Licensed
    <3>2. q # n => status'[q] = status[q]
      BY <1>0, <2>1 DEF Shapes
    <3>3. CASE q = n
      BY <1>0, <2>1, <2>2, <2>3, <3>1, <3>3
      DEF Shapes, QuoteReady, Settled, Linear, BeyondApproval
    <3>4. CASE q # n
      BY <2>1, <2>2, <2>3, <3>1, <3>2, <3>4 DEF QuoteReady, Settled
    <3> QED
      BY <3>3, <3>4
  <2> QED
    BY <2>2, <2>4, <2>6, <2>7, <2>8, OneJobMoves DEF QuotesReady
<1>4. CASE DisapproveExchange(p)
  <2> DEFINE n == target[p]
             root == original[n]
  <2>1. /\ n \in Quotes /\ root # None /\ status[n] = "PENDING_EXCHANGE_APPROVAL"
        /\ status' = [status EXCEPT ![n] = "EXCHANGE_DISAPPROVED", ![root] = "CHARGED"]
        /\ current' = [current EXCEPT ![n] = FALSE]
        /\ UNCHANGED <<original, successor, requestVars, historyVars>>
    BY <1>0, <1>4 DEF DisapproveExchange, Reviewable, JobReady
  <2>2. Job(p, "idle", None, "none", None) /\ JobReady(p)' /\ UNCHANGED booking
    BY <1>4, EndJob DEF DisapproveExchange
  <2>3. root \in Quotes
    BY <1>0, <2>1 DEF Shapes
  <2>4. Settled(root) /\ n \in Proposals /\ n \notin approved
    BY <2>1 DEF IInv, QuotesReady, QuoteReady
  <2>5. original[n] # None
    BY <2>1
  <2> HIDE DEF n, root
  <2>6. UNCHANGED <<original, successor, request, requestFor, approved, told>> /\ n # root
    BY <2>1, <2>4 DEF requestVars, historyVars, Settled
  <2>7. Kept
    BY <2>2, <2>6 DEF Kept
  <2>8. "EXCHANGE_DISAPPROVED" \in AnyStatus /\ "CHARGED" \in AnyStatus
    BY DEF AnyStatus, ExchangeStatuses, Linear
  <2>9. Shapes'
    BY <1>0, <2>1, <2>2, <2>3, <2>6, <2>8 DEF Shapes
  <2>10. RequestsReady'
    BY <2>6 DEF IInv, RequestsReady, RequestReady, Settled
  <2>11. ASSUME NEW q \in Quotes PROVE QuoteReady(q)'
    <3>1. QuoteReady(q) /\ QuoteReady(root) /\ (Licensed(q) <=> Licensed(q)')
      BY <2>3, <2>6 DEF IInv, QuotesReady, Licensed
    <3>2. /\ status'[n] = "EXCHANGE_DISAPPROVED" /\ status'[root] = "CHARGED"
          /\ q \notin {n, root} => status'[q] = status[q]
          /\ q # n => current'[q] = current[q]
      BY <1>0, <2>1, <2>3, <2>6 DEF Shapes
    <3>3. CASE q = n
      BY <2>2, <2>4, <2>5, <2>6, <3>1, <3>2, <3>3 DEF QuoteReady, Settled, Linear, BeyondApproval
    <3>4. CASE q = root
      BY <2>2, <2>4, <2>6, <3>1, <3>2, <3>4 DEF QuoteReady, Settled, BeyondApproval
    <3>5. CASE q \notin {n, root}
      BY <2>2, <2>6, <3>1, <3>2, <3>5 DEF QuoteReady, Settled
    <3> QED
      BY <3>3, <3>4, <3>5
  <2> QED
    BY <2>2, <2>7, <2>9, <2>10, <2>11, OneJobMoves DEF QuotesReady
<1>5. CASE ExchangeRefused(p) \/ RevisionRefused(p) \/ ReviewRefused(p)
  BY <1>5, Refused DEF ExchangeRefused, RevisionRefused, ReviewRefused
<1> QED
  BY <1>1, <1>2, <1>3, <1>4, <1>5 DEF ExchangeStep
-----------------------------------------------------------------------------
(* Cancellations *)

\* A status write on quote t, with whatever happens to requests and approvals.
LEMMA CancellationWrite ==
  ASSUME IInv, NEW p \in Procs, NEW label, NEW c, NEW wanted, NEW x,
         Job(p, label, c, wanted, x), JobReady(p)', UNCHANGED <<proposalVars, booking, told>>,
         NEW t \in Quotes, Settled(t),
         NEW s \in {"CHARGED"} \cup CancellationStatuses, s \in BeyondApproval => Licensed(t),
         status' = [status EXCEPT ![t] = s],
         request' \in [Requests -> {"none", "PENDING", "CONFIRMED", "DISREGARDED"}],
         requestFor' \in [Requests -> Quotes \cup {None}],
         \A r \in Requests : requestFor[r] # None => requestFor'[r] = requestFor[r],
         approved \subseteq approved', approved' \subseteq approved \cup Requests, RequestsReady'
  PROVE  IInv'
<1>1. UNCHANGED <<original, current, successor>>
  BY DEF proposalVars
<1>2. Kept
  BY <1>1 DEF Kept
<1>3. s \in AnyStatus \ {"PENDING_EXCHANGE_APPROVAL", "EXCHANGE_DISAPPROVED", "deleted"}
  BY DEF AnyStatus, Linear, CancellationStatuses, BeyondApproval
<1>4. Shapes'
  BY <1>1, <1>3 DEF IInv, Shapes
<1>5. approved' \cap Quotes = approved \cap Quotes
  BY ChangesAssumption
<1>6. QuotesReady'
  BY <1>1, <1>2, <1>3, <1>5, SettledMoves
<1> QED
  BY <1>2, <1>4, <1>6, OneJobMoves

\* Only the quote's status moves.
LEMMA CancellationMoves ==
  ASSUME IInv, NEW p \in Procs, NEW label, NEW c, NEW wanted, NEW x,
         Job(p, label, c, wanted, x), JobReady(p)',
         UNCHANGED <<proposalVars, booking, requestVars, historyVars>>,
         NEW t \in Quotes, Settled(t),
         NEW s \in {"CHARGED"} \cup CancellationStatuses, s \in BeyondApproval => Licensed(t),
         status' = [status EXCEPT ![t] = s]
  PROVE  IInv'
<1>1. UNCHANGED <<request, requestFor, approved, told>>
  BY DEF requestVars, historyVars
<1>2. RequestsReady'
  BY <1>1 DEF IInv, RequestsReady, RequestReady, Settled
<1>3. /\ request \in [Requests -> {"none", "PENDING", "CONFIRMED", "DISREGARDED"}]
      /\ requestFor \in [Requests -> Quotes \cup {None}]
  BY DEF IInv, Shapes
<1> QED
  BY <1>1, <1>2, <1>3, CancellationWrite

\* A mail to somebody with a confirmed request changes only what was told.
LEMMA Told ==
  ASSUME IInv, NEW p \in Procs, End(p), UNCHANGED <<status, proposalVars, requestVars, approved>>,
         NEW x \in Quotes \cup Requests, told' = told \cup {x}, x \in Quotes => Licensed(x)
  PROVE  IInv'
<1>1. Job(p, "idle", None, "none", None) /\ JobReady(p)' /\ UNCHANGED booking
  BY EndJob
<1>2. UNCHANGED <<original, current, successor, request, requestFor>>
  BY DEF proposalVars, requestVars
<1>3. Kept
  BY <1>1, <1>2 DEF Kept
<1>4. Shapes' /\ RequestsReady'
  BY <1>1, <1>2 DEF IInv, Shapes, RequestsReady, RequestReady, Settled
<1>5. ASSUME NEW q \in Quotes PROVE QuoteReady(q)'
  <2>1. QuoteReady(q) /\ (Licensed(q) <=> Licensed(q)')
    BY <1>2 DEF IInv, QuotesReady, Licensed
  <2>2. q \in told' => q \in told \/ Licensed(q)
    BY <2>1
  <2> QED
    BY <1>1, <1>2, <2>1, <2>2 DEF QuoteReady, Settled
<1> QED
  BY <1>1, <1>3, <1>4, <1>5, OneJobMoves DEF QuotesReady

LEMMA ReviewOfRequestKeeps ==
  ASSUME IInv, NEW p \in Procs,
         RequestCancellation(p) \/ ConfirmCancellation(p) \/ DisregardCancellation(p)
  PROVE  IInv'
<1>0. JobReady(p) /\ Shapes
  BY DEF IInv, JobsReady
<1>1. /\ Job(p, "idle", None, "none", None) /\ JobReady(p)'
      /\ UNCHANGED <<proposalVars, booking, told>> /\ target[p] \in Quotes /\ Settled(target[p])
  BY <1>0, EndJob DEF RequestCancellation, ConfirmCancellation, DisregardCancellation, historyVars, JobReady
<1>2. \A r \in Requests : RequestReady(r)
  BY DEF IInv, RequestsReady
<1>3. CASE RequestCancellation(p)
  <2>1. PICK r \in Requests :
          /\ request[r] = "none"
          /\ request' = [request EXCEPT ![r] = "PENDING"]
          /\ requestFor' = [requestFor EXCEPT ![r] = target[p]]
    BY <1>3 DEF RequestCancellation
  <2>2. /\ status' = [status EXCEPT ![target[p]] = "PENDING_CANCELLATION_APPROVAL"]
        /\ approved' = approved
    BY <1>3 DEF RequestCancellation, historyVars
  <2>3. /\ request' \in [Requests -> {"none", "PENDING", "CONFIRMED", "DISREGARDED"}]
        /\ requestFor' \in [Requests -> Quotes \cup {None}]
    BY <1>0, <1>1, <2>1 DEF Shapes
  <2>4. requestFor[r] = None
    BY <1>2, <2>1 DEF RequestReady
  <2>5. \A o \in Requests : requestFor[o] # None => requestFor'[o] = requestFor[o]
    BY <1>0, <2>1, <2>4 DEF Shapes
  <2>6. ASSUME NEW o \in Requests PROVE RequestReady(o)'
    <3>1. CASE o = r
      <4>1. request'[o] = "PENDING" /\ requestFor'[o] = target[p] /\ target[p] # None
        BY <1>0, <1>1, <2>1, <3>1, QuoteAssumption DEF Shapes
      <4> QED
        BY <1>1, <2>2, <4>1 DEF RequestReady, Settled
    <3>2. CASE o # r
      <4>1. request'[o] = request[o] /\ requestFor'[o] = requestFor[o]
        BY <1>0, <2>1, <3>2 DEF Shapes
      <4> QED
        BY <1>2, <2>2, <4>1 DEF RequestReady, Settled
    <3> QED
      BY <3>1, <3>2
  <2>7. "PENDING_CANCELLATION_APPROVAL" \in CancellationStatuses \ BeyondApproval
    BY DEF CancellationStatuses, BeyondApproval
  <2> QED
    BY <1>1, <2>2, <2>3, <2>5, <2>6, <2>7, CancellationWrite DEF RequestsReady
<1>4. CASE ConfirmCancellation(p) \/ DisregardCancellation(p)
  <2>1. /\ about[p] \in Requests /\ requestFor[about[p]] = target[p] /\ requestFor' = requestFor
        /\ \/ /\ request' = [request EXCEPT ![about[p]] = "CONFIRMED"]
              /\ approved' = approved \cup {about[p]}
              /\ status' = [status EXCEPT ![target[p]] = "CANCELLATION_APPROVED"]
           \/ /\ request' = [request EXCEPT ![about[p]] = "DISREGARDED"]
              /\ approved' = approved
              /\ status' = [status EXCEPT ![target[p]] = "CHARGED"]
    BY <1>0, <1>4 DEF ConfirmCancellation, DisregardCancellation, historyVars, JobReady
  <2>2. request' \in [Requests -> {"none", "PENDING", "CONFIRMED", "DISREGARDED"}]
    BY <1>0, <2>1 DEF Shapes
  <2>3. requestFor \in [Requests -> Quotes \cup {None}]
    BY <1>0 DEF Shapes
  <2>4. target[p] # None
    BY <1>1, QuoteAssumption
  <2>5. ASSUME NEW o \in Requests PROVE RequestReady(o)'
    <3>1. CASE o = about[p]
      <4>1. /\ requestFor'[o] = target[p] /\ request'[o] \in {"CONFIRMED", "DISREGARDED"}
            /\ request'[o] = "CONFIRMED" => o \in approved'
        BY <1>0, <2>1, <3>1 DEF Shapes
      <4> QED
        BY <1>1, <2>1, <2>4, <4>1 DEF RequestReady, Settled
    <3>2. CASE o # about[p]
      <4>1. /\ request'[o] = request[o] /\ requestFor'[o] = requestFor[o]
            /\ o \in approved' <=> o \in approved
        BY <1>0, <2>1, <3>2 DEF Shapes
      <4>2. Settled(requestFor[o]) => Settled(requestFor[o])'
        BY <2>1 DEF Settled
      <4> QED
        BY <1>2, <2>1, <4>1, <4>2 DEF RequestReady, Settled
    <3> QED
      BY <3>1, <3>2
  <2>6. "CANCELLATION_APPROVED" \in CancellationStatuses \ BeyondApproval /\ "CHARGED" \notin BeyondApproval
    BY DEF CancellationStatuses, BeyondApproval
  <2>7. RequestsReady'
    BY <2>5 DEF RequestsReady
  <2> QED
    BY <1>1, <2>1, <2>2, <2>3, <2>6, <2>7, CancellationWrite
<1> QED
  BY <1>3, <1>4

LEMMA CancellationKeeps == ASSUME IInv, NEW p \in Procs, CancellationStep(p) PROVE IInv'
<1>0. JobReady(p) /\ JobShapes
  BY DEF IInv, JobsReady
<1>1. {"CANCELLATION_FORM_SENT", "CANCELLATION_SUBMITTED", "CANCELLATION_CONFIRMED"} \subseteq CancellationStatuses
  BY DEF CancellationStatuses, BeyondApproval
<1>2. CASE RequestCancellation(p) \/ ConfirmCancellation(p) \/ DisregardCancellation(p)
  BY <1>2, ReviewOfRequestKeeps
<1>3. CASE ClaimForm(p)
  <2>1. /\ target[p] \in Quotes /\ Settled(target[p]) /\ Licensed(target[p])
        /\ about[p] \in Requests /\ requestFor[about[p]] = target[p]
    BY <1>0, <1>3 DEF ClaimForm, JobReady
  <2>2. UNCHANGED <<proposalVars, booking, requestVars, historyVars>>
    BY <1>3 DEF ClaimForm, untouchedVars, bookingVars
  <2>3. Job(p, "mail_form", target[p], to[p], about[p])
    BY <1>0, <1>3, Moves DEF ClaimForm, Labels, Carrying
  <2>4. JobReady(p)'
    BY <2>1, <2>2, <2>3 DEF Job, JobReady, Carrying, Settled, Licensed, requestVars, historyVars
  <2> QED
    BY <1>1, <1>3, <2>1, <2>2, <2>3, <2>4, CancellationMoves DEF ClaimForm
<1>4. CASE MailForm(p)
  BY <1>0, <1>4, Told, ChangesAssumption DEF MailForm, JobReady
<1>5. CASE SubmitCancellation(p)
  <2>1. target[p] \in Quotes /\ Settled(target[p]) /\ Licensed(target[p])
    BY <1>0, <1>5 DEF SubmitCancellation, JobReady
  <2> QED
    BY <1>1, <1>5, <2>1, EndJob, CancellationMoves DEF SubmitCancellation
<1>6. CASE ClaimFinal(p)
  <2>1. /\ target[p] \in Quotes /\ Settled(target[p]) /\ status[target[p]] = "CANCELLATION_SUBMITTED"
        /\ pc[p] = "finalize"
    BY <1>0, <1>6 DEF ClaimFinal, JobReady
  <2>2. Licensed(target[p])
    BY <2>1 DEF IInv, QuotesReady, QuoteReady, BeyondApproval
  <2>3. UNCHANGED <<proposalVars, booking, requestVars, historyVars>>
    BY <1>6 DEF ClaimFinal, End, untouchedVars, bookingVars
  <2>4. CASE about[p] # None
    <3>1. Job(p, "mail_final", target[p], to[p], about[p])
      BY <1>0, <1>6, <2>4, Moves DEF ClaimFinal, Labels, Carrying
    <3>2. JobReady(p)'
      BY <2>1, <2>2, <2>3, <3>1 DEF Job, JobReady, Carrying, Settled, Licensed, requestVars, historyVars
    <3> QED
      BY <1>1, <1>6, <2>1, <2>2, <2>3, <3>1, <3>2, CancellationMoves DEF ClaimFinal
  <2>5. CASE about[p] = None
    BY <1>1, <1>6, <2>1, <2>2, <2>3, <2>5, EndJob, CancellationMoves DEF ClaimFinal
  <2> QED
    BY <2>4, <2>5
<1>7. CASE MailFinal(p)
  BY <1>0, <1>7, Told DEF MailFinal, JobReady
<1>8. CASE FinalFails(p)
  <2>1. Quiet /\ pc[p] = "mail_final"
    BY <1>8 DEF FinalFails, Quiet, untouchedVars, bookingVars
  <2>2. Job(p, "revert", target[p], to[p], about[p])
    BY <1>0, <1>8, Moves DEF FinalFails, Labels, Carrying
  <2>3. JobReady(p)'
    BY <1>0, <2>1, <2>2 DEF Job, JobReady, Carrying, Settled, Licensed, Quiet, requestVars, historyVars
  <2> QED
    BY <2>1, <2>2, <2>3, QuietStep
<1>9. CASE RevertFinal(p)
  <2>1. target[p] \in Quotes /\ Settled(target[p]) /\ Licensed(target[p])
    BY <1>0, <1>9 DEF RevertFinal, JobReady
  <2> QED
    BY <1>1, <1>9, <2>1, EndJob, CancellationMoves DEF RevertFinal
<1>10. CASE FormRefused(p) \/ FormFails(p) \/ FinalRefused(p)
  BY <1>10, Refused DEF FormRefused, FormFails, FinalRefused
<1> QED
  BY <1>2, <1>3, <1>4, <1>5, <1>6, <1>7, <1>8, <1>9, <1>10 DEF CancellationStep
-----------------------------------------------------------------------------
(* The invariant, and what follows from it *)

LEMMA IInvInit == ChangesInit => IInv
<1> SUFFICES ASSUME ChangesInit PROVE IInv
  OBVIOUS
<1>1. Shapes
  BY DEF ChangesInit, Shapes, AnyStatus, Linear, BookingStatuses
<1>2. JobShapes
  BY DEF ChangesInit, JobShapes, Labels, Wishes
<1>3. QuotesReady
  BY ChangesAssumption DEF ChangesInit, QuotesReady, QuoteReady, Settled, Linear, BeyondApproval
<1>4. RequestsReady
  BY DEF ChangesInit, RequestsReady, RequestReady
<1>5. JobsReady
  BY DEF ChangesInit, JobsReady, JobReady
<1> QED
  BY <1>1, <1>2, <1>3, <1>4, <1>5 DEF IInv

LEMMA IInvStep == IInv /\ [ChangesNext]_<<vars, changeVars>> => IInv'
<1> SUFFICES ASSUME IInv, [ChangesNext]_<<vars, changeVars>> PROVE IInv'
  OBVIOUS
<1>1. ASSUME NEW p \in Procs,
             ExchangeStep(p) \/ CancellationStep(p) \/ ChangeRequest(p) \/ OrdinaryStep(p) \/ Killed(p)
      PROVE  IInv'
  BY <1>1, ExchangeKeeps, CancellationKeeps, ClicksKeep, OrdinaryKeeps, KilledKeeps
<1>2. CASE UNCHANGED <<vars, changeVars>>
  BY <1>2
  DEF IInv, Shapes, JobShapes, QuotesReady, QuoteReady, RequestsReady, RequestReady, JobsReady, JobReady,
      Settled, Licensed, vars, changeVars, quoteVars, bookingVars, jobVars, proposalVars, requestVars,
      historyVars
<1> QED
  BY <1>1, <1>2 DEF ChangesNext

THEOREM IInvHolds == ChangesSpec => []IInv
BY IInvInit, IInvStep, PTL DEF ChangesSpec

\* Every column, and what every invocation holds, is of its type; exactly the
\* proposals not made yet are missing from the table, and nothing that does not
\* exist is approved.
THEOREM TypeCorrect == ChangesSpec => []TypeOK
<1>1. IInv => TypeOK
  <2> SUFFICES ASSUME IInv PROVE TypeOK
    OBVIOUS
  <2>1. AnyStatus \subseteq Linear \cup {"CANCELED", "deleted"} \cup ExchangeStatuses \cup CancellationStatuses
    BY DEF AnyStatus
  <2>2. ProposalTypes
    BY <2>1 DEF IInv, Shapes, QuotesReady, QuoteReady, ProposalTypes, Proposed
  <2>3. RequestTypes
    BY DEF IInv, Shapes, QuotesReady, QuoteReady, RequestsReady, RequestReady, RequestTypes, Proposed
  <2>4. AboutTypes
    BY DEF IInv, JobsReady, JobReady, JobShapes, AboutTypes, Proposed, Carrying
  <2> QED
    BY <2>2, <2>3, <2>4 DEF TypeOK
<1> QED
  BY <1>1, IInvHolds, PTL

\* No proposal is with its customer, signed or booked unless a reviewer approved
\* it, and none is both approved and refused, for any number of proposals and
\* invocations.
THEOREM OnlyApprovedReachCustomersHolds == ChangesSpec => []OnlyApprovedReachCustomers
<1>1. IInv => OnlyApprovedReachCustomers
  BY DEF IInv, QuotesReady, QuoteReady, Settled, OnlyApprovedReachCustomers, Proposed
<1> QED
  BY <1>1, IInvHolds, PTL

\* No cancellation reaches the form, the customer's answer or the final e-mail
\* unless a request for that quote was confirmed.
THEOREM NoUnapprovedCancellationHolds == ChangesSpec => []NoUnapprovedCancellation
<1>1. IInv => NoUnapprovedCancellation
  BY DEF IInv, QuotesReady, QuoteReady, Licensed, NoUnapprovedCancellation
<1> QED
  BY <1>1, IInvHolds, PTL

-----------------------------------------------------------------------------
(* One chain *)

LEMMA DisapprovedStays ==
  ASSUME IInv, NEW p \in Procs, UNCHANGED <<original, current, successor>>,
         \/ ExchangeStep(p) \/ CancellationStep(p) \/ ChangeRequest(p) \/ OrdinaryStep(p) \/ Killed(p),
         NEW q \in Quotes, status[q] = "EXCHANGE_DISAPPROVED", original[q] # None
  PROVE  status'[q] = "EXCHANGE_DISAPPROVED"
<1>0. JobReady(p) /\ QuoteReady(q) /\ status \in [Quotes -> AnyStatus]
  BY DEF IInv, JobsReady, QuotesReady, Shapes
<1>1. ~Settled(q)
  BY <1>0 DEF QuoteReady, Settled
<1>2. ASSUME NEW s, status' = [status EXCEPT ![target[p]] = s], pc[p] \notin {"idle", "review"}
      PROVE  status'[q] = status[q]
  BY <1>0, <1>1, <1>2 DEF JobReady
<1>3. CASE ExchangeStep(p)
  <2>1. CASE ProposeExchange(p) \/ ReviseExchange(p)
    <3>1. PICK n \in Quotes : Unused(n) /\ original' = [original EXCEPT ![n] = target[p]]
      BY <2>1 DEF ProposeExchange, ReviseExchange
    <3>2. target[p] \in Quotes
      BY <1>0, <2>1 DEF ProposeExchange, ReviseExchange, JobReady
    <3> QED
      BY <3>1, <3>2, QuoteAssumption DEF Unused, IInv, Shapes
  <2>2. CASE ApproveExchange(p)
    BY <1>0, <2>2 DEF ApproveExchange, Reviewable, JobReady
  <2>3. CASE DisapproveExchange(p)
    <3>1. Settled(original[target[p]]) /\ target[p] \in Quotes
      BY <1>0, <2>3 DEF DisapproveExchange, JobReady, IInv, QuotesReady, QuoteReady
    <3> QED
      BY <1>0, <1>1, <2>3, <3>1 DEF DisapproveExchange
  <2>4. CASE ExchangeRefused(p) \/ RevisionRefused(p) \/ ReviewRefused(p)
    BY <2>4 DEF ExchangeRefused, RevisionRefused, ReviewRefused, Refuse
  <2> QED
    BY <1>3, <2>1, <2>2, <2>3, <2>4 DEF ExchangeStep
<1>4. CASE CancellationStep(p)
  <2>1. \/ status' = status
        \/ pc[p] \notin {"idle", "review"} /\ \E s : status' = [status EXCEPT ![target[p]] = s]
    BY <1>4
    DEF CancellationStep, RequestCancellation, ConfirmCancellation, DisregardCancellation, ClaimForm,
        FormRefused, MailForm, FormFails, SubmitCancellation, ClaimFinal, FinalRefused, MailFinal,
        FinalFails, RevertFinal, Refuse
  <2> QED
    BY <1>2, <2>1
<1>5. CASE ChangeRequest(p)
  BY <1>5
  DEF ChangeRequest, StartExchange, StartRevision, StartReview, StartCancellation, CustomerConfirms,
      StartFinal, StartConfirmation, StartDisregard, StartForm, ResendForm, Begin
<1>6. CASE OrdinaryStep(p)
  <2>1. pc[p] # "discard"
    BY DEF IInv, JobShapes, Labels, Ordinary, Carrying
  <2>2. \/ status' = status
        \/ pc[p] \notin {"idle", "review"} /\ \E s : status' = [status EXCEPT ![target[p]] = s]
    <3>1. CASE Transition(p)
      BY <3>1 DEF Transition, ReadStatus, WriteStatus, QuoteVanished, quoteVars
    <3>2. CASE SendStep(p)
      BY <3>2
      DEF SendStep, ClaimSend, DuplicateSend, FreezeSnapshot, QuoteChangedWhileSending, MailQuote,
          MailFails, ReplyLost, ReleaseSend, ReadLead, AdvanceLead, quoteVars
    <3>3. CASE BookingStep(p)
      BY <2>1, <3>3
      DEF BookingStep, SignQuote, SigningRefused, LockBooking, BookingVanished, SaveTicketing,
          DeleteDraftQuote, quoteVars
    <3>4. CASE Request(p)
      BY <3>4
      DEF Request, CustomerOpens, CustomerViews, CancelQuote, StartSend, StartSign, StartDeleteDraft,
          StartTicketing, quoteVars
    <3> QED
      BY <1>6, <3>1, <3>2, <3>3, <3>4 DEF OrdinaryStep
  <2> QED
    BY <1>2, <2>2
<1>7. CASE Killed(p)
  BY <1>7 DEF Killed, Crash, quoteVars
<1> QED
  BY <1>3, <1>4, <1>5, <1>6, <1>7
\* A new proposal joins the chain: nothing points at a row not used yet.
LEMMA NobodyPointsAtUnused ==
  ASSUME IInv, ProposalsFormOneChain, NEW n \in Quotes, Unused(n)
  PROVE  /\ \A q \in Quotes : successor[q] # n
         /\ successor[n] = None /\ original[n] = None
<1>1. original[n] = None /\ successor[n] = None
  BY DEF Unused, IInv, QuotesReady, QuoteReady
<1>2. ASSUME NEW q \in Quotes PROVE successor[q] # n
  <2>1. successor[q] # None => original[q] # None
    BY DEF IInv, QuotesReady, QuoteReady
  <2>2. successor[q] # None => original[successor[q]] = original[q]
    BY <2>1 DEF ProposalsFormOneChain, Proposed
  <2> QED
    BY <1>1, <2>1, <2>2, QuoteAssumption
<1> QED
  BY <1>1, <1>2

LEMMA ProposeKeepsChain ==
  ASSUME IInv, ProposalsFormOneChain, NEW p \in Procs, ProposeExchange(p)
  PROVE  ProposalsFormOneChain'
<1> DEFINE root == target[p]
<1>1. root \in Quotes /\ Settled(root) /\ ~HasCurrent(root) /\ successor' = successor
  BY DEF ProposeExchange, IInv, JobsReady, JobReady
<1>2. PICK n \in Quotes :
        /\ Unused(n)
        /\ status' = [status EXCEPT ![n] = "PENDING_EXCHANGE_APPROVAL", ![root] = "EXCHANGED"]
        /\ original' = [original EXCEPT ![n] = root]
        /\ current' = [current EXCEPT ![n] = TRUE]
  BY DEF ProposeExchange
<1> HIDE DEF root
<1>3. /\ \A q \in Quotes : successor[q] # n
      /\ successor[n] = None /\ original[n] = None
  BY <1>2, NobodyPointsAtUnused
<1>4. /\ original'[n] = root /\ current'[n]
      /\ \A q \in Quotes \ {n} : original'[q] = original[q] /\ current'[q] = current[q]
  BY <1>2 DEF IInv, Shapes
<1>5. \A q \in Quotes \ {n} : status[q] = "EXCHANGE_DISAPPROVED" => status'[q] = status[q]
  <2>1. status[root] # "EXCHANGE_DISAPPROVED"
    BY <1>1 DEF IInv, QuotesReady, QuoteReady, Settled
  <2> QED
    BY <1>2, <2>1 DEF IInv, Shapes
<1>6. \A q \in Quotes : q \in Proposed' <=> q = n \/ q \in Proposed
  BY <1>1, <1>4, QuoteAssumption DEF Proposed
<1>7. Proposed \subseteq Quotes /\ Proposed' \subseteq Quotes /\ successor \in [Quotes -> Quotes \cup {None}]
  BY DEF Proposed, IInv, Shapes
<1>8. \A a, b \in Proposed' : original'[a] = original'[b] /\ current'[a] /\ current'[b] => a = b
  BY <1>1, <1>4, <1>6, <1>7 DEF ProposalsFormOneChain, HasCurrent
<1>9. \A q \in Proposed' : current'[q] \/ successor'[q] # None \/ status'[q] = "EXCHANGE_DISAPPROVED"
  BY <1>1, <1>4, <1>5, <1>6, <1>7 DEF ProposalsFormOneChain
<1>10. \A q \in Proposed' :
         successor'[q] # None =>
           ~current'[q] /\ original'[successor'[q]] = original'[q] /\ successor'[q] # q
  BY <1>1, <1>3, <1>4, <1>6, <1>7 DEF ProposalsFormOneChain
<1>11. \A a, b \in Proposed' : successor'[a] = successor'[b] /\ successor'[a] # None => a = b
  BY <1>1, <1>3, <1>6, <1>7 DEF ProposalsFormOneChain
<1> QED
  BY <1>8, <1>9, <1>10, <1>11 DEF ProposalsFormOneChain

LEMMA ReviseKeepsChain ==
  ASSUME IInv, ProposalsFormOneChain, NEW p \in Procs, ReviseExchange(p)
  PROVE  ProposalsFormOneChain'
<1> DEFINE old == about[p]
<1>1. old \in Quotes /\ original[old] # None /\ target[p] = original[old] /\ current[old]
  BY DEF ReviseExchange, Replaceable, IInv, JobsReady, JobReady
<1>2. PICK n \in Quotes :
        /\ Unused(n)
        /\ status' = [status EXCEPT ![n] = "PENDING_EXCHANGE_APPROVAL", ![old] = "EXCHANGE_SUPERSEDED"]
        /\ original' = [original EXCEPT ![n] = target[p]]
        /\ current' = [current EXCEPT ![n] = TRUE, ![old] = FALSE]
        /\ successor' = [successor EXCEPT ![old] = n]
  BY DEF ReviseExchange
<1> HIDE DEF old
<1>3. /\ \A q \in Quotes : successor[q] # n
      /\ successor[n] = None /\ original[n] = None /\ n # old
  BY <1>1, <1>2, NobodyPointsAtUnused
<1>4. /\ original'[n] = original[old] /\ original'[old] = original[old]
      /\ current'[n] /\ ~current'[old] /\ successor'[n] = None /\ successor'[old] = n
      /\ \A q \in Quotes \ {n, old} :
           /\ original'[q] = original[q] /\ current'[q] = current[q]
           /\ successor'[q] = successor[q] /\ status'[q] = status[q]
  BY <1>1, <1>2, <1>3 DEF IInv, Shapes
<1>5. \A q \in Quotes : q \in Proposed' <=> q = n \/ q \in Proposed
  BY <1>1, <1>4 DEF Proposed
<1>6. Proposed \subseteq Quotes /\ Proposed' \subseteq Quotes /\ old \in Proposed
      /\ successor \in [Quotes -> Quotes \cup {None}] /\ n # None
  BY <1>1, QuoteAssumption DEF Proposed, IInv, Shapes
<1>7. \A q \in Proposed : original[q] = original[old] /\ current[q] => q = old
  BY <1>1, <1>6 DEF ProposalsFormOneChain
<1>8. \A a, b \in Proposed' : original'[a] = original'[b] /\ current'[a] /\ current'[b] => a = b
  <2> SUFFICES ASSUME NEW a \in Proposed', NEW b \in Proposed', original'[a] = original'[b],
                      current'[a], current'[b]
               PROVE  a = b
    OBVIOUS
  <2>1. a # old /\ b # old
    BY <1>4
  <2>2. a = n => b = n
    BY <1>4, <1>5, <1>6, <1>7, <2>1
  <2>3. b = n => a = n
    BY <1>4, <1>5, <1>6, <1>7, <2>1
  <2>4. a # n /\ b # n => a = b
    BY <1>4, <1>5, <1>6, <2>1 DEF ProposalsFormOneChain
  <2> QED
    BY <2>2, <2>3, <2>4
<1>9. \A q \in Proposed' : current'[q] \/ successor'[q] # None \/ status'[q] = "EXCHANGE_DISAPPROVED"
  BY <1>4, <1>5, <1>6 DEF ProposalsFormOneChain
<1>10. \A q \in Proposed' :
         successor'[q] # None =>
           ~current'[q] /\ original'[successor'[q]] = original'[q] /\ successor'[q] # q
  <2> SUFFICES ASSUME NEW q \in Proposed', successor'[q] # None
               PROVE  ~current'[q] /\ original'[successor'[q]] = original'[q] /\ successor'[q] # q
    OBVIOUS
  <2>1. CASE q = old
    BY <1>3, <1>4, <2>1
  <2>2. CASE q # old
    <3>1. q # n /\ q \in Proposed /\ successor'[q] = successor[q] /\ q \in Quotes
      BY <1>4, <1>5, <1>6, <2>2
    <3>2. ~current[q] /\ original[successor[q]] = original[q] /\ successor[q] # q
      BY <3>1 DEF ProposalsFormOneChain
    <3>3. successor[q] \in Quotes /\ successor[q] # n
      BY <1>3, <1>6, <3>1
    <3> QED
      BY <1>4, <2>2, <3>1, <3>2, <3>3
  <2> QED
    BY <2>1, <2>2
<1>11. \A a, b \in Proposed' : successor'[a] = successor'[b] /\ successor'[a] # None => a = b
  <2> SUFFICES ASSUME NEW a \in Proposed', NEW b \in Proposed', successor'[a] = successor'[b],
                      successor'[a] # None
               PROVE  a = b
    OBVIOUS
  <2>1. a # n /\ b # n
    BY <1>4
  <2>2. a = old <=> b = old
    BY <1>3, <1>4, <1>5, <1>6, <2>1
  <2> QED
    BY <1>4, <1>5, <1>6, <2>1, <2>2 DEF ProposalsFormOneChain
<1> QED
  BY <1>8, <1>9, <1>10, <1>11 DEF ProposalsFormOneChain

LEMMA ChainStep ==
  ASSUME IInv, ProposalsFormOneChain, [ChangesNext]_<<vars, changeVars>>
  PROVE  ProposalsFormOneChain'
<1>1. ASSUME NEW p \in Procs, DisapproveExchange(p) PROVE ProposalsFormOneChain'
  <2>1. /\ target[p] \in Quotes
        /\ status' = [status EXCEPT ![target[p]] = "EXCHANGE_DISAPPROVED", ![original[target[p]]] = "CHARGED"]
        /\ current' = [current EXCEPT ![target[p]] = FALSE]
        /\ UNCHANGED <<original, successor>>
    BY <1>1 DEF DisapproveExchange, IInv, JobsReady, JobReady
  <2>2. Settled(original[target[p]]) /\ ~Settled(target[p])
    BY <1>1, <2>1 DEF DisapproveExchange, Reviewable, IInv, JobsReady, JobReady, QuotesReady, QuoteReady, Settled
  <2>3. status[original[target[p]]] # "EXCHANGE_DISAPPROVED" \/ original[target[p]] \notin Quotes
    BY <2>2 DEF IInv, QuotesReady, QuoteReady, Settled
  <2>4. /\ status'[target[p]] = "EXCHANGE_DISAPPROVED"
        /\ \A q \in Quotes : status[q] = "EXCHANGE_DISAPPROVED" => status'[q] = status[q]
        /\ ~current'[target[p]] /\ \A q \in Quotes \ {target[p]} : current'[q] = current[q]
    BY <2>1, <2>2, <2>3 DEF IInv, Shapes
  <2> QED
    BY <2>1, <2>4 DEF ProposalsFormOneChain, Proposed
<1>2. ASSUME NEW p \in Procs, UNCHANGED <<original, current, successor>>,
             ExchangeStep(p) \/ CancellationStep(p) \/ ChangeRequest(p) \/ OrdinaryStep(p) \/ Killed(p)
      PROVE  ProposalsFormOneChain'
  <2>1. \A q \in Proposed : status[q] = "EXCHANGE_DISAPPROVED" => status'[q] = status[q]
    BY <1>2, DisapprovedStays DEF Proposed
  <2> QED
    BY <1>2, <2>1 DEF ProposalsFormOneChain, Proposed
<1>3. ASSUME NEW p \in Procs, ExchangeStep(p) PROVE ProposalsFormOneChain'
  <2>1. CASE ApproveExchange(p) \/ ExchangeRefused(p) \/ RevisionRefused(p) \/ ReviewRefused(p)
    BY <1>2, <1>3, <2>1
    DEF ApproveExchange, ExchangeRefused, RevisionRefused, ReviewRefused, Refuse, proposalVars
  <2> QED
    BY <1>1, <1>3, <2>1, ProposeKeepsChain, ReviseKeepsChain DEF ExchangeStep
<1>4. ASSUME NEW p \in Procs, CancellationStep(p) \/ ChangeRequest(p) \/ OrdinaryStep(p) \/ Killed(p)
      PROVE  ProposalsFormOneChain'
  <2>1. UNCHANGED proposalVars
    <3>1. CASE CancellationStep(p)
      BY <3>1
      DEF CancellationStep, RequestCancellation, ConfirmCancellation, DisregardCancellation, ClaimForm,
          FormRefused, MailForm, FormFails, SubmitCancellation, ClaimFinal, FinalRefused, MailFinal,
          FinalFails, RevertFinal, Refuse
    <3>2. CASE ChangeRequest(p)
      BY <3>2
      DEF ChangeRequest, StartExchange, StartRevision, StartReview, StartCancellation, CustomerConfirms,
          StartFinal, StartConfirmation, StartDisregard, StartForm, ResendForm, Begin
    <3>3. CASE OrdinaryStep(p) \/ Killed(p)
      BY <3>3 DEF OrdinaryStep, Killed, changeVars
    <3> QED
      BY <1>4, <3>1, <3>2, <3>3
  <2> QED
    BY <1>2, <1>4, <2>1 DEF proposalVars
<1>5. CASE UNCHANGED <<vars, changeVars>>
  BY <1>5 DEF ProposalsFormOneChain, Proposed, vars, quoteVars, changeVars, proposalVars
<1> QED
  BY <1>3, <1>4, <1>5 DEF ChangesNext

\* The versions of every exchange form one chain, for any number of revisions,
\* reviews and first proposals submitted at once.
THEOREM ProposalsFormOneChainHolds == ChangesSpec => []ProposalsFormOneChain
<1>1. ChangesInit => ProposalsFormOneChain
  BY DEF ChangesInit, ProposalsFormOneChain, Proposed
<1>2. IInv /\ ProposalsFormOneChain /\ [ChangesNext]_<<vars, changeVars>> => ProposalsFormOneChain'
  BY ChainStep
<1> QED
  BY <1>1, <1>2, IInvHolds, PTL DEF ChangesSpec
=============================================================================

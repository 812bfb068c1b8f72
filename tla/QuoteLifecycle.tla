--------------------------- MODULE QuoteLifecycle ---------------------------
(***************************************************************************)
(* A quote from draft to charged: src/src/server/quote-status.ts and the   *)
(* handlers that drive it in actions/quotes.ts, booking.ts, bookings.ts.   *)
(*                                                                         *)
(* As in LeadQueue, p \in Procs is one invocation, and one action is one   *)
(* database statement, one committed transaction whose rows nobody else    *)
(* can touch, or one call of the mail service.  writeQuoteStatus reads the *)
(* quote and then writes it without a condition: two steps.                *)
(*                                                                         *)
(* Left out: gratuity, cards, passengers, the e-mails to staff, activity   *)
(* rows, notifications and who may call what.                              *)
(***************************************************************************)
EXTENDS Integers

CONSTANTS
  Quotes, Leads, Procs, None,
  LeadOf,       \* Quote.leadId
  SendWindow,   \* QUOTE_SEND_DEDUPE_WINDOW_MS
  MaxPrice,     \* bound on edits of a quote's pricing
  MaxTime,      \* bound on the clock
  EnvOps        \* what agents, customers and the platform do in an instance

ASSUME QuoteAssumption ==
  /\ None \notin Procs /\ None \notin Quotes
  /\ LeadOf \in [Quotes -> Leads]
  /\ SendWindow \in Nat /\ MaxPrice \in Nat /\ MaxTime \in Nat
  /\ EnvOps \subseteq {"send", "open", "view", "sign", "ticket", "cancel", "discard",
                       "delete", "mail_fails", "reply_lost", "release_fails", "crash"}

VARIABLES
  status,     \* Quote.status; "deleted" once the row is gone
  price,      \* version of the pricing inputs the booking is computed from
  snapshot,   \* version frozen in Quote.pricingSnapshot, NotYet when null
  claim,      \* QuoteSendClaim.claimedAt, NotYet when there is no row
  booking,    \* Booking.status, "none" without a booking
  charged,    \* version the booking's total was computed from
  signer,     \* invocation whose customer signed the booking
  recorded,   \* toStatus of the latest BookingStatusHistory row
  rowLock,    \* holder of the FOR UPDATE lock on the booking row
  lead,       \* Lead.status, as far as quotes and bookings move it
  now,
  mailed,     \* history: claim time of the quote's last e-mail to the customer
  pc, target, \* next statement of each invocation and the quote it is for
  to,         \* status it asks for
  seen,       \* price version it has read
  since,      \* time at which it claimed the send
  from        \* booking status it has read

quoteVars   == <<status, price, snapshot, claim>>
bookingVars == <<booking, charged, signer, recorded>>
jobVars     == <<pc, target, to, seen, since, from>>
vars == <<quoteVars, bookingVars, rowLock, lead, now, mailed, jobVars>>

NotYet == -1

Linear == {"DRAFT", "SENT", "READ", "VIEWED", "SIGNED", "BOOKED", "CHARGED"}
BookingStatuses == {"PENDING_TICKETING", "TICKETED", "CONFIRMED", "CANCELED"}

Rank(s) ==
  CASE s = "DRAFT" -> 0 [] s = "SENT" -> 1 [] s = "READ" -> 2 [] s = "VIEWED" -> 3
    [] s = "SIGNED" -> 4 [] s = "BOOKED" -> 5 [] s = "CHARGED" -> 6 [] OTHER -> -1

Sendable == {"DRAFT", "EXCHANGE_APPROVED", "SENT", "READ", "VIEWED"}
\* Defect: prices stay editable while the customer is deciding.
UnsignedEditable == {"DRAFT", "SENT", "READ", "VIEWED"}
PricingEditable == {"DRAFT"}
Bookable == {"SENT", "READ", "VIEWED"}
Cancelable == {"DRAFT", "SENT", "READ", "VIEWED", "SIGNED"}

BookingDrives == [s \in BookingStatuses |->
  CASE s = "TICKETED" -> "BOOKED" [] s = "CONFIRMED" -> "CHARGED" [] OTHER -> "none"]

Init ==
  /\ status = [q \in Quotes |-> "DRAFT"]
  /\ price = [q \in Quotes |-> 0]
  /\ snapshot = [q \in Quotes |-> NotYet]
  /\ claim = [q \in Quotes |-> NotYet]
  /\ booking = [q \in Quotes |-> "none"]
  /\ charged = [q \in Quotes |-> NotYet]
  /\ signer = [q \in Quotes |-> None]
  /\ recorded = [q \in Quotes |-> "none"]
  /\ rowLock = [q \in Quotes |-> None]
  /\ lead = [l \in Leads |-> "open"]
  /\ now = 0
  /\ mailed = [q \in Quotes |-> NotYet]
  /\ pc = [p \in Procs |-> "idle"]
  /\ target = [p \in Procs |-> None]
  /\ to = [p \in Procs |-> "none"]
  /\ seen = [p \in Procs |-> NotYet]
  /\ since = [p \in Procs |-> NotYet]
  /\ from = [p \in Procs |-> "none"]

Start(p, label, q, wanted) ==
  /\ pc[p] = "idle"
  /\ pc' = [pc EXCEPT ![p] = label]
  /\ target' = [target EXCEPT ![p] = q]
  /\ to' = [to EXCEPT ![p] = wanted]

Goto(p, label) == pc' = [pc EXCEPT ![p] = label]

Finish(p) ==
  /\ Goto(p, "idle")
  /\ target' = [target EXCEPT ![p] = None]
  /\ to' = [to EXCEPT ![p] = "none"]
  /\ seen' = [seen EXCEPT ![p] = NotYet]
  /\ since' = [since EXCEPT ![p] = NotYet]
  /\ from' = [from EXCEPT ![p] = "none"]

-----------------------------------------------------------------------------
(* writeQuoteStatus and its callers that ask for one status *)

\* Only forward, never out of CANCELED; CANCELED itself from anywhere.
Allowed(s, wanted) ==
  wanted = "CANCELED" \/ (s # "CANCELED" /\ Rank(wanted) > Rank(s))

\* trackQuoteView and trackViewDealClicked look at the status first.
CustomerOpens(p, q) ==
  /\ "open" \in EnvOps
  /\ status[q] = "SENT"
  /\ Start(p, "read", q, "READ")
  /\ UNCHANGED <<quoteVars, bookingVars, rowLock, lead, now, mailed, seen, since, from>>

CustomerViews(p, q) ==
  /\ "view" \in EnvOps
  /\ status[q] \in {"SENT", "READ"}
  /\ Start(p, "read", q, "VIEWED")
  /\ UNCHANGED <<quoteVars, bookingVars, rowLock, lead, now, mailed, seen, since, from>>

CancelQuote(p, q) ==
  /\ "cancel" \in EnvOps
  /\ status[q] \in Cancelable
  /\ Start(p, "read", q, "CANCELED")
  /\ UNCHANGED <<quoteVars, bookingVars, rowLock, lead, now, mailed, seen, since, from>>

\* sendQuote goes on after its transition, the others are done.
AfterTransition(p) ==
  IF to[p] = "SENT"
  THEN Goto(p, "lead") /\ UNCHANGED <<target, to, seen, since, from>>
  ELSE Finish(p)

ReadStatus(p) ==
  LET s == status[target[p]] IN
  /\ pc[p] = "read"
  /\ s # "deleted"
  /\ IF Allowed(s, to[p])
     THEN Goto(p, "write") /\ UNCHANGED <<target, to, seen, since, from>>
     ELSE AfterTransition(p)
  /\ UNCHANGED <<quoteVars, bookingVars, rowLock, lead, now, mailed>>

\* The update names the quote by its id only.
WriteStatus(p) ==
  /\ pc[p] = "write"
  /\ status[target[p]] # "deleted"
  /\ status' = [status EXCEPT ![target[p]] = to[p]]
  /\ AfterTransition(p)
  /\ UNCHANGED <<price, snapshot, claim, bookingVars, rowLock, lead, now, mailed>>

\* findUniqueOrThrow, or an update of no row: the handler gives up.
QuoteVanished(p) ==
  /\ pc[p] \in {"read", "write", "freeze", "sign", "discard"}
  /\ status[target[p]] = "deleted"
  /\ Finish(p)
  /\ UNCHANGED <<quoteVars, bookingVars, rowLock, lead, now, mailed>>

-----------------------------------------------------------------------------
(* updateQuotePricing, sendQuote *)

\* One conditional UPDATE.
UpdateQuotePricing(q) ==
  /\ status[q] \in PricingEditable
  /\ price[q] < MaxPrice
  /\ price' = [price EXCEPT ![q] = @ + 1]
  /\ UNCHANGED <<status, snapshot, claim, bookingVars, rowLock, lead, now, mailed, jobVars>>

StartSend(p, q) ==
  /\ "send" \in EnvOps
  /\ status[q] \in Sendable
  /\ Start(p, "claim", q, "SENT")
  /\ seen' = [seen EXCEPT ![p] = price[q]]
  /\ UNCHANGED <<quoteVars, bookingVars, rowLock, lead, now, mailed, since, from>>

\* claimQuoteSend: insert the row, or renew one older than the window, each in
\* one statement; a row is kept per address, and the model sends to one.
Claimable(q) == claim[q] = NotYet \/ claim[q] < now - SendWindow

ClaimSend(p) ==
  LET q == target[p] IN
  /\ pc[p] = "claim"
  /\ status[q] # "deleted"
  /\ Claimable(q)
  /\ claim' = [claim EXCEPT ![q] = now]
  /\ since' = [since EXCEPT ![p] = now]
  /\ Goto(p, "freeze")
  /\ UNCHANGED <<status, price, snapshot, bookingVars, rowLock, lead, now, mailed, target, to, seen, from>>

DuplicateSend(p) ==
  /\ pc[p] = "claim"
  /\ status[target[p]] = "deleted" \/ ~Claimable(target[p])
  /\ Finish(p)
  /\ UNCHANGED <<quoteVars, bookingVars, rowLock, lead, now, mailed>>

\* The snapshot is written only if status and pricing are still as they were
\* read; otherwise nothing is sent.
Freezable(p) ==
  /\ status[target[p]] \in Sendable
  /\ price[target[p]] = seen[p]

FreezeSnapshot(p) ==
  /\ pc[p] = "freeze"
  /\ Freezable(p)
  /\ snapshot' = [snapshot EXCEPT ![target[p]] = seen[p]]
  /\ Goto(p, "mail")
  /\ UNCHANGED <<status, price, claim, bookingVars, rowLock, lead, now, mailed, target, to, seen, since, from>>

\* Defect: the early return leaves the claim behind.
GivesUpSilently(p) ==
  /\ pc[p] = "freeze"
  /\ status[target[p]] # "deleted"
  /\ ~Freezable(p)
  /\ Finish(p)
  /\ UNCHANGED <<quoteVars, bookingVars, rowLock, lead, now, mailed>>

QuoteChangedWhileSending(p) ==
  /\ pc[p] = "freeze"
  /\ status[target[p]] # "deleted"
  /\ ~Freezable(p)
  /\ Goto(p, "release")
  /\ UNCHANGED <<quoteVars, bookingVars, rowLock, lead, now, mailed, target, to, seen, since, from>>

\* Defect: the status is moved before the mail is known to have gone out.
MarkedBeforeMail(p) ==
  /\ pc[p] = "mail"
  /\ Goto(p, "read")
  /\ UNCHANGED <<quoteVars, bookingVars, rowLock, lead, now, mailed, target, to, seen, since, from>>

MailQuote(p) ==
  /\ pc[p] = "mail"
  /\ mailed' = [mailed EXCEPT ![target[p]] = since[p]]
  /\ Goto(p, "read")
  /\ UNCHANGED <<quoteVars, bookingVars, rowLock, lead, now, target, to, seen, since, from>>

MailFails(p) ==
  /\ "mail_fails" \in EnvOps
  /\ pc[p] = "mail"
  /\ Goto(p, "release")
  /\ UNCHANGED <<quoteVars, bookingVars, rowLock, lead, now, mailed, target, to, seen, since, from>>

\* The service took the mail, its answer got lost: to the code, a failure.
ReplyLost(p) ==
  /\ "reply_lost" \in EnvOps
  /\ pc[p] = "mail"
  /\ mailed' = [mailed EXCEPT ![target[p]] = since[p]]
  /\ Goto(p, "release")
  /\ UNCHANGED <<quoteVars, bookingVars, rowLock, lead, now, target, to, seen, since, from>>

\* releaseQuoteSend deletes the row, whoever wrote it last.
ReleaseSend(p) ==
  /\ pc[p] = "release"
  /\ claim' = [claim EXCEPT ![target[p]] = NotYet]
  /\ Finish(p)
  /\ UNCHANGED <<status, price, snapshot, bookingVars, rowLock, lead, now, mailed>>

\* Its failure is swallowed: the row stays, for the window.
ReleaseFails(p) ==
  /\ "release_fails" \in EnvOps
  /\ pc[p] = "release"
  /\ Finish(p)
  /\ UNCHANGED <<quoteVars, bookingVars, rowLock, lead, now, mailed>>

\* The best-effort advance of the lead: a read, then an unconditional write.
ReadLead(p) ==
  /\ pc[p] = "lead"
  /\ IF lead[LeadOf[target[p]]] \notin {"quoted", "booked"}
     THEN Goto(p, "quoted") /\ UNCHANGED <<target, to, seen, since, from>>
     ELSE Finish(p)
  /\ UNCHANGED <<quoteVars, bookingVars, rowLock, lead, now, mailed>>

AdvanceLead(p) ==
  /\ pc[p] = "quoted"
  /\ lead' = [lead EXCEPT ![LeadOf[target[p]]] = "quoted"]
  /\ Finish(p)
  /\ UNCHANGED <<quoteVars, bookingVars, rowLock, now, mailed>>

-----------------------------------------------------------------------------
(* submitBooking *)

StartSign(p, q) ==
  /\ "sign" \in EnvOps
  /\ booking[q] = "none"
  /\ status[q] \in Bookable
  /\ Start(p, "sign", q, "SIGNED")
  /\ seen' = [seen EXCEPT ![p] = price[q]]
  /\ UNCHANGED <<quoteVars, bookingVars, rowLock, lead, now, mailed, since, from>>

\* Defect: no unique index on Booking.quoteId behind the claim.
ClaimedStatusOnly(q) == status[q] \in Bookable

\* The conditional claim of the quote, and Booking.quoteId @unique behind it.
Signable(q) == status[q] \in Bookable /\ booking[q] = "none"

SignQuote(p) ==
  LET q == target[p] IN
  /\ pc[p] = "sign"
  /\ Signable(q)
  /\ status' = [status EXCEPT ![q] = "SIGNED"]
  /\ booking' = [booking EXCEPT ![q] = "PENDING_TICKETING"]
  /\ charged' = [charged EXCEPT ![q] = seen[p]]
  /\ signer' = [signer EXCEPT ![q] = p]
  /\ recorded' = [recorded EXCEPT ![q] = "PENDING_TICKETING"]
  /\ lead' = [lead EXCEPT ![LeadOf[q]] = "booked"]
  /\ Finish(p)
  /\ UNCHANGED <<price, snapshot, claim, rowLock, now, mailed>>

\* The transaction rolls back; a replay by the same signer reads the booking.
SigningRefused(p) ==
  /\ pc[p] = "sign"
  /\ status[target[p]] # "deleted"
  /\ ~Signable(target[p])
  /\ Finish(p)
  /\ UNCHANGED <<quoteVars, bookingVars, rowLock, lead, now, mailed>>

-----------------------------------------------------------------------------
(* updateBookingTicketing with reconcileQuoteStatus *)

StartTicketing(p, q, s) ==
  /\ "ticket" \in EnvOps
  /\ booking[q] # "none"
  /\ Start(p, "ticket", q, s)
  /\ from' = [from EXCEPT ![p] = booking[q]]
  /\ UNCHANGED <<quoteVars, bookingVars, rowLock, lead, now, mailed, seen, since>>

BookingVanished(p) ==
  /\ pc[p] = "ticket"
  /\ booking[target[p]] = "none"
  /\ Finish(p)
  /\ UNCHANGED <<quoteVars, bookingVars, rowLock, lead, now, mailed>>

\* SELECT ... FOR UPDATE on the booking, then writeQuoteStatus's read of the
\* quote: `reconcile` will move the quote, `save` will not.
LockBooking(p) ==
  LET q == target[p]
      wanted == BookingDrives[to[p]]
  IN
  /\ pc[p] = "ticket"
  /\ booking[q] # "none"
  /\ rowLock[q] = None
  /\ rowLock' = [rowLock EXCEPT ![q] = p]
  /\ Goto(p, IF to[p] # from[p] /\ wanted # "none" /\ Allowed(status[q], wanted)
             THEN "reconcile" ELSE "save")
  /\ UNCHANGED <<quoteVars, bookingVars, lead, now, mailed, target, to, seen, since, from>>

\* Defect: the quote is not brought along.
SaveBookingOnly(p) ==
  LET q == target[p] IN
  /\ pc[p] \in {"reconcile", "save"}
  /\ booking' = [booking EXCEPT ![q] = to[p]]
  /\ recorded' = [recorded EXCEPT ![q] = IF to[p] # from[p] THEN to[p] ELSE @]
  /\ rowLock' = [rowLock EXCEPT ![q] = None]
  /\ Finish(p)
  /\ UNCHANGED <<quoteVars, charged, signer, lead, now, mailed>>

\* Commit: booking, history row (only if the status differs from the one read
\* before the transaction) and quote.
SaveTicketing(p) ==
  LET q == target[p] IN
  /\ pc[p] \in {"reconcile", "save"}
  /\ booking' = [booking EXCEPT ![q] = to[p]]
  /\ recorded' = [recorded EXCEPT ![q] = IF to[p] # from[p] THEN to[p] ELSE @]
  /\ status' = [status EXCEPT ![q] = IF pc[p] = "reconcile" THEN BookingDrives[to[p]] ELSE @]
  /\ rowLock' = [rowLock EXCEPT ![q] = None]
  /\ Finish(p)
  /\ UNCHANGED <<price, snapshot, claim, charged, signer, lead, now, mailed>>

-----------------------------------------------------------------------------
(* Deleting; the platform *)

\* A quote's booking and send claims go with it (onDelete: Cascade).
RemoveQuote(q) ==
  /\ rowLock[q] = None
  /\ status' = [status EXCEPT ![q] = "deleted"]
  /\ claim' = [claim EXCEPT ![q] = NotYet]
  /\ booking' = [booking EXCEPT ![q] = "none"]
  /\ charged' = [charged EXCEPT ![q] = NotYet]
  /\ signer' = [signer EXCEPT ![q] = None]
  /\ recorded' = [recorded EXCEPT ![q] = "none"]

StartDeleteDraft(p, q) ==
  /\ "discard" \in EnvOps
  /\ status[q] = "DRAFT"
  /\ Start(p, "discard", q, "none")
  /\ UNCHANGED <<quoteVars, bookingVars, rowLock, lead, now, mailed, seen, since, from>>

DeleteDraftQuote(p) ==
  /\ pc[p] = "discard"
  /\ status[target[p]] # "deleted"
  /\ RemoveQuote(target[p])
  /\ Finish(p)
  /\ UNCHANGED <<price, snapshot, rowLock, lead, now, mailed>>

\* deleteQuote and deleteBooking, administrators only, any status.
DeleteQuote(q) ==
  /\ "delete" \in EnvOps
  /\ status[q] # "deleted"
  /\ RemoveQuote(q)
  /\ UNCHANGED <<price, snapshot, rowLock, lead, now, mailed, jobVars>>

DeleteBooking(q) ==
  /\ "delete" \in EnvOps
  /\ booking[q] # "none"
  /\ rowLock[q] = None
  /\ booking' = [booking EXCEPT ![q] = "none"]
  /\ charged' = [charged EXCEPT ![q] = NotYet]
  /\ signer' = [signer EXCEPT ![q] = None]
  /\ recorded' = [recorded EXCEPT ![q] = "none"]
  /\ UNCHANGED <<quoteVars, rowLock, lead, now, mailed, jobVars>>

Crash(p) ==
  /\ "crash" \in EnvOps
  /\ pc[p] # "idle"
  /\ rowLock' = [q \in Quotes |-> IF rowLock[q] = p THEN None ELSE rowLock[q]]
  /\ Finish(p)
  /\ UNCHANGED <<quoteVars, bookingVars, lead, now, mailed>>

Tick ==
  /\ now < MaxTime
  /\ now' = now + 1
  /\ UNCHANGED <<quoteVars, bookingVars, rowLock, lead, mailed, jobVars>>

-----------------------------------------------------------------------------
Transition(p) == ReadStatus(p) \/ WriteStatus(p) \/ QuoteVanished(p)

SendStep(p) ==
  \/ ClaimSend(p) \/ DuplicateSend(p)
  \/ FreezeSnapshot(p) \/ QuoteChangedWhileSending(p)
  \/ MailQuote(p) \/ MailFails(p) \/ ReplyLost(p) \/ ReleaseSend(p)
  \/ ReadLead(p) \/ AdvanceLead(p)

BookingStep(p) ==
  \/ SignQuote(p) \/ SigningRefused(p)
  \/ LockBooking(p) \/ BookingVanished(p) \/ SaveTicketing(p)
  \/ DeleteDraftQuote(p)

Failure(p) == Crash(p) \/ ReleaseFails(p)

Request(p) ==
  \E q \in Quotes :
    \/ CustomerOpens(p, q) \/ CustomerViews(p, q) \/ CancelQuote(p, q)
    \/ StartSend(p, q) \/ StartSign(p, q) \/ StartDeleteDraft(p, q)
    \/ \E s \in BookingStatuses : StartTicketing(p, q, s)

Direct == \E q \in Quotes : UpdateQuotePricing(q) \/ DeleteQuote(q) \/ DeleteBooking(q)

Next ==
  \/ \E p \in Procs : Transition(p) \/ SendStep(p) \/ BookingStep(p) \/ Request(p) \/ Failure(p)
  \/ Direct
  \/ Tick

Spec == Init /\ [][Next]_vars
=============================================================================

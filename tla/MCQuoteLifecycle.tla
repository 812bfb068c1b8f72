-------------------------- MODULE MCQuoteLifecycle --------------------------
(***************************************************************************)
(* What a quote's way from draft to charged must keep: the type invariant, *)
(* the safety and liveness properties, and what the code's comments say of *)
(* it.  Its instances for TLC are quotes of one lead.                      *)
(***************************************************************************)
EXTENDS QuoteLifecycle, TLC

Statuses == Linear \cup {"CANCELED", "deleted"}
Optional(S) == S \cup {NotYet}
Labels == {"idle", "read", "write", "claim", "freeze", "mail", "release", "lead", "quoted",
           "sign", "ticket", "reconcile", "save", "discard"}

QuoteTypes ==
  /\ status \in [Quotes -> Statuses]
  /\ price \in [Quotes -> 0..MaxPrice]
  /\ snapshot \in [Quotes -> Optional(0..MaxPrice)]
  /\ claim \in [Quotes -> Optional(0..MaxTime)]
  /\ mailed \in [Quotes -> Optional(0..MaxTime)]
  /\ now \in 0..MaxTime
  /\ lead \in [Leads -> {"open", "quoted", "booked"}]

\* A booking has its total and its signer from the start; none outlives its quote.
BookingTypes ==
  /\ booking \in [Quotes -> BookingStatuses \cup {"none"}]
  /\ charged \in [Quotes -> Optional(0..MaxPrice)]
  /\ signer \in [Quotes -> Procs \cup {None}]
  /\ recorded \in [Quotes -> BookingStatuses \cup {"none"}]
  /\ \A q \in Quotes :
       /\ (booking[q] = "none") <=> (charged[q] = NotYet)
       /\ (booking[q] = "none") <=> (signer[q] = None)
       /\ status[q] = "deleted" => booking[q] = "none"

JobShapes ==
  /\ pc \in [Procs -> Labels]
  /\ target \in [Procs -> Quotes \cup {None}]
  /\ to \in [Procs -> Linear \cup BookingStatuses \cup {"none"}]
  /\ seen \in [Procs -> Optional(0..MaxPrice)]
  /\ since \in [Procs -> Optional(0..MaxTime)]
  /\ from \in [Procs -> BookingStatuses \cup {"none"}]

\* What an invocation knows at its next statement.
JobReady(p) ==
  /\ (pc[p] = "idle") <=> (target[p] = None)
  /\ pc[p] \in {"claim", "freeze", "mail", "release", "lead", "quoted"} => to[p] = "SENT"
  /\ pc[p] \in {"read", "write"} => to[p] \in {"SENT", "READ", "VIEWED", "CANCELED"}
  /\ pc[p] \in {"ticket", "reconcile", "save"} => to[p] \in BookingStatuses
  /\ pc[p] = "reconcile" => BookingDrives[to[p]] # "none"
  /\ pc[p] \in {"claim", "freeze", "mail", "sign"} => seen[p] # NotYet
  /\ pc[p] \in {"freeze", "mail"} => since[p] # NotYet

JobTypes == JobShapes /\ \A p \in Procs : JobReady(p)

\* The booking row is locked exactly by the transaction that is saving it.
LockTypes ==
  /\ rowLock \in [Quotes -> Procs \cup {None}]
  /\ \A q \in Quotes, p \in Procs :
       rowLock[q] = p <=> pc[p] \in {"reconcile", "save"} /\ target[p] = q
  /\ \A q \in Quotes : rowLock[q] # None => booking[q] # "none"

TypeOK == QuoteTypes /\ BookingTypes /\ JobTypes /\ LockTypes

-----------------------------------------------------------------------------
(* Promises that hold *)

InCustomersHands(q) == status[q] \in Linear \ {"DRAFT"}

\* No quote reaches the customer's side of the ladder, let alone a signature,
\* before its e-mail went out with a frozen price: sendQuote mails first and
\* moves the status after, whatever else happens to the quote meanwhile.
NothingUnsentIsSigned ==
  \A q \in Quotes :
    InCustomersHands(q) \/ booking[q] # "none" => mailed[q] # NotYet /\ snapshot[q] # NotYet

\* The total of a booking is that of the quote's stored pricing, though
\* submitBooking computes it from a read long before its transaction.
ChargedIsPriced ==
  \A q \in Quotes : booking[q] # "none" => charged[q] = price[q]

\* Who signed a booking never changes while it exists: even when a late READ
\* has made a signed quote bookable again, submitBooking makes no second one.
SignedOnce ==
  [][\A q \in Quotes : signer[q] # None => signer'[q] \in {signer[q], None}]_vars

-----------------------------------------------------------------------------
(* Instances for TLC, with the history two of the promises speak of *)

CONSTANTS q1, l1, p1, p2, p3,
          Parts     \* those of the parts named below that a run looks at

OneLead == [q \in Quotes |-> l1]
ProcSymmetry == Permutations({p1, p2, p3})

VARIABLES
  part,
  slipped,    \* quotes whose status was once written backward
  abandoned   \* quotes whose send claim was left by a death or a failed release

Forward(q) ==
  status'[q] # status[q] =>
    \/ status'[q] \in {"CANCELED", "deleted"}
    \/ status[q] # "CANCELED" /\ Rank(status'[q]) > Rank(status[q])

\* Sending and signing, by everybody at once.
Signing ==
  \/ \E p \in Procs :
       \/ Transition(p) \/ SendStep(p) \/ BookingStep(p)
       \/ Request(p) /\ pc'[p] # "ticket"
  \/ \E q \in Quotes : UpdateQuotePricing(q)
  \/ Tick

\* Ticketing and deletion beside them: two invocations at a time, of which only a
\* ticketing transaction dies; the price stays and every mail is taken.
Ticketing ==
  /\ \/ \E p \in Procs : Transition(p) \/ SendStep(p) \/ BookingStep(p) \/ Request(p)
     \/ \E q \in Quotes : DeleteQuote(q) \/ DeleteBooking(q)
     \/ Tick
  /\ \E p \in Procs : pc'[p] = "idle"
  /\ \A p \in Procs : pc[p] = "mail" => pc'[p] # "release"

Fails(p) == Failure(p) /\ (part = "ticketing" => pc[p] \in {"reconcile", "save"})

CaseInit == part \in Parts /\ Init /\ slipped = {} /\ abandoned = {}

\* A claim that is placed or renewed is in somebody's hands again.
CaseNext ==
  /\ \/ /\ IF part = "signing" THEN Signing ELSE Ticketing
        /\ abandoned' = {q \in abandoned : claim'[q] = claim[q]}
     \/ \E p \in Procs :
          /\ Fails(p)
          /\ abandoned' = IF pc[p] \in {"freeze", "mail", "release"}
                          THEN abandoned \cup {target[p]} ELSE abandoned
  /\ slipped' = slipped \cup {q \in Quotes : ~Forward(q)}
  /\ UNCHANGED part

CaseSpec == CaseInit /\ [][CaseNext]_<<vars, part, slipped, abandoned>>

\* A booking that is TICKETED or CONFIRMED has its quote at BOOKED or CHARGED at
\* least, or canceled (updateBookingTicketing and reconcileQuoteStatus commit
\* together), however saves, cancellations and sends cross: only a status that
\* writeQuoteStatus once wrote backward leaves a quote behind its booking.
QuoteFollowsBooking ==
  \A q \in Quotes :
    booking[q] \in {"TICKETED", "CONFIRMED"} =>
      \/ status[q] = "CANCELED"
      \/ Rank(status[q]) >= Rank(BookingDrives[booking[q]])
      \/ q \in slipped

\* A claim does not outlive a send that mailed nothing: while one is held for no
\* mail, an invocation is still at work that will mail or give it back (every
\* early return and failure of sendQuote, quotes.ts 414-419, 481-491), or one
\* died on the way or could not delete the row, and the window has to run out.
FailedSendIsReleased ==
  \A q \in Quotes : claim[q] # NotYet =>
    \/ mailed[q] # NotYet
    \/ q \in abandoned
    \/ \E p \in Procs : target[p] = q /\ pc[p] \in {"freeze", "mail", "release"}

-----------------------------------------------------------------------------
(* What the comments say, and the code does not do *)

\* "Refuses to move a quote backward along the linear DRAFT..CHARGED
\* progression", "Once CANCELED, nothing auto-transitions it back"
\* (quote-status.ts on writeQuoteStatus).
StatusNeverGoesBack == [][\A q \in Quotes : Forward(q)]_vars

\* Editing a price the customer has seen "would silently charge a different
\* amount" (quote-send-rules.ts): what is booked is what the snapshot froze.
ChargedAsShown ==
  \A q \in Quotes : booking[q] # "none" => charged[q] = snapshot[q]

=============================================================================

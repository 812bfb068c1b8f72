----------------------- MODULE QuoteLifecycle_proofs -----------------------
(* Theorems about the quote lifecycle, for any sets of quotes, leads and   *)
(* concurrent invocations, any window and any bounds.                      *)
EXTENDS MCQuoteLifecycle, TLAPS

LEMMA TypeInit == Init => TypeOK
BY QuoteAssumption
DEF Init, TypeOK, QuoteTypes, BookingTypes, JobTypes, JobShapes, JobReady, LockTypes, Statuses, Linear,
    BookingStatuses, Optional, Labels, NotYet

-----------------------------------------------------------------------------
(* What the shared pieces of the actions do to the types. *)

InTransaction == {"reconcile", "save"}

LEMMA UnchangedTypes ==
  ASSUME TypeOK
  PROVE  /\ UNCHANGED <<quoteVars, mailed, now, lead>> => QuoteTypes'
         /\ UNCHANGED <<bookingVars, status>> => BookingTypes'
         /\ UNCHANGED jobVars => JobTypes'
         /\ UNCHANGED <<rowLock, booking, jobVars>> => LockTypes'
BY DEF TypeOK, QuoteTypes, BookingTypes, JobTypes, JobShapes, JobReady, LockTypes,
       quoteVars, bookingVars, jobVars

\* An action disturbs the local variables of its own invocation only.
OthersKeepTheirs(p) ==
  \A o \in Procs \ {p} :
    /\ pc'[o] = pc[o] /\ target'[o] = target[o] /\ to'[o] = to[o]
    /\ seen'[o] = seen[o] /\ since'[o] = since[o]

LEMMA JobFrame ==
  ASSUME TypeOK, NEW p \in Procs, OthersKeepTheirs(p), JobShapes', JobReady(p)'
  PROVE  JobTypes'
<1> SUFFICES ASSUME NEW o \in Procs PROVE JobReady(o)'
  BY DEF JobTypes
<1>1. CASE o = p
  BY <1>1
<1>2. CASE o # p
  BY <1>2 DEF TypeOK, JobTypes, JobReady, OthersKeepTheirs
<1> QED
  BY <1>1, <1>2

\* Outside the saving transaction a job moves without touching a row lock.
LEMMA LockFrame ==
  ASSUME TypeOK, NEW p \in Procs, pc[p] \notin InTransaction, pc'[p] \notin InTransaction,
         OthersKeepTheirs(p), UNCHANGED <<rowLock, booking>>
  PROVE  LockTypes'
BY DEF TypeOK, LockTypes, OthersKeepTheirs, InTransaction

LEMMA StartKeeps ==
  ASSUME TypeOK, NEW p \in Procs, NEW q \in Quotes, NEW label \in Labels \ {"idle"},
         NEW wanted \in Linear \cup BookingStatuses \cup {"none"}, Start(p, label, q, wanted)
  PROVE  /\ pc' \in [Procs -> Labels] /\ target' \in [Procs -> Quotes \cup {None}]
         /\ to' \in [Procs -> Linear \cup BookingStatuses \cup {"none"}]
         /\ pc[p] = "idle" /\ pc'[p] = label /\ target'[p] = q /\ to'[p] = wanted
         /\ UNCHANGED <<seen, since>> => OthersKeepTheirs(p)
BY DEF TypeOK, JobTypes, JobShapes, Start, OthersKeepTheirs

LEMMA GotoTypes ==
  ASSUME TypeOK, NEW p \in Procs, NEW label \in Labels, Goto(p, label),
         UNCHANGED <<target, to, seen, since, from>>, JobReady(p)'
  PROVE  JobTypes' /\ OthersKeepTheirs(p) /\ pc'[p] = label
<1>1. OthersKeepTheirs(p) /\ JobShapes' /\ pc'[p] = label
  BY DEF TypeOK, JobTypes, JobShapes, Goto, OthersKeepTheirs
<1> QED
  BY <1>1, JobFrame

LEMMA FinishTypes ==
  ASSUME TypeOK, NEW p \in Procs, Finish(p)
  PROVE  /\ JobTypes' /\ OthersKeepTheirs(p) /\ pc'[p] = "idle"
         /\ pc[p] \notin InTransaction /\ UNCHANGED <<rowLock, booking>> => LockTypes'
<1>1. /\ pc' = [pc EXCEPT ![p] = "idle"] /\ target' = [target EXCEPT ![p] = None]
      /\ to' = [to EXCEPT ![p] = "none"] /\ seen' = [seen EXCEPT ![p] = NotYet]
      /\ since' = [since EXCEPT ![p] = NotYet] /\ from' = [from EXCEPT ![p] = "none"]
  BY DEF Finish, Goto
<1>2. JobShapes /\ "idle" \in Labels /\ NotYet \in Optional(0..MaxPrice) \cap Optional(0..MaxTime)
  BY DEF TypeOK, JobTypes, Labels, Optional
<1>3. JobShapes' /\ OthersKeepTheirs(p)
  BY <1>1, <1>2 DEF JobShapes, OthersKeepTheirs
<1>4. pc'[p] = "idle" /\ target'[p] = None
  BY <1>1, <1>2 DEF JobShapes
<1>5. JobTypes'
  BY <1>3, <1>4, JobFrame DEF JobReady
<1> QED
  BY <1>3, <1>4, <1>5, LockFrame DEF InTransaction

-----------------------------------------------------------------------------
LEMMA RequestTypes ==
  ASSUME TypeOK, NEW p \in Procs, Request(p)
  PROVE  TypeOK'
<1> USE UnchangedTypes
<1>0. PICK q \in Quotes :
        \/ CustomerOpens(p, q) \/ CustomerViews(p, q) \/ CancelQuote(p, q)
        \/ StartSend(p, q) \/ StartSign(p, q) \/ StartDeleteDraft(p, q)
        \/ \E s \in BookingStatuses : StartTicketing(p, q, s)
  BY DEF Request
<1>1. /\ UNCHANGED <<quoteVars, bookingVars, rowLock, lead, now, mailed>>
      /\ q # None /\ JobShapes /\ price[q] \in Nat /\ price[q] \in Optional(0..MaxPrice)
      /\ booking[q] \in BookingStatuses \cup {"none"}
  BY <1>0, QuoteAssumption
  DEF CustomerOpens, CustomerViews, CancelQuote, StartSend, StartSign, StartDeleteDraft,
      StartTicketing, TypeOK, JobTypes, QuoteTypes, BookingTypes, Optional
<1>2. ASSUME NEW wanted \in {"READ", "VIEWED", "CANCELED"}, Start(p, "read", q, wanted),
             UNCHANGED <<seen, since, from>>
      PROVE  JobTypes' /\ LockTypes'
  BY <1>1, <1>2, StartKeeps, JobFrame, LockFrame
  DEF JobShapes, JobReady, Labels, Linear, BookingStatuses, InTransaction, bookingVars
<1>3. ASSUME NEW label \in {"claim", "sign"}, NEW wanted \in {"SENT", "SIGNED"},
             label = "claim" => wanted = "SENT",
             Start(p, label, q, wanted), seen' = [seen EXCEPT ![p] = price[q]],
             UNCHANGED <<since, from>>
      PROVE  JobTypes' /\ LockTypes'
  <2>1. /\ pc' \in [Procs -> Labels] /\ target' \in [Procs -> Quotes \cup {None}]
        /\ to' \in [Procs -> Linear \cup BookingStatuses \cup {"none"}]
        /\ pc[p] = "idle" /\ pc'[p] = label /\ target'[p] = q /\ to'[p] = wanted
        /\ \A o \in Procs \ {p} : pc'[o] = pc[o] /\ target'[o] = target[o] /\ to'[o] = to[o]
    BY <1>1, <1>3 DEF Start, JobShapes, Labels, Linear
  <2>2. /\ seen' \in [Procs -> Optional(0..MaxPrice)] /\ seen'[p] # NotYet
        /\ \A o \in Procs \ {p} : seen'[o] = seen[o]
    BY <1>1, <1>3 DEF JobShapes, NotYet
  <2>3. JobShapes' /\ OthersKeepTheirs(p) /\ JobReady(p)'
    BY <1>1, <1>3, <2>1, <2>2 DEF JobShapes, OthersKeepTheirs, JobReady
  <2> QED
    BY <1>1, <1>3, <2>1, <2>3, JobFrame, LockFrame DEF InTransaction, bookingVars
<1>4. ASSUME Start(p, "discard", q, "none"), UNCHANGED <<seen, since, from>>
      PROVE  JobTypes' /\ LockTypes'
  BY <1>1, <1>4, StartKeeps, JobFrame, LockFrame
  DEF JobShapes, JobReady, Labels, InTransaction, bookingVars
<1>5. ASSUME NEW s \in BookingStatuses, Start(p, "ticket", q, s), UNCHANGED <<seen, since>>,
             from' = [from EXCEPT ![p] = booking[q]]
      PROVE  JobTypes' /\ LockTypes'
  BY <1>1, <1>5, StartKeeps, JobFrame, LockFrame
  DEF JobShapes, JobReady, Labels, InTransaction, bookingVars
<1>6. JobTypes' /\ LockTypes'
  BY <1>0, <1>2, <1>3, <1>4, <1>5
  DEF CustomerOpens, CustomerViews, CancelQuote, StartSend, StartSign, StartDeleteDraft, StartTicketing
<1> QED
  BY <1>1, <1>6 DEF TypeOK, quoteVars

\* Where writeQuoteStatus goes on, for whomever called it.
LEMMA AfterTransitionTypes ==
  ASSUME TypeOK, NEW p \in Procs, pc[p] \in {"read", "write"}, AfterTransition(p),
         UNCHANGED <<rowLock, booking>>
  PROVE  JobTypes' /\ LockTypes'
<1>1. CASE to[p] = "SENT"
  <2>1. Goto(p, "lead") /\ UNCHANGED <<target, to, seen, since, from>>
    BY <1>1 DEF AfterTransition
  <2>2. JobReady(p)' /\ "lead" \in Labels
    BY <1>1, <2>1 DEF TypeOK, JobTypes, JobShapes, JobReady, Goto, Labels
  <2> QED
    BY <2>1, <2>2, GotoTypes, LockFrame DEF InTransaction
<1>2. CASE to[p] # "SENT"
  BY <1>2, FinishTypes DEF AfterTransition, InTransaction
<1> QED
  BY <1>1, <1>2

LEMMA TransitionTypes ==
  ASSUME TypeOK, NEW p \in Procs, Transition(p)
  PROVE  TypeOK'
<1> USE UnchangedTypes
<1>1. CASE ReadStatus(p)
  <2>1. /\ UNCHANGED <<quoteVars, bookingVars, rowLock, lead, now, mailed>> /\ pc[p] = "read"
        /\ \/ Goto(p, "write") /\ UNCHANGED <<target, to, seen, since, from>>
           \/ AfterTransition(p)
    BY <1>1 DEF ReadStatus
  <2>2. CASE Goto(p, "write") /\ UNCHANGED <<target, to, seen, since, from>>
    <3>1. JobReady(p)' /\ "write" \in Labels
      BY <2>1, <2>2 DEF TypeOK, JobTypes, JobShapes, JobReady, Goto, Labels
    <3> QED
      BY <2>1, <2>2, <3>1, GotoTypes, LockFrame DEF TypeOK, InTransaction, quoteVars, bookingVars
  <2>3. CASE AfterTransition(p)
    BY <2>1, <2>3, AfterTransitionTypes DEF TypeOK, quoteVars, bookingVars
  <2> QED
    BY <2>1, <2>2, <2>3
<1>2. CASE WriteStatus(p)
  <2>1. target[p] \in Quotes /\ to[p] \in {"SENT", "READ", "VIEWED", "CANCELED"}
    BY <1>2 DEF WriteStatus, TypeOK, JobTypes, JobShapes, JobReady
  <2>2. JobTypes' /\ LockTypes'
    BY <1>2, AfterTransitionTypes DEF WriteStatus, bookingVars
  <2>3. QuoteTypes' /\ BookingTypes'
    BY <1>2, <2>1
    DEF WriteStatus, TypeOK, QuoteTypes, BookingTypes, bookingVars, Statuses, Linear
  <2> QED
    BY <2>2, <2>3 DEF TypeOK
<1>3. CASE QuoteVanished(p)
  BY <1>3, FinishTypes DEF QuoteVanished, TypeOK, InTransaction, quoteVars, bookingVars
<1> QED
  BY <1>1, <1>2, <1>3 DEF Transition

\* A send moves on outside any transaction.
LEMMA SendGoto ==
  ASSUME TypeOK, NEW p \in Procs, NEW label \in {"freeze", "mail", "read", "release", "quoted"},
         pc[p] \in {"claim", "freeze", "mail", "lead"}, Goto(p, label),
         UNCHANGED <<target, to, seen, from, rowLock, booking>>,
         since' \in [Procs -> Optional(0..MaxTime)],
         \A o \in Procs \ {p} : since'[o] = since[o],
         label \in {"freeze", "mail"} => since'[p] # NotYet /\ pc[p] # "lead"
  PROVE  JobTypes' /\ LockTypes'
<1>1. /\ pc' \in [Procs -> Labels] /\ pc'[p] = label
      /\ \A o \in Procs \ {p} : pc'[o] = pc[o]
  BY DEF Goto, TypeOK, JobTypes, JobShapes, Labels
<1>2. JobShapes' /\ OthersKeepTheirs(p)
  BY <1>1 DEF TypeOK, JobTypes, JobShapes, OthersKeepTheirs
<1>3. JobReady(p)'
  BY <1>1 DEF TypeOK, JobTypes, JobReady
<1> QED
  BY <1>1, <1>2, <1>3, JobFrame, LockFrame DEF InTransaction

LEMMA SendTypes ==
  ASSUME TypeOK, NEW p \in Procs, SendStep(p)
  PROVE  TypeOK'
<1> USE UnchangedTypes
<1>0. /\ JobShapes /\ JobReady(p)
      /\ now \in 0..MaxTime /\ now # NotYet /\ now \in Optional(0..MaxTime)
  BY QuoteAssumption DEF TypeOK, JobTypes, QuoteTypes, NotYet, Optional
<1>1. CASE ClaimSend(p)
  <2>1. target[p] \in Quotes
    BY <1>0, <1>1 DEF ClaimSend, JobShapes, JobReady
  <2>2. JobTypes' /\ LockTypes'
    <3>1. since' = [since EXCEPT ![p] = now]
      BY <1>1 DEF ClaimSend
    <3>2. since' \in [Procs -> Optional(0..MaxTime)] /\ since'[p] # NotYet
      BY <1>0, <3>1 DEF JobShapes
    <3>3. \A o \in Procs \ {p} : since'[o] = since[o]
      BY <1>0, <3>1 DEF JobShapes
    <3> QED
      BY <1>1, <3>2, <3>3, SendGoto DEF ClaimSend, bookingVars
  <2>3. QuoteTypes' /\ BookingTypes'
    BY <1>0, <1>1, <2>1 DEF ClaimSend, TypeOK, QuoteTypes, BookingTypes, bookingVars
  <2> QED
    BY <2>2, <2>3 DEF TypeOK
<1>2. CASE DuplicateSend(p)
  BY <1>2, FinishTypes DEF DuplicateSend, TypeOK, InTransaction, quoteVars, bookingVars
<1>3. CASE FreezeSnapshot(p)
  <2>1. target[p] \in Quotes /\ seen[p] \in Optional(0..MaxPrice) /\ since[p] # NotYet
    BY <1>0, <1>3 DEF FreezeSnapshot, JobShapes, JobReady
  <2>2. JobTypes' /\ LockTypes'
    BY <1>0, <1>3, <2>1, SendGoto DEF FreezeSnapshot, bookingVars, JobShapes
  <2>3. QuoteTypes' /\ BookingTypes'
    BY <1>3, <2>1 DEF FreezeSnapshot, TypeOK, QuoteTypes, BookingTypes, bookingVars
  <2> QED
    BY <2>2, <2>3 DEF TypeOK
<1>4. CASE QuoteChangedWhileSending(p) \/ MailFails(p)
  <2>1. JobTypes' /\ LockTypes'
    BY <1>0, <1>4, SendGoto DEF QuoteChangedWhileSending, MailFails, bookingVars, JobShapes
  <2> QED
    BY <1>4, <2>1 DEF QuoteChangedWhileSending, MailFails, TypeOK, quoteVars
<1>5. CASE MailQuote(p) \/ ReplyLost(p)
  <2>1. target[p] \in Quotes /\ since[p] \in Optional(0..MaxTime)
    BY <1>0, <1>5 DEF MailQuote, ReplyLost, JobShapes, JobReady
  <2>2. JobTypes' /\ LockTypes'
    BY <1>0, <1>5, SendGoto DEF MailQuote, ReplyLost, bookingVars, JobShapes
  <2>3. /\ mailed' = [mailed EXCEPT ![target[p]] = since[p]]
        /\ UNCHANGED <<quoteVars, bookingVars, rowLock, lead, now>>
    BY <1>5 DEF MailQuote, ReplyLost
  <2>4. QuoteTypes'
    BY <2>1, <2>3 DEF TypeOK, QuoteTypes, quoteVars
  <2> QED
    BY <2>2, <2>3, <2>4 DEF TypeOK, quoteVars
<1>6. CASE ReleaseSend(p)
  <2>1. target[p] \in Quotes
    BY <1>0, <1>6 DEF ReleaseSend, JobShapes, JobReady
  <2>2. QuoteTypes'
    BY <1>6, <2>1 DEF ReleaseSend, TypeOK, QuoteTypes, Optional
  <2> QED
    BY <1>6, <2>2, FinishTypes DEF ReleaseSend, TypeOK, InTransaction, bookingVars
<1>7. CASE ReadLead(p)
  <2>1. CASE Finish(p)
    BY <1>7, <2>1, FinishTypes DEF ReadLead, TypeOK, InTransaction, quoteVars, bookingVars
  <2>2. CASE Goto(p, "quoted") /\ UNCHANGED <<target, to, seen, since, from>>
    <3>1. JobTypes' /\ LockTypes'
      BY <1>0, <1>7, <2>2, SendGoto DEF ReadLead, bookingVars, JobShapes
    <3> QED
      BY <1>7, <3>1 DEF ReadLead, TypeOK, quoteVars
  <2> QED
    BY <1>7, <2>1, <2>2 DEF ReadLead
<1>8. CASE AdvanceLead(p)
  <2>1. QuoteTypes'
    BY <1>8 DEF AdvanceLead, TypeOK, QuoteTypes, quoteVars
  <2> QED
    BY <1>8, <2>1, FinishTypes DEF AdvanceLead, TypeOK, InTransaction, quoteVars, bookingVars
<1> QED
  BY <1>1, <1>2, <1>3, <1>4, <1>5, <1>6, <1>7, <1>8 DEF SendStep

LEMMA BookingStepTypes ==
  ASSUME TypeOK, NEW p \in Procs, BookingStep(p)
  PROVE  TypeOK'
<1> USE UnchangedTypes
<1>0. JobShapes /\ JobReady(p)
  BY DEF TypeOK, JobTypes
<1>1. CASE SignQuote(p)
  <2>0. target[p] \in Quotes /\ LeadOf[target[p]] \in Leads /\ seen[p] \in Optional(0..MaxPrice) /\ seen[p] # NotYet
        /\ p # None
    BY <1>0, <1>1, QuoteAssumption DEF SignQuote, JobShapes, JobReady
  <2>1. /\ status' = [status EXCEPT ![target[p]] = "SIGNED"]
        /\ booking' = [booking EXCEPT ![target[p]] = "PENDING_TICKETING"]
        /\ charged' = [charged EXCEPT ![target[p]] = seen[p]]
        /\ signer' = [signer EXCEPT ![target[p]] = p]
        /\ recorded' = [recorded EXCEPT ![target[p]] = "PENDING_TICKETING"]
        /\ lead' = [lead EXCEPT ![LeadOf[target[p]]] = "booked"]
        /\ UNCHANGED <<price, snapshot, claim, rowLock, now, mailed>>
        /\ Finish(p) /\ pc[p] = "sign" /\ booking[target[p]] = "none"
    BY <1>1 DEF SignQuote, Signable
  <2>2. QuoteTypes'
    BY <2>0, <2>1 DEF TypeOK, QuoteTypes, Statuses, Linear
  <2>3. BookingTypes'
    <3>1. /\ booking' \in [Quotes -> BookingStatuses \cup {"none"}]
          /\ recorded' \in [Quotes -> BookingStatuses \cup {"none"}]
      BY <2>1 DEF TypeOK, BookingTypes, BookingStatuses
    <3>2. /\ charged' \in [Quotes -> Optional(0..MaxPrice)]
          /\ signer' \in [Quotes -> Procs \cup {None}]
      BY <2>0, <2>1 DEF TypeOK, BookingTypes
    <3>3. ASSUME NEW q \in Quotes
          PROVE  /\ (booking'[q] = "none") <=> (charged'[q] = NotYet)
                 /\ (booking'[q] = "none") <=> (signer'[q] = None)
                 /\ status'[q] = "deleted" => booking'[q] = "none"
      <4>1. CASE q = target[p]
        BY <2>0, <2>1, <4>1 DEF TypeOK, BookingTypes, QuoteTypes
      <4>2. CASE q # target[p]
        BY <2>0, <2>1, <4>2 DEF TypeOK, BookingTypes, QuoteTypes
      <4> QED
        BY <4>1, <4>2
    <3> QED
      BY <3>1, <3>2, <3>3 DEF BookingTypes
  <2>4. JobTypes' /\ OthersKeepTheirs(p) /\ pc'[p] = "idle"
    BY <2>1, FinishTypes
  <2>5. LockTypes'
    <3>1. \A q \in Quotes : rowLock[q] # None => booking'[q] # "none"
      BY <2>0, <2>1 DEF TypeOK, LockTypes, BookingTypes
    <3> QED
      BY <2>1, <2>4, <3>1 DEF TypeOK, LockTypes, OthersKeepTheirs
  <2> QED
    BY <2>2, <2>3, <2>4, <2>5 DEF TypeOK
<1>2. CASE SigningRefused(p) \/ BookingVanished(p)
  BY <1>2, FinishTypes
  DEF SigningRefused, BookingVanished, TypeOK, InTransaction, quoteVars, bookingVars
<1>3. CASE LockBooking(p)
  <2>0. target[p] \in Quotes /\ p # None
    BY <1>0, <1>3, QuoteAssumption DEF LockBooking, JobShapes, JobReady
  <2>1. PICK label \in InTransaction :
          /\ Goto(p, label) /\ pc[p] = "ticket"
          /\ label = "reconcile" => BookingDrives[to[p]] # "none"
          /\ rowLock' = [rowLock EXCEPT ![target[p]] = p]
          /\ rowLock[target[p]] = None /\ booking[target[p]] # "none"
          /\ UNCHANGED <<quoteVars, bookingVars, lead, now, mailed, target, to, seen, since, from>>
    BY <1>3 DEF LockBooking, InTransaction
  <2>2. /\ label \in Labels /\ label \notin {"idle", "claim", "freeze", "mail", "release", "lead",
            "quoted", "read", "write", "sign"}
        /\ to[p] \in BookingStatuses
    BY <1>0, <2>1 DEF InTransaction, Labels, JobReady
  <2>3. pc'[p] = label
    BY <1>0, <2>1 DEF Goto, JobShapes
  <2>4. JobReady(p)'
    BY <1>0, <2>1, <2>2, <2>3 DEF JobReady
  <2>5. JobTypes' /\ OthersKeepTheirs(p)
    BY <2>1, <2>2, <2>4, GotoTypes
  <2>6. LockTypes'
    <3>1. rowLock' \in [Quotes -> Procs \cup {None}]
      BY <2>0, <2>1 DEF TypeOK, LockTypes
    <3>2. ASSUME NEW q \in Quotes, NEW o \in Procs
          PROVE  rowLock'[q] = o <=> pc'[o] \in {"reconcile", "save"} /\ target'[o] = q
      <4>1. CASE o = p
        BY <2>0, <2>1, <2>3, <4>1 DEF TypeOK, LockTypes, InTransaction
      <4>2. CASE o # p
        BY <2>0, <2>1, <2>5, <4>2, QuoteAssumption DEF TypeOK, LockTypes, OthersKeepTheirs
      <4> QED
        BY <4>1, <4>2
    <3>3. \A q \in Quotes : rowLock'[q] # None => booking'[q] # "none"
      BY <2>0, <2>1 DEF TypeOK, LockTypes, bookingVars
    <3> QED
      BY <3>1, <3>2, <3>3 DEF LockTypes
  <2> QED
    BY <2>1, <2>5, <2>6 DEF TypeOK, quoteVars
<1>4. CASE SaveTicketing(p)
  <2>0. /\ target[p] \in Quotes /\ to[p] \in BookingStatuses /\ pc[p] \in InTransaction
        /\ rowLock[target[p]] = p /\ booking[target[p]] # "none" /\ p # None
    BY <1>0, <1>4, QuoteAssumption
    DEF SaveTicketing, JobShapes, JobReady, TypeOK, LockTypes, InTransaction
  <2>1. /\ booking' = [booking EXCEPT ![target[p]] = to[p]]
        /\ recorded' = [recorded EXCEPT ![target[p]] = IF to[p] # from[p] THEN to[p] ELSE @]
        /\ status' = [status EXCEPT ![target[p]] =
                        IF pc[p] = "reconcile" THEN BookingDrives[to[p]] ELSE @]
        /\ rowLock' = [rowLock EXCEPT ![target[p]] = None]
        /\ UNCHANGED <<price, snapshot, claim, charged, signer, lead, now, mailed>>
        /\ Finish(p)
    BY <1>4 DEF SaveTicketing
  <2>2. pc[p] = "reconcile" => BookingDrives[to[p]] \in Statuses \ {"deleted"}
    BY <1>0, <2>0 DEF JobReady, BookingDrives, Statuses, Linear
  <2>3. QuoteTypes'
    BY <2>0, <2>1, <2>2 DEF TypeOK, QuoteTypes
  <2>4. BookingTypes'
    <3>1. \A q \in Quotes : status'[q] = "deleted" => status[q] = "deleted"
      BY <2>0, <2>1, <2>2 DEF TypeOK, QuoteTypes
    <3>2. \A q \in Quotes : booking'[q] = "none" <=> booking[q] = "none"
      BY <2>0, <2>1 DEF TypeOK, BookingTypes, BookingStatuses
    <3>3. /\ booking' \in [Quotes -> BookingStatuses \cup {"none"}]
          /\ recorded' \in [Quotes -> BookingStatuses \cup {"none"}]
      BY <2>0, <2>1 DEF TypeOK, BookingTypes
    <3> QED
      BY <2>1, <3>1, <3>2, <3>3 DEF TypeOK, BookingTypes
  <2>5. JobTypes' /\ OthersKeepTheirs(p) /\ pc'[p] = "idle"
    BY <2>1, FinishTypes
  <2>6. LockTypes'
    <3>1. rowLock' \in [Quotes -> Procs \cup {None}]
      BY <2>0, <2>1 DEF TypeOK, LockTypes
    <3>2. ASSUME NEW q \in Quotes, NEW o \in Procs
          PROVE  rowLock'[q] = o <=> pc'[o] \in {"reconcile", "save"} /\ target'[o] = q
      BY <2>0, <2>1, <2>5, QuoteAssumption DEF TypeOK, LockTypes, OthersKeepTheirs, InTransaction
    <3>3. \A q \in Quotes : rowLock'[q] # None => booking'[q] # "none"
      BY <2>0, <2>1 DEF TypeOK, LockTypes, BookingTypes
    <3> QED
      BY <3>1, <3>2, <3>3 DEF LockTypes
  <2> QED
    BY <2>3, <2>4, <2>5, <2>6 DEF TypeOK
<1>5. CASE DeleteDraftQuote(p)
  <2>0. target[p] \in Quotes
    BY <1>0, <1>5 DEF DeleteDraftQuote, JobShapes, JobReady
  <2>1. /\ RemoveQuote(target[p]) /\ Finish(p) /\ pc[p] = "discard"
        /\ UNCHANGED <<price, snapshot, rowLock, lead, now, mailed>>
    BY <1>5 DEF DeleteDraftQuote
  <2>2. QuoteTypes'
    BY <2>0, <2>1 DEF RemoveQuote, TypeOK, QuoteTypes, Statuses, Optional
  <2>3. BookingTypes'
    BY <2>0, <2>1 DEF RemoveQuote, TypeOK, BookingTypes, Optional
  <2>4. JobTypes' /\ OthersKeepTheirs(p) /\ pc'[p] = "idle"
    BY <2>1, FinishTypes
  <2>5. LockTypes'
    BY <2>0, <2>1, <2>4 DEF RemoveQuote, TypeOK, LockTypes, BookingTypes, OthersKeepTheirs
  <2> QED
    BY <2>2, <2>3, <2>4, <2>5 DEF TypeOK
<1> QED
  BY <1>1, <1>2, <1>3, <1>4, <1>5 DEF BookingStep

LEMMA DirectTypes ==
  ASSUME TypeOK, Direct
  PROVE  TypeOK'
<1> USE UnchangedTypes
<1>0. PICK q \in Quotes : UpdateQuotePricing(q) \/ DeleteQuote(q) \/ DeleteBooking(q)
  BY DEF Direct
<1>1. CASE UpdateQuotePricing(q)
  <2>1. /\ price' = [price EXCEPT ![q] = price[q] + 1] /\ price[q] + 1 \in 0..MaxPrice
        /\ UNCHANGED <<status, snapshot, claim, bookingVars, rowLock, lead, now, mailed, jobVars>>
    BY <1>1, QuoteAssumption DEF UpdateQuotePricing, TypeOK, QuoteTypes
  <2>2. QuoteTypes'
    BY <2>1 DEF TypeOK, QuoteTypes
  <2> QED
    BY <2>1, <2>2 DEF TypeOK, bookingVars
<1>2. CASE DeleteQuote(q)
  <2>1. RemoveQuote(q) /\ UNCHANGED <<price, snapshot, rowLock, lead, now, mailed, jobVars>>
    BY <1>2 DEF DeleteQuote
  <2>2. QuoteTypes'
    BY <2>1 DEF RemoveQuote, TypeOK, QuoteTypes, Statuses, Optional
  <2>3. BookingTypes'
    BY <2>1 DEF RemoveQuote, TypeOK, BookingTypes, Optional
  <2>4. LockTypes'
    BY <2>1 DEF RemoveQuote, TypeOK, LockTypes, BookingTypes, jobVars
  <2> QED
    BY <2>1, <2>2, <2>3, <2>4 DEF TypeOK
<1>3. CASE DeleteBooking(q)
  <2>1. BookingTypes'
    BY <1>3 DEF DeleteBooking, TypeOK, BookingTypes, Optional, quoteVars
  <2>2. LockTypes'
    BY <1>3 DEF DeleteBooking, TypeOK, LockTypes, BookingTypes, jobVars
  <2> QED
    BY <1>3, <2>1, <2>2 DEF DeleteBooking, TypeOK, quoteVars
<1> QED
  BY <1>0, <1>1, <1>2, <1>3

LEMMA CrashTypes ==
  ASSUME TypeOK, NEW p \in Procs, Crash(p)
  PROVE  TypeOK'
<1> USE UnchangedTypes
<1>1. /\ rowLock' = [q \in Quotes |-> IF rowLock[q] = p THEN None ELSE rowLock[q]]
      /\ Finish(p) /\ UNCHANGED <<quoteVars, bookingVars, lead, now, mailed>>
  BY DEF Crash
<1>2. JobTypes' /\ OthersKeepTheirs(p) /\ pc'[p] = "idle"
  BY <1>1, FinishTypes
<1>3. LockTypes'
  BY <1>1, <1>2, QuoteAssumption DEF TypeOK, LockTypes, OthersKeepTheirs, bookingVars
<1> QED
  BY <1>1, <1>2, <1>3 DEF TypeOK, quoteVars

LEMMA FailureTypes ==
  ASSUME TypeOK, NEW p \in Procs, Failure(p)
  PROVE  TypeOK'
<1>1. CASE ReleaseFails(p)
  <2>1. Finish(p) /\ pc[p] = "release" /\ UNCHANGED <<quoteVars, bookingVars, rowLock, lead, now, mailed>>
    BY <1>1 DEF ReleaseFails
  <2>2. JobTypes' /\ LockTypes'
    BY <2>1, FinishTypes DEF InTransaction, bookingVars
  <2> QED
    BY <2>1, <2>2, UnchangedTypes DEF TypeOK, quoteVars
<1> QED
  BY <1>1, CrashTypes DEF Failure

LEMMA TickTypes ==
  ASSUME TypeOK, Tick
  PROVE  TypeOK'
<1>1. QuoteTypes'
  BY QuoteAssumption DEF Tick, TypeOK, QuoteTypes, quoteVars
<1> QED
  BY <1>1, UnchangedTypes DEF Tick, TypeOK, quoteVars, bookingVars

LEMMA TypeStep == TypeOK /\ [Next]_vars => TypeOK'
<1> SUFFICES ASSUME TypeOK, [Next]_vars PROVE TypeOK'
  OBVIOUS
<1>1. CASE UNCHANGED vars
  BY <1>1, UnchangedTypes DEF TypeOK, vars, quoteVars, bookingVars, jobVars
<1>2. CASE Next
  BY <1>2, TransitionTypes, SendTypes, BookingStepTypes, RequestTypes, FailureTypes, DirectTypes, TickTypes
  DEF Next
<1> QED
  BY <1>1, <1>2

\* Every column and every local variable keeps its type; a booking always has
\* its total and its signer and never outlives its quote; the booking row is
\* locked exactly by the transaction that is saving it.
THEOREM TypeCorrect == Spec => []TypeOK
BY TypeInit, TypeStep, PTL DEF Spec

-----------------------------------------------------------------------------
(* Safety: what holds of every quote and its booking. *)

Sent(q) == mailed[q] # NotYet /\ snapshot[q] # NotYet

BookedIsNoDraft == \A q \in Quotes : booking[q] # "none" => status[q] # "DRAFT"

\* What an invocation knows of its quote.  Whoever mails has frozen a price;
\* whoever asks for a status on the customer's side, or signs, acts on a quote
\* that was sent; and what a signer read long before its transaction is still
\* there, as a quote that has left the drafts is not edited any more.
Knows(p) ==
  LET q == target[p] IN
  /\ pc[p] = "mail" => snapshot[q] # NotYet
  /\ pc[p] \in {"read", "write"} /\ to[p] # "CANCELED" => Sent(q)
  /\ pc[p] = "sign" => Sent(q) /\ status[q] # "DRAFT" /\ seen[p] = price[q]

IInv ==
  /\ TypeOK /\ NothingUnsentIsSigned /\ ChargedIsPriced /\ BookedIsNoDraft
  /\ \A p \in Procs : Knows(p)

LEMMA IInvInit == Init => IInv
BY TypeInit
DEF Init, IInv, NothingUnsentIsSigned, ChargedIsPriced, BookedIsNoDraft, Knows,
    InCustomersHands, Linear

-----------------------------------------------------------------------------
(* A step as the invariant sees it. *)

\* What was sent stays sent; only a draft is edited, and nothing that has left
\* the drafts returns.
MovesOn(q) ==
  /\ mailed[q] # NotYet => mailed'[q] # NotYet
  /\ snapshot[q] # NotYet => snapshot'[q] # NotYet
  /\ status[q] # "DRAFT" => status'[q] # "DRAFT" /\ price'[q] = price[q]

\* A booking was there before, or a signature has just made it.
BookingHasOrigin(q) ==
  booking'[q] # "none" =>
    \/ booking[q] # "none" /\ charged'[q] = charged[q]
    \/ /\ \E p \in Procs : pc[p] = "sign" /\ target[p] = q /\ charged'[q] = seen[p]
       /\ booking[q] = "none"

\* Only a quote that was sent, or booked, moves to the customer's side.
HandedOver(q) == InCustomersHands(q)' => InCustomersHands(q) \/ booking[q] # "none" \/ Sent(q)

Sound(q) == MovesOn(q) /\ BookingHasOrigin(q) /\ HandedOver(q)

LEMMA SoundPreserves ==
  ASSUME IInv, TypeOK', \A q \in Quotes : Sound(q)
  PROVE  NothingUnsentIsSigned' /\ ChargedIsPriced' /\ BookedIsNoDraft'
<1> SUFFICES ASSUME NEW q \in Quotes
             PROVE  /\ InCustomersHands(q)' \/ booking'[q] # "none" => Sent(q)'
                    /\ booking'[q] # "none" => charged'[q] = price'[q] /\ status'[q] # "DRAFT"
  BY DEF NothingUnsentIsSigned, ChargedIsPriced, BookedIsNoDraft, Sent
<1>1. Sound(q)
  OBVIOUS
<1>2. booking'[q] # "none" =>
        Sent(q) /\ status[q] # "DRAFT" /\ charged'[q] = price[q]
  BY <1>1 DEF Sound, BookingHasOrigin, IInv, Knows, NothingUnsentIsSigned, ChargedIsPriced,
              BookedIsNoDraft, Sent
<1>3. InCustomersHands(q)' => Sent(q)
  BY <1>1 DEF Sound, HandedOver, IInv, NothingUnsentIsSigned, Sent
<1> QED
  BY <1>1, <1>2, <1>3 DEF Sound, MovesOn, Sent

LEMMA KnowsPreserved ==
  ASSUME IInv, NEW p \in Procs, OthersKeepTheirs(p), \A q \in Quotes : Sound(q), Knows(p)'
  PROVE  \A o \in Procs : Knows(o)'
<1> SUFFICES ASSUME NEW o \in Procs, o # p PROVE Knows(o)'
  OBVIOUS
<1>1. CASE pc[o] = "idle"
  BY <1>1 DEF OthersKeepTheirs, Knows
<1>2. CASE pc[o] # "idle"
  <2>1. target[o] \in Quotes
    BY <1>2 DEF IInv, TypeOK, JobTypes, JobShapes, JobReady
  <2>2. MovesOn(target[o]) /\ Knows(o)
    BY <2>1 DEF IInv, Sound
  <2> QED
    BY <2>2 DEF OthersKeepTheirs, Knows, MovesOn, Sent
<1> QED
  BY <1>1, <1>2

LEMMA UntouchedIsSound ==
  ASSUME UNCHANGED <<status, price, booking, charged>>, NEW q \in Quotes,
         mailed[q] # NotYet => mailed'[q] # NotYet, snapshot[q] # NotYet => snapshot'[q] # NotYet
  PROVE  Sound(q)
BY DEF Sound, MovesOn, BookingHasOrigin, HandedOver, InCustomersHands

LEMMA IdleKnows == ASSUME NEW p \in Procs, pc'[p] \notin {"mail", "read", "write", "sign"} PROVE Knows(p)'
BY DEF Knows

-----------------------------------------------------------------------------
LEMMA RequestSound ==
  ASSUME IInv, NEW p \in Procs, Request(p)
  PROVE  (\A q \in Quotes : Sound(q)) /\ OthersKeepTheirs(p) /\ Knows(p)'
<1>0. JobShapes
  BY DEF IInv, TypeOK, JobTypes
<1>1. PICK q \in Quotes :
        \/ CustomerOpens(p, q) \/ CustomerViews(p, q) \/ CancelQuote(p, q)
        \/ StartSend(p, q) \/ StartSign(p, q) \/ StartDeleteDraft(p, q)
        \/ \E s \in BookingStatuses : StartTicketing(p, q, s)
  BY DEF Request
<1>2. /\ UNCHANGED <<quoteVars, bookingVars, rowLock, lead, now, mailed, since>>
      /\ \E label, wanted : Start(p, label, q, wanted)
      /\ UNCHANGED seen \/ seen' = [seen EXCEPT ![p] = price[q]]
  BY <1>1
  DEF CustomerOpens, CustomerViews, CancelQuote, StartSend, StartSign, StartDeleteDraft, StartTicketing
<1>3. OthersKeepTheirs(p)
  BY <1>0, <1>2 DEF Start, JobShapes, OthersKeepTheirs
<1>4. Knows(p)'
  <2>1. CASE CustomerOpens(p, q) \/ CustomerViews(p, q)
    <3>1. Sent(q)
      BY <2>1 DEF CustomerOpens, CustomerViews, IInv, NothingUnsentIsSigned, InCustomersHands, Linear, Sent
    <3>2. pc'[p] = "read" /\ target'[p] = q
      BY <1>0, <2>1 DEF CustomerOpens, CustomerViews, Start, JobShapes
    <3> QED
      BY <1>2, <3>1, <3>2 DEF Knows, Sent, quoteVars
  <2>2. CASE CancelQuote(p, q)
    BY <1>0, <2>2 DEF CancelQuote, Start, JobShapes, Knows
  <2>3. CASE StartSign(p, q)
    <3>1. Sent(q) /\ status[q] # "DRAFT"
      BY <2>3 DEF StartSign, Bookable, IInv, NothingUnsentIsSigned, InCustomersHands, Linear, Sent
    <3>2. pc'[p] = "sign" /\ target'[p] = q /\ seen'[p] = price[q]
      BY <1>0, <2>3 DEF StartSign, Start, JobShapes
    <3> QED
      BY <1>2, <3>1, <3>2 DEF Knows, Sent, quoteVars
  <2>4. CASE \/ StartSend(p, q) \/ StartDeleteDraft(p, q)
             \/ \E s \in BookingStatuses : StartTicketing(p, q, s)
    BY <1>0, <2>4, IdleKnows DEF StartSend, StartDeleteDraft, StartTicketing, Start, JobShapes
  <2> QED
    BY <1>1, <2>1, <2>2, <2>3, <2>4
<1> QED
  BY <1>2, <1>3, <1>4, UntouchedIsSound DEF quoteVars, bookingVars

LEMMA TransitionSound ==
  ASSUME IInv, NEW p \in Procs, Transition(p)
  PROVE  (\A q \in Quotes : Sound(q)) /\ OthersKeepTheirs(p) /\ Knows(p)'
<1>0. JobShapes /\ JobReady(p) /\ TypeOK /\ QuoteTypes /\ Knows(p)
  BY DEF IInv, TypeOK, JobTypes
<1>1. ASSUME AfterTransition(p) PROVE OthersKeepTheirs(p) /\ Knows(p)'
  <2>1. CASE Finish(p)
    BY <1>0, <2>1, FinishTypes, IdleKnows
  <2>2. CASE Goto(p, "lead") /\ UNCHANGED <<target, to, seen, since, from>>
    BY <1>0, <2>2, IdleKnows DEF Goto, JobShapes, OthersKeepTheirs
  <2> QED
    BY <1>1, <2>1, <2>2 DEF AfterTransition
<1>2. CASE ReadStatus(p)
  <2>1. /\ UNCHANGED <<quoteVars, bookingVars, rowLock, lead, now, mailed>> /\ pc[p] = "read"
        /\ \/ Goto(p, "write") /\ UNCHANGED <<target, to, seen, since, from>>
           \/ AfterTransition(p)
    BY <1>2 DEF ReadStatus
  <2>2. CASE Goto(p, "write") /\ UNCHANGED <<target, to, seen, since, from>>
    <3>1. OthersKeepTheirs(p) /\ pc'[p] = "write"
      BY <1>0, <2>2 DEF Goto, JobShapes, OthersKeepTheirs
    <3>2. Knows(p)'
      BY <1>0, <2>1, <2>2, <3>1 DEF Knows, Sent, quoteVars
    <3> QED
      BY <2>1, <3>1, <3>2, UntouchedIsSound DEF quoteVars, bookingVars
  <2> QED
    BY <1>1, <2>1, <2>2, UntouchedIsSound DEF quoteVars, bookingVars
<1>3. CASE WriteStatus(p)
  <2>1. /\ target[p] \in Quotes /\ to[p] \in {"SENT", "READ", "VIEWED", "CANCELED"}
        /\ to[p] # "CANCELED" => Sent(target[p])
    BY <1>0, <1>3 DEF WriteStatus, JobShapes, JobReady, Knows
  <2>2. /\ status' = [status EXCEPT ![target[p]] = to[p]] /\ AfterTransition(p)
        /\ UNCHANGED <<price, snapshot, booking, charged, mailed>>
    BY <1>3 DEF WriteStatus, bookingVars
  <2>3. ASSUME NEW q \in Quotes PROVE Sound(q)
    <3>1. CASE q = target[p]
      BY <1>0, <2>1, <2>2, <3>1
      DEF QuoteTypes, Sound, MovesOn, BookingHasOrigin, HandedOver, InCustomersHands, Linear
    <3>2. CASE q # target[p]
      BY <1>0, <2>1, <2>2, <3>2
      DEF QuoteTypes, Sound, MovesOn, BookingHasOrigin, HandedOver, InCustomersHands
    <3> QED
      BY <3>1, <3>2
  <2> QED
    BY <1>1, <2>2, <2>3
<1>4. CASE QuoteVanished(p)
  BY <1>0, <1>4, FinishTypes, IdleKnows, UntouchedIsSound DEF QuoteVanished, quoteVars, bookingVars
<1> QED
  BY <1>2, <1>3, <1>4 DEF Transition

LEMMA SendSound ==
  ASSUME IInv, NEW p \in Procs, SendStep(p)
  PROVE  (\A q \in Quotes : Sound(q)) /\ OthersKeepTheirs(p) /\ Knows(p)'
<1>0. JobShapes /\ JobReady(p) /\ TypeOK /\ QuoteTypes /\ Knows(p)
  BY DEF IInv, TypeOK, JobTypes
<1>1. ASSUME NEW label \in {"freeze", "mail", "read", "release", "quoted"}, Goto(p, label),
             UNCHANGED <<target, to, seen>>,
             \A o \in Procs \ {p} : since'[o] = since[o]
      PROVE  OthersKeepTheirs(p) /\ pc'[p] = label
  BY <1>0, <1>1 DEF Goto, JobShapes, OthersKeepTheirs
<1>2. CASE ClaimSend(p)
  <2>1. \A o \in Procs \ {p} : since'[o] = since[o]
    BY <1>0, <1>2 DEF ClaimSend, JobShapes
  <2>2. OthersKeepTheirs(p) /\ pc'[p] = "freeze"
    BY <1>1, <1>2, <2>1 DEF ClaimSend
  <2> QED
    BY <1>2, <2>2, IdleKnows, UntouchedIsSound DEF ClaimSend, bookingVars
<1>3. CASE \/ DuplicateSend(p) \/ ReleaseSend(p) \/ AdvanceLead(p)
           \/ ReadLead(p) /\ Finish(p)
  BY <1>0, <1>3, FinishTypes, IdleKnows, UntouchedIsSound
  DEF DuplicateSend, ReleaseSend, AdvanceLead, ReadLead, quoteVars, bookingVars
<1>4. CASE \/ QuoteChangedWhileSending(p) \/ MailFails(p)
           \/ ReadLead(p) /\ Goto(p, "quoted") /\ UNCHANGED <<target, to, seen, since, from>>
  <2>1. OthersKeepTheirs(p) /\ pc'[p] \in {"release", "quoted"}
    BY <1>1, <1>4 DEF QuoteChangedWhileSending, MailFails
  <2> QED
    BY <1>4, <2>1, IdleKnows, UntouchedIsSound
    DEF QuoteChangedWhileSending, MailFails, ReadLead, quoteVars, bookingVars
<1>5. CASE FreezeSnapshot(p)
  <2>1. target[p] \in Quotes /\ seen[p] # NotYet
    BY <1>0, <1>5 DEF FreezeSnapshot, JobShapes, JobReady
  <2>2. snapshot' = [snapshot EXCEPT ![target[p]] = seen[p]] /\ UNCHANGED <<target, mailed>>
    BY <1>5 DEF FreezeSnapshot
  <2>3. snapshot'[target[p]] # NotYet /\ \A q \in Quotes : snapshot[q] # NotYet => snapshot'[q] # NotYet
    BY <1>0, <2>1, <2>2 DEF QuoteTypes
  <2>4. OthersKeepTheirs(p) /\ pc'[p] = "mail"
    BY <1>1, <1>5 DEF FreezeSnapshot
  <2>5. Knows(p)'
    BY <2>2, <2>3, <2>4 DEF Knows
  <2> QED
    BY <1>5, <2>2, <2>3, <2>4, <2>5, UntouchedIsSound DEF FreezeSnapshot, bookingVars
<1>6. CASE MailQuote(p) \/ ReplyLost(p)
  <2>1. target[p] \in Quotes /\ since[p] # NotYet /\ pc[p] = "mail" /\ snapshot[target[p]] # NotYet
    BY <1>0, <1>6 DEF MailQuote, ReplyLost, JobShapes, JobReady, Knows
  <2>2. /\ mailed' = [mailed EXCEPT ![target[p]] = since[p]]
        /\ UNCHANGED <<quoteVars, bookingVars, target, to, seen, since>>
        /\ Goto(p, "read") \/ Goto(p, "release")
    BY <1>6 DEF MailQuote, ReplyLost
  <2>3. mailed'[target[p]] # NotYet /\ \A q \in Quotes : mailed[q] # NotYet => mailed'[q] # NotYet
    BY <1>0, <2>1, <2>2 DEF QuoteTypes
  <2>4. OthersKeepTheirs(p) /\ pc'[p] \in {"read", "release"}
    BY <1>1, <2>2
  <2>5. Knows(p)'
    BY <2>1, <2>2, <2>3, <2>4 DEF Knows, Sent, quoteVars
  <2> QED
    BY <2>2, <2>3, <2>4, <2>5, UntouchedIsSound DEF quoteVars, bookingVars
<1> QED
  BY <1>2, <1>3, <1>4, <1>5, <1>6 DEF SendStep, ReadLead

\* Deleting a quote, or a booking, takes bookings away and hands nothing over.
LEMMA RemovalIsSound ==
  ASSUME TypeOK, NEW q \in Quotes, UNCHANGED <<price, snapshot, mailed>>,
         booking' = [booking EXCEPT ![q] = "none"], charged' = [charged EXCEPT ![q] = NotYet],
         UNCHANGED status \/ status' = [status EXCEPT ![q] = "deleted"]
  PROVE  \A r \in Quotes : Sound(r)
<1> SUFFICES ASSUME NEW r \in Quotes PROVE Sound(r)
  OBVIOUS
<1>1. CASE r = q
  BY <1>1
  DEF TypeOK, QuoteTypes, BookingTypes, Sound, MovesOn, BookingHasOrigin, HandedOver,
      InCustomersHands, Linear
<1>2. CASE r # q
  BY <1>2
  DEF TypeOK, QuoteTypes, BookingTypes, Sound, MovesOn, BookingHasOrigin, HandedOver, InCustomersHands
<1> QED
  BY <1>1, <1>2

LEMMA BookingStepSound ==
  ASSUME IInv, NEW p \in Procs, BookingStep(p)
  PROVE  (\A q \in Quotes : Sound(q)) /\ OthersKeepTheirs(p) /\ Knows(p)'
<1>0. JobShapes /\ JobReady(p) /\ TypeOK /\ QuoteTypes /\ BookingTypes /\ LockTypes /\ Knows(p)
  BY DEF IInv, TypeOK, JobTypes
<1>1. OthersKeepTheirs(p) /\ Knows(p)'
  <2>1. CASE LockBooking(p)
    <3>1. OthersKeepTheirs(p) /\ pc'[p] \in InTransaction
      BY <1>0, <2>1 DEF LockBooking, Goto, JobShapes, OthersKeepTheirs, InTransaction
    <3> QED
      BY <3>1, IdleKnows DEF InTransaction
  <2>2. CASE Finish(p)
    BY <1>0, <2>2, FinishTypes, IdleKnows
  <2> QED
    BY <2>1, <2>2
    DEF BookingStep, SignQuote, SigningRefused, BookingVanished, SaveTicketing, DeleteDraftQuote
<1>2. CASE SignQuote(p)
  <2>1. target[p] \in Quotes /\ pc[p] = "sign" /\ Sent(target[p])
    BY <1>0, <1>2 DEF SignQuote, JobShapes, JobReady, Knows
  <2>2. /\ status' = [status EXCEPT ![target[p]] = "SIGNED"]
        /\ booking' = [booking EXCEPT ![target[p]] = "PENDING_TICKETING"]
        /\ charged' = [charged EXCEPT ![target[p]] = seen[p]]
        /\ UNCHANGED <<price, snapshot, mailed>> /\ booking[target[p]] = "none"
    BY <1>2 DEF SignQuote, Signable
  <2>3. ASSUME NEW q \in Quotes PROVE Sound(q)
    <3>1. CASE q = target[p]
      BY <1>0, <2>1, <2>2, <3>1
      DEF QuoteTypes, BookingTypes, Sound, MovesOn, BookingHasOrigin, HandedOver
    <3>2. CASE q # target[p]
      BY <1>0, <2>1, <2>2, <3>2
      DEF QuoteTypes, BookingTypes, Sound, MovesOn, BookingHasOrigin, HandedOver, InCustomersHands
    <3> QED
      BY <3>1, <3>2
  <2> QED
    BY <1>1, <2>3
<1>3. CASE SigningRefused(p) \/ BookingVanished(p) \/ LockBooking(p)
  BY <1>1, <1>3, UntouchedIsSound
  DEF SigningRefused, BookingVanished, LockBooking, quoteVars, bookingVars
<1>4. CASE SaveTicketing(p)
  <2>1. /\ target[p] \in Quotes /\ to[p] \in BookingStatuses /\ booking[target[p]] # "none"
    BY <1>0, <1>4, QuoteAssumption DEF SaveTicketing, JobShapes, JobReady, LockTypes
  <2>2. pc[p] = "reconcile" => BookingDrives[to[p]] # "DRAFT"
    BY <2>1 DEF BookingDrives
  <2>3. /\ booking' = [booking EXCEPT ![target[p]] = to[p]]
        /\ \/ status' = [status EXCEPT ![target[p]] = BookingDrives[to[p]]] /\ pc[p] = "reconcile"
           \/ status' = [status EXCEPT ![target[p]] = status[target[p]]]
        /\ UNCHANGED <<price, snapshot, charged, mailed>>
    BY <1>4 DEF SaveTicketing
  <2>4. ASSUME NEW q \in Quotes PROVE Sound(q)
    <3>1. CASE q = target[p]
      BY <1>0, <2>1, <2>2, <2>3, <3>1
      DEF QuoteTypes, Sound, MovesOn, BookingHasOrigin, HandedOver
    <3>2. CASE q # target[p]
      BY <1>0, <2>1, <2>3, <3>2
      DEF QuoteTypes, BookingTypes, Sound, MovesOn, BookingHasOrigin, HandedOver, InCustomersHands
    <3> QED
      BY <3>1, <3>2
  <2> QED
    BY <1>1, <2>4
<1>5. CASE DeleteDraftQuote(p)
  <2>1. target[p] \in Quotes
    BY <1>0, <1>5 DEF DeleteDraftQuote, JobShapes, JobReady
  <2> QED
    BY <1>0, <1>1, <1>5, <2>1, RemovalIsSound DEF DeleteDraftQuote, RemoveQuote
<1> QED
  BY <1>2, <1>3, <1>4, <1>5 DEF BookingStep

-----------------------------------------------------------------------------
LEMMA NoJobKnows ==
  ASSUME IInv, UNCHANGED jobVars, \A q \in Quotes : Sound(q)
  PROVE  \A p \in Procs : Knows(p)'
<1> SUFFICES ASSUME NEW p \in Procs PROVE Knows(p)'
  OBVIOUS
<1>1. CASE pc[p] = "idle"
  BY <1>1 DEF Knows, jobVars
<1>2. CASE pc[p] # "idle"
  <2>1. target[p] \in Quotes
    BY <1>2 DEF IInv, TypeOK, JobTypes, JobShapes, JobReady
  <2>2. MovesOn(target[p]) /\ Knows(p)
    BY <2>1 DEF IInv, Sound
  <2> QED
    BY <2>2 DEF Knows, MovesOn, Sent, jobVars
<1> QED
  BY <1>1, <1>2

LEMMA DirectSound ==
  ASSUME IInv, Direct
  PROVE  (\A q \in Quotes : Sound(q)) /\ UNCHANGED jobVars
<1>0. TypeOK
  BY DEF IInv
<1>1. PICK q \in Quotes : UpdateQuotePricing(q) \/ DeleteQuote(q) \/ DeleteBooking(q)
  BY DEF Direct
<1>2. CASE UpdateQuotePricing(q)
  BY <1>0, <1>2
  DEF UpdateQuotePricing, PricingEditable, TypeOK, QuoteTypes, Sound, MovesOn, BookingHasOrigin,
      HandedOver, InCustomersHands, bookingVars
<1>3. CASE DeleteQuote(q) \/ DeleteBooking(q)
  BY <1>0, <1>3, RemovalIsSound DEF DeleteQuote, DeleteBooking, RemoveQuote, quoteVars
<1> QED
  BY <1>1, <1>2, <1>3 DEF UpdateQuotePricing, DeleteQuote, DeleteBooking

LEMMA IInvStep == IInv /\ [Next]_vars => IInv'
<1> SUFFICES ASSUME IInv, [Next]_vars PROVE IInv'
  OBVIOUS
<1>0. TypeOK'
  BY TypeStep DEF IInv
<1>1. CASE \E p \in Procs : Transition(p) \/ SendStep(p) \/ BookingStep(p) \/ Request(p) \/ Failure(p)
  <2>1. PICK p \in Procs : Transition(p) \/ SendStep(p) \/ BookingStep(p) \/ Request(p) \/ Failure(p)
    BY <1>1
  <2>2. ASSUME Failure(p)
        PROVE  (\A q \in Quotes : Sound(q)) /\ OthersKeepTheirs(p) /\ Knows(p)'
    BY <2>2, FinishTypes, IdleKnows, UntouchedIsSound DEF Failure, Crash, ReleaseFails, IInv, quoteVars, bookingVars
  <2>3. (\A q \in Quotes : Sound(q)) /\ OthersKeepTheirs(p) /\ Knows(p)'
    BY <2>1, <2>2, TransitionSound, SendSound, BookingStepSound, RequestSound
  <2> QED
    BY <1>0, <2>3, SoundPreserves, KnowsPreserved DEF IInv
<1>2. CASE Direct \/ Tick \/ UNCHANGED vars
  <2>1. (\A q \in Quotes : Sound(q)) /\ UNCHANGED jobVars
    BY <1>2, DirectSound, UntouchedIsSound DEF Tick, vars, quoteVars, bookingVars
  <2> QED
    BY <1>0, <2>1, SoundPreserves, NoJobKnows DEF IInv
<1> QED
  BY <1>1, <1>2 DEF Next

LEMMA Invariant == Spec => []IInv
BY IInvInit, IInvStep, PTL DEF Spec

\* No quote is with its customer, and none is signed, without an e-mail that
\* carried a frozen price.
THEOREM NothingUnsentIsSignedHolds == Spec => []NothingUnsentIsSigned
<1>1. IInv => NothingUnsentIsSigned
  BY DEF IInv
<1> QED
  BY <1>1, Invariant, PTL

\* A booking's total is that of the stored pricing, however old the read was
\* that it was computed from.
THEOREM ChargedIsPricedHolds == Spec => []ChargedIsPriced
<1>1. IInv => ChargedIsPriced
  BY DEF IInv
<1> QED
  BY <1>1, Invariant, PTL

\* No second signature ever replaces the first.
THEOREM SignedOnceHolds == Spec => SignedOnce
<1>1. ASSUME TypeOK, [Next]_vars, NEW q \in Quotes, signer[q] # None
      PROVE  signer'[q] \in {signer[q], None}
  <2>1. CASE UNCHANGED signer
    BY <2>1
  <2>2. ASSUME NEW p \in Procs, SignQuote(p) PROVE signer'[q] = signer[q]
    BY <1>1, <2>2 DEF SignQuote, Signable, TypeOK, BookingTypes
  <2>3. ASSUME NEW r \in Quotes, signer' = [signer EXCEPT ![r] = None]
        PROVE  signer'[q] \in {signer[q], None}
    BY <2>3 DEF TypeOK, BookingTypes
  <2>4. ASSUME NEW p \in Procs, DeleteDraftQuote(p) PROVE signer'[q] \in {signer[q], None}
    <3>1. signer' = [signer EXCEPT ![target[p]] = None]
      BY <2>4 DEF DeleteDraftQuote, RemoveQuote
    <3> QED
      BY <1>1, <3>1 DEF TypeOK, BookingTypes
  <2>5. ASSUME Direct PROVE signer'[q] \in {signer[q], None}
    BY <1>1, <2>1, <2>3, <2>5
    DEF Direct, UpdateQuotePricing, DeleteQuote, DeleteBooking, RemoveQuote, bookingVars
  <2>6. ASSUME NEW p \in Procs, BookingStep(p) PROVE signer'[q] \in {signer[q], None}
    BY <2>1, <2>2, <2>4, <2>6
    DEF BookingStep, SigningRefused, LockBooking, BookingVanished, SaveTicketing, bookingVars
  <2>7. ASSUME NEW p \in Procs, SendStep(p) PROVE UNCHANGED signer
    BY <2>7
    DEF SendStep, ClaimSend, DuplicateSend, FreezeSnapshot, QuoteChangedWhileSending, MailQuote,
        MailFails, ReplyLost, ReleaseSend, ReadLead, AdvanceLead, bookingVars
  <2>8. ASSUME NEW p \in Procs, Transition(p) \/ Request(p) \/ Failure(p) PROVE UNCHANGED signer
    BY <2>8
    DEF Transition, ReadStatus, WriteStatus, QuoteVanished, Request, CustomerOpens, CustomerViews,
        CancelQuote, StartSend, StartSign, StartDeleteDraft, StartTicketing, Failure, Crash, ReleaseFails, bookingVars
  <2>9. ASSUME Tick \/ UNCHANGED vars PROVE UNCHANGED signer
    BY <2>9 DEF Tick, vars, bookingVars
  <2> QED
    BY <1>1, <2>1, <2>5, <2>6, <2>7, <2>8, <2>9 DEF Next
<1>2. TypeOK /\ [Next]_vars =>
        [\A q \in Quotes : signer[q] # None => signer'[q] \in {signer[q], None}]_vars
  BY <1>1
<1> QED
  BY <1>2, TypeCorrect, PTL DEF Spec, SignedOnce

=============================================================================

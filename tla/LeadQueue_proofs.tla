------------------------- MODULE LeadQueue_proofs -------------------------
(* Theorems about the lead queue, for any sets of workers, leads, contacts *)
(* and concurrent invocations, any offer window and any clock bound, and   *)
(* about the tabs of a browser that follow its offers.                     *)
EXTENDS MCLeadQueue, TLAPS, SequenceTheorems, FiniteSetTheorems, WellFoundedInduction

LEMMA TypeInit == Init => TypeOK
BY ConstantsAssumption
DEF Init, TypeOK, LeadTypes, QueueTypes, CallTypes, TxTypes,
    NeverServed, AccountStates, Labels, Unordered

-----------------------------------------------------------------------------
(* What the shared pieces of the actions do to the types. *)

LEMMA StartTypes ==
  ASSUME TypeOK, NEW p \in Procs, NEW l \in Leads, NEW w \in Workers \cup {None},
         NEW label \in Labels, NEW t \in Nat, t <= now,
         label \notin {"idle", "offer", "lock"} => w \in Workers,
         Start(p, label, l, w, t), UNCHANGED now
  PROVE  CallTypes'
BY DEF TypeOK, CallTypes, Start

LEMMA GotoTypes ==
  ASSUME TypeOK, NEW p \in Procs, NEW label \in Labels, pc[p] # "idle",
         label \notin {"idle", "offer", "lock"} => who[p] \in Workers,
         Goto(p, label), UNCHANGED <<callVars, now>>
  PROVE  CallTypes'
BY DEF TypeOK, CallTypes, Goto, callVars

LEMMA FinishTypes ==
  ASSUME TypeOK, NEW p \in Procs, Finish(p), UNCHANGED now
  PROVE  CallTypes' /\ TxTypes'
<1>1. CallTypes'
  BY DEF TypeOK, QueueTypes, CallTypes, Finish, Goto, Labels
<1>2. TxTypes'
  BY DEF TypeOK, TxTypes, Finish, Unordered
<1> QED
  BY <1>1, <1>2

LEMMA ClearTypes ==
  ASSUME LeadTypes, NEW l \in Leads, ClearOffer(l),
         assigned' \in [Leads -> Workers \cup {None}], distributed' \subseteq Leads
  PROVE  LeadTypes'
BY DEF LeadTypes, ClearOffer

LEMMA ReleaseTypes ==
  ASSUME TypeOK, NEW p \in Procs
  PROVE  Release(p) \in [Workers -> Procs \cup {None}]
BY DEF TypeOK, QueueTypes, Release

\* What a step leaves alone keeps its types.
LEMMA UnchangedTypes ==
  ASSUME TypeOK
  PROVE  /\ UNCHANGED leadVars => LeadTypes'
         /\ UNCHANGED <<contactVars, queueVars, lock, world>> => QueueTypes'
         /\ UNCHANGED <<pc, callVars, now>> => CallTypes'
         /\ UNCHANGED txVars => TxTypes'
BY DEF TypeOK, LeadTypes, QueueTypes, CallTypes, TxTypes,
       leadVars, queueVars, contactVars, joinVars, world, callVars, txVars

-----------------------------------------------------------------------------
LEMMA RequestTypes ==
  ASSUME TypeOK, NEW p \in Procs, Request(p)
  PROVE  TypeOK'
<1> USE ConstantsAssumption, UnchangedTypes
<1>0. now \in Nat /\ now <= now
  BY DEF TypeOK, QueueTypes
<1>1. ASSUME NEW w \in Workers, NEW l \in Leads, StartAccept(p, w, l) PROVE TypeOK'
  BY <1>0, <1>1, StartTypes DEF StartAccept, Labels, world, contactVars, joinVars, TypeOK
<1>2. ASSUME NEW w \in Workers, NEW l \in Leads, StartSkip(p, w, l) PROVE TypeOK'
  BY <1>0, <1>2, StartTypes DEF StartSkip, Labels, world, contactVars, joinVars, TypeOK
<1>3. ASSUME NEW l \in Leads, SweepExpiredOffer(p, l) PROVE TypeOK'
  <2>1. offeredTo[l] \in Workers
    BY <1>3 DEF SweepExpiredOffer, TypeOK, LeadTypes
  <2> QED
    BY <1>0, <1>3, <2>1, StartTypes DEF SweepExpiredOffer, Labels, world, contactVars, joinVars, TypeOK
<1>4. ASSUME NEW l \in Leads, StartDistribute(p, l) PROVE TypeOK'
  <2>1. TxTypes'
    BY <1>4 DEF StartDistribute, TypeOK, TxTypes
  <2> QED
    BY <1>0, <1>4, <2>1, StartTypes DEF StartDistribute, Labels, world, contactVars, joinVars, TypeOK
<1> QED
  BY <1>1, <1>2, <1>3, <1>4 DEF Request

LEMMA AcceptTypes ==
  ASSUME TypeOK, NEW p \in Procs, AcceptStep(p)
  PROVE  TypeOK'
<1> USE ConstantsAssumption, UnchangedTypes
<1>1. CASE AcceptLeadOffer(p)
  <2>1. target[p] \in Leads /\ who[p] \in Workers
    BY <1>1 DEF AcceptLeadOffer, TypeOK, CallTypes
  <2>2. LeadTypes'
    BY <1>1, <2>1, ClearTypes DEF AcceptLeadOffer, TypeOK, LeadTypes
  <2>3. CallTypes'
    BY <1>1, <2>1, GotoTypes DEF AcceptLeadOffer, Labels, world, contactVars, joinVars
  <2> QED
    BY <1>1, <2>2, <2>3 DEF AcceptLeadOffer, TypeOK
<1>2. CASE OfferNoLongerAvailable(p)
  BY <1>2, FinishTypes DEF OfferNoLongerAvailable, TypeOK, world, contactVars, joinVars
<1>3. CASE ClaimContact(p)
  <2>1. target[p] \in Leads /\ who[p] \in Workers
    BY <1>3 DEF ClaimContact, TypeOK, CallTypes
  <2>2. QueueTypes'
    BY <1>3, <2>1 DEF ClaimContact, TypeOK, QueueTypes, queueVars, contactVars, joinVars, world
  <2>3. CallTypes'
    BY <1>3, <2>1, GotoTypes DEF ClaimContact, Labels, world, contactVars, joinVars
  <2> QED
    BY <1>3, <2>2, <2>3 DEF ClaimContact, TypeOK
<1>4. CASE RecordServed(p)
  <2>1. at[p] \in Nat
    BY DEF TypeOK, CallTypes
  <2>2. lastAssigned' \in [Workers -> Int]
    <3>1. at[p] \in Int /\ lastAssigned \in [Workers -> Int]
      BY <2>1 DEF TypeOK, QueueTypes
    <3>2. lastAssigned' = [lastAssigned EXCEPT ![who[p]] = at[p]]
      BY <1>4 DEF RecordServed
    <3> QED
      BY <3>1, <3>2
  <2>3. QueueTypes'
    BY <1>4, <2>2 DEF RecordServed, TypeOK, QueueTypes, world, contactVars, joinVars
  <2> QED
    BY <1>4, <2>3, FinishTypes DEF RecordServed, TypeOK, world, contactVars, joinVars
<1> QED
  BY <1>1, <1>2, <1>3, <1>4 DEF AcceptStep

LEMMA ReleaseStepTypes ==
  ASSUME TypeOK, NEW p \in Procs, ReleaseStep(p)
  PROVE  TypeOK'
<1> USE ConstantsAssumption, UnchangedTypes
<1>1. CASE ReleaseOffer(p)
  <2>1. target[p] \in Leads /\ who[p] \in Workers
    BY <1>1 DEF ReleaseOffer, TypeOK, CallTypes
  <2>2. LeadTypes'
    BY <1>1, <2>1, ClearTypes DEF ReleaseOffer, TypeOK, LeadTypes
  <2>3. CallTypes'
    BY <1>1, <2>1 DEF ReleaseOffer, Goto, TypeOK, CallTypes, QueueTypes, Labels, world, contactVars, joinVars
  <2>4. TxTypes' /\ QueueTypes'
    BY <1>1 DEF ReleaseOffer
  <2> QED
    BY <2>2, <2>3, <2>4 DEF TypeOK
<1>2. CASE OfferAlreadyResolved(p)
  BY <1>2, FinishTypes DEF OfferAlreadyResolved, TypeOK, world, contactVars, joinVars
<1>3. CASE PauseWorker(p)
  <2>1. who[p] \in Workers /\ at[p] \in Nat
    BY <1>3 DEF PauseWorker, TypeOK, CallTypes
  <2>2. QueueTypes'
    BY <1>3, <2>1 DEF PauseWorker, TypeOK, QueueTypes, world, contactVars, joinVars
  <2>3. CallTypes'
    BY <1>3 DEF PauseWorker, Goto, TypeOK, CallTypes, QueueTypes, Labels, world, contactVars, joinVars
  <2>4. TxTypes'
    BY <1>3 DEF PauseWorker, TypeOK, TxTypes
  <2> QED
    BY <1>3, <2>2, <2>3, <2>4 DEF PauseWorker, TypeOK
<1> QED
  BY <1>1, <1>2, <1>3 DEF ReleaseStep

LEMMA OfferTypes ==
  ASSUME TypeOK, NEW p \in Procs, OfferStep(p)
  PROVE  TypeOK'
<1> USE ConstantsAssumption, UnchangedTypes
<1>1. CASE BeginOffer(p)
  <2>1. CallTypes'
    BY <1>1 DEF BeginOffer, Goto, TypeOK, CallTypes, QueueTypes, Labels, world, contactVars, joinVars
  <2>2. TxTypes'
    BY <1>1 DEF BeginOffer, CandidateWorkers, TypeOK, TxTypes, QueueTypes
  <2> QED
    BY <1>1, <2>1, <2>2 DEF BeginOffer, TypeOK
<1>2. ASSUME NEW w \in Workers, LockCandidate(p, w) PROVE TypeOK'
  <2>1. CallTypes'
    BY <1>2 DEF LockCandidate, Goto, TypeOK, CallTypes, Labels, world, contactVars, joinVars
  <2>2. QueueTypes'
    BY <1>2 DEF LockCandidate, TypeOK, QueueTypes, queueVars, contactVars, joinVars, world
  <2> QED
    BY <1>2, <2>1, <2>2 DEF LockCandidate, TypeOK
<1>3. ASSUME NEW w \in Workers, SkipLockedCandidate(p, w) PROVE TypeOK'
  <2>1. TxTypes'
    BY <1>3 DEF SkipLockedCandidate, TypeOK, TxTypes
  <2>2. CallTypes'
    BY <1>3 DEF SkipLockedCandidate, world, contactVars, joinVars
  <2> QED
    BY <1>3, <2>1, <2>2 DEF SkipLockedCandidate, TypeOK
<1>4. CASE CheckCandidate(p)
  <2>1. CallTypes' /\ TxTypes'
    <3>1. TxTypes'
      BY <1>4 DEF CheckCandidate, TypeOK, TxTypes
    <3>2. who[p] \in Workers
      BY <1>4 DEF CheckCandidate, TypeOK, CallTypes
    <3>3. CallTypes'
      <4>1. CASE HoldsLiveOffer(p)
        BY <1>4, <4>1, <3>2, GotoTypes DEF CheckCandidate, Labels, world, contactVars, joinVars
      <4>2. CASE ~HoldsLiveOffer(p)
        BY <1>4, <4>2, <3>2, GotoTypes DEF CheckCandidate, Labels, world, contactVars, joinVars
      <4> QED
        BY <4>1, <4>2
    <3> QED
      BY <3>1, <3>3
  <2> QED
    BY <1>4, <2>1 DEF CheckCandidate, TypeOK
<1>5. CASE PlaceOffer(p)
  <2>1. target[p] \in Leads /\ who[p] \in Workers /\ at[p] \in Nat
    BY <1>5 DEF PlaceOffer, TypeOK, CallTypes
  <2>2. at[p] + OfferWindow \in Nat \ {0}
    BY <2>1
  <2>3. LeadTypes'
    BY <1>5, <2>1, <2>2 DEF PlaceOffer, TypeOK, LeadTypes
  <2>4. QueueTypes'
    BY <1>5, ReleaseTypes DEF PlaceOffer, TypeOK, QueueTypes, queueVars, contactVars, joinVars, world
  <2> QED
    BY <1>5, <2>3, <2>4, FinishTypes DEF PlaceOffer, TypeOK, world, contactVars, joinVars
<1>6. CASE AlreadyAssigned(p)
  <2>1. QueueTypes'
    BY <1>6, ReleaseTypes DEF AlreadyAssigned, TypeOK, QueueTypes, queueVars, contactVars, joinVars, world
  <2> QED
    BY <1>6, <2>1, FinishTypes DEF AlreadyAssigned, TypeOK, world, contactVars, joinVars
<1>7. CASE NobodyAvailable(p)
  <2>1. QueueTypes'
    BY <1>7, ReleaseTypes DEF NobodyAvailable, TypeOK, QueueTypes, queueVars, contactVars, joinVars, world
  <2>2. CASE skipped[p] # {} /\ left[p] > 1
    <3>1. CallTypes'
      BY <1>7, <2>2, GotoTypes DEF NobodyAvailable, Labels, world, contactVars, joinVars
    <3>2. left' = [left EXCEPT ![p] = left[p] - 1] /\ left[p] - 1 \in Nat
      BY <1>7, <2>2 DEF NobodyAvailable, TypeOK, TxTypes
    <3>3. TxTypes'
      BY <1>7, <2>2, <3>2 DEF NobodyAvailable, TypeOK, TxTypes
    <3> QED
      BY <1>7, <2>1, <2>2, <3>1, <3>3 DEF NobodyAvailable, TypeOK
  <2>3. CASE ~(skipped[p] # {} /\ left[p] > 1)
    BY <1>7, <2>1, <2>3, FinishTypes DEF NobodyAvailable, TypeOK, world, contactVars, joinVars
  <2> QED
    BY <2>2, <2>3
<1> QED
  BY <1>1, <1>2, <1>3, <1>4, <1>5, <1>6, <1>7 DEF OfferStep

LEMMA OfficeTypes ==
  ASSUME TypeOK, Office
  PROVE  TypeOK'
<1> USE ConstantsAssumption, UnchangedTypes DEF jobVars
<1>1. ASSUME NEW w \in Workers, JoinLeadQueue(w) \/ TurnOnQueueRow(w) \/ LeaveLeadQueue(w) PROVE TypeOK'
  <2>1. QueueTypes'
    <3> USE DEF TypeOK, QueueTypes, queueVars, contactVars, joinVars, world
    <3>1. CASE JoinLeadQueue(w)
      BY <3>1 DEF JoinLeadQueue
    <3>2. CASE TurnOnQueueRow(w)
      BY <3>2 DEF TurnOnQueueRow
    <3>3. CASE LeaveLeadQueue(w)
      BY <3>3 DEF LeaveLeadQueue
    <3> QED
      BY <1>1, <3>1, <3>2, <3>3
  <2> QED
    BY <1>1, <2>1 DEF JoinLeadQueue, TurnOnQueueRow, LeaveLeadQueue, TypeOK, world, contactVars, joinVars
<1>2. ASSUME NEW w \in Workers, NEW s \in AccountStates, SetAccount(w, s) PROVE TypeOK'
  <2>1. QueueTypes'
    BY <1>2 DEF SetAccount, TypeOK, QueueTypes, contactVars
  <2> QED
    BY <1>2, <2>1 DEF SetAccount, TypeOK
<1>3. ASSUME NEW l \in Leads, UnassignLead(l) PROVE TypeOK'
  <2>1. LeadTypes'
    BY <1>3 DEF UnassignLead, TypeOK, LeadTypes
  <2>2. QueueTypes'
    BY <1>3 DEF UnassignLead, TypeOK, QueueTypes, queueVars, contactVars, joinVars, world
  <2> QED
    BY <1>3, <2>1, <2>2 DEF UnassignLead, TypeOK, world
<1>4. ASSUME NEW l \in Leads, NEW w \in Workers, ReassignLead(l, w) PROVE TypeOK'
  <2>1. LeadTypes'
    BY <1>4, ClearTypes DEF ReassignLead, TypeOK, LeadTypes
  <2> QED
    BY <1>4, <2>1 DEF ReassignLead, TypeOK, world, contactVars, joinVars
<1> QED
  BY <1>1, <1>2, <1>3, <1>4 DEF Office

LEMMA TypeNext == TypeOK /\ [Next]_vars => TypeOK'
<1> SUFFICES ASSUME TypeOK, [Next]_vars PROVE TypeOK'
  OBVIOUS
<1>1. ASSUME NEW p \in Procs, Crash(p) PROVE TypeOK'
  <2>1. QueueTypes'
    BY <1>1, ReleaseTypes DEF Crash, TypeOK, QueueTypes, CallTypes, queueVars, contactVars, joinVars, world
  <2> QED
    BY <1>1, <2>1, UnchangedTypes, FinishTypes DEF Crash, TypeOK, world, contactVars, joinVars
<1>2. CASE Tick
  <2>1. QueueTypes'
    BY <1>2 DEF Tick, TypeOK, QueueTypes, queueVars, contactVars, joinVars
  <2>2. CallTypes'
    BY <1>2 DEF Tick, TypeOK, QueueTypes, CallTypes, jobVars, callVars
  <2> QED
    BY <1>2, <2>1, <2>2, UnchangedTypes DEF Tick, TypeOK, jobVars
<1>3. CASE UNCHANGED vars
  BY <1>3, UnchangedTypes DEF vars, TypeOK, jobVars, world, contactVars, joinVars
<1> QED
  BY <1>1, <1>2, <1>3, RequestTypes, AcceptTypes, ReleaseStepTypes, OfferTypes, OfficeTypes
  DEF Next, JobStep

\* Every column and local variable keeps its type, the offer columns are set
\* and cleared together, and a running invocation knows what it works on.
THEOREM TypeCorrect == Spec => []TypeOK
BY TypeInit, TypeNext, PTL DEF Spec

-----------------------------------------------------------------------------
(* Safety and refinement, by one inductive invariant. *)

\* The transaction that looks at a candidate, or is about to write the offer,
\* holds the lock on the candidate's queue row; the row is active, which
\* nobody can change while it is locked.
CandidateIsLocked ==
  \A p \in Procs : pc[p] \in {"check", "claim"} =>
    lock[who[p]] = p /\ who[p] \in active

\* What CheckCandidate found still holds when the offer is written: only the
\* holder of the row lock could have given the worker another live offer.
CandidateIsFree ==
  \A p \in Procs : pc[p] = "claim" =>
    \A l \in Leads \ {target[p]} : offeredTo[l] = who[p] => expires[l] <= at[p]

\* Candidates are workers of the lead's company, from the list to the offer.
CandidatesAreColleagues ==
  \A p \in Procs :
    /\ pc[p] \notin {"lock", "check"} => cand[p] = {}
    /\ \A w \in cand[p] : WorkerCompany[w] = LeadCompany[target[p]]
    /\ pc[p] \in {"check", "claim"} => WorkerCompany[who[p]] = LeadCompany[target[p]]

\* Removing an account also pauses its queue row, until a join that crossed it.
RemovedIsPaused == \A w \in active : Session(w) \/ Reinstated(w)

IInv ==
  /\ TypeOK
  /\ LocksAreHeldByTransactions
  /\ CandidateIsLocked
  /\ CandidateIsFree
  /\ CandidatesAreColleagues
  /\ RemovedIsPaused
  /\ OneLiveOffer
  /\ AssignedHasNoOffer
  /\ OfferedWithinCompany

LEMMA InitIInv == Init => IInv
<1> SUFFICES ASSUME Init PROVE IInv
  OBVIOUS
<1>1. TypeOK
  BY TypeInit
<1>2. LocksAreHeldByTransactions /\ CandidateIsLocked /\ RemovedIsPaused
  BY ConstantsAssumption DEF Init, LocksAreHeldByTransactions, CandidateIsLocked, RemovedIsPaused, Session
<1>3. CandidateIsFree /\ CandidatesAreColleagues
  BY DEF Init, CandidateIsFree, CandidatesAreColleagues
<1>4. OneLiveOffer /\ AssignedHasNoOffer /\ OfferedWithinCompany
  BY ConstantsAssumption DEF Init, OneLiveOffer, Live, AssignedHasNoOffer, OfferedWithinCompany
<1> QED
  BY <1>1, <1>2, <1>3, <1>4 DEF IInv

-----------------------------------------------------------------------------
(* Which steps touch what. *)

\* A step of one invocation leaves the others' local variables alone.
LEMMA OthersKeepTheirLocals ==
  ASSUME TypeOK, NEW p \in Procs, JobStep(p) \/ Request(p) \/ Crash(p),
         NEW q \in Procs \ {p}
  PROVE  /\ pc'[q] = pc[q] /\ target'[q] = target[q] /\ who'[q] = who[q]
         /\ at'[q] = at[q] /\ cand'[q] = cand[q]
<1> USE DEF TypeOK, CallTypes, TxTypes, Start, Goto, Finish, jobVars, callVars, txVars
<1>1. CASE Request(p)
  BY <1>1 DEF Request, StartAccept, StartSkip, SweepExpiredOffer, StartDistribute
<1>2. CASE AcceptStep(p)
  BY <1>2 DEF AcceptStep, AcceptLeadOffer, OfferNoLongerAvailable, ClaimContact, RecordServed
<1>3. CASE ReleaseStep(p)
  BY <1>3 DEF ReleaseStep, ReleaseOffer, OfferAlreadyResolved, PauseWorker
<1>4. CASE OfferStep(p)
  BY <1>4 DEF OfferStep, BeginOffer, LockCandidate, SkipLockedCandidate, CheckCandidate,
              PlaceOffer, AlreadyAssigned, NobodyAvailable
<1>5. CASE Crash(p)
  BY <1>5 DEF Crash
<1> QED
  BY <1>1, <1>2, <1>3, <1>4, <1>5 DEF JobStep

\* Outside the offer transaction no lock is taken or released, a locked queue
\* row stays active, and no invocation enters or leaves the transaction past
\* its first read.
LEMMA OutsideTheTransaction ==
  ASSUME IInv, NEW p \in Procs, Request(p) \/ AcceptStep(p) \/ ReleaseStep(p)
  PROVE  /\ lock' = lock /\ account' = account /\ rejoined' = rejoined /\ now' = now
         /\ \A w \in Workers : lock[w] # None => (w \in active' <=> w \in active)
         /\ active' \subseteq active
         /\ {pc[p], pc'[p]} \cap {"lock", "check", "claim"} = {}
         /\ cand' = cand \/ cand'[p] = {}
<1> USE DEF IInv, TypeOK, CallTypes, TxTypes, QueueTypes, Start, Goto, Finish, Labels,
            queueVars, contactVars, joinVars, world, txVars, Unlocked
<1>1. CASE Request(p)
  BY <1>1 DEF Request, StartAccept, StartSkip, SweepExpiredOffer, StartDistribute
<1>2. CASE AcceptStep(p)
  BY <1>2 DEF AcceptStep, AcceptLeadOffer, OfferNoLongerAvailable, ClaimContact, RecordServed
<1>3. CASE ReleaseStep(p)
  BY <1>3 DEF ReleaseStep, ReleaseOffer, OfferAlreadyResolved, PauseWorker
<1> QED
  BY <1>1, <1>2, <1>3

\* Nothing an office handler or the clock does reaches into a transaction.
LEMMA OfficeKeepsTransactions ==
  ASSUME TypeOK, Office \/ Tick
  PROVE  /\ UNCHANGED jobVars /\ lock' = lock
         /\ \A w \in Workers : lock[w] # None => (w \in active' <=> w \in active)
BY DEF Office, JoinLeadQueue, TurnOnQueueRow, LeaveLeadQueue, SetAccount, UnassignLead, ReassignLead, Tick,
       TypeOK, QueueTypes, queueVars, contactVars, joinVars, Unlocked

-----------------------------------------------------------------------------
(* The row lock. *)

LEMMA LockingNext ==
  ASSUME IInv, [Next]_vars
  PROVE  (LocksAreHeldByTransactions /\ CandidateIsLocked)'
<1> DEFINE J == LocksAreHeldByTransactions /\ CandidateIsLocked
<1>0. TypeOK /\ TypeOK' /\ J
  BY TypeNext DEF IInv
<1> USE ConstantsAssumption
<1> USE DEF LocksAreHeldByTransactions, CandidateIsLocked
<1>1. ASSUME NEW p \in Procs, Request(p) \/ AcceptStep(p) \/ ReleaseStep(p) PROVE J'
  <2>1. \A q \in Procs \ {p} : pc'[q] = pc[q] /\ who'[q] = who[q]
    BY <1>0, <1>1, OthersKeepTheirLocals DEF JobStep
  <2>2. /\ lock' = lock /\ \A w \in Workers : lock[w] # None => (w \in active' <=> w \in active)
        /\ pc[p] \notin {"lock", "check", "claim"} /\ pc'[p] \notin {"lock", "check", "claim"}
    BY <1>1, OutsideTheTransaction
  <2>3. LocksAreHeldByTransactions'
    BY <1>0, <2>1, <2>2 DEF TypeOK, QueueTypes
  <2>4. CandidateIsLocked'
    BY <1>0, <2>1, <2>2 DEF TypeOK, CallTypes, QueueTypes
  <2> QED
    BY <2>3, <2>4
<1>2. ASSUME NEW p \in Procs, OfferStep(p) PROVE J'
  <2>1. \A q \in Procs \ {p} : pc'[q] = pc[q] /\ who'[q] = who[q]
    BY <1>0, <1>2, OthersKeepTheirLocals DEF JobStep
  <2> USE DEF TypeOK, CallTypes, QueueTypes, Goto, queueVars, contactVars, joinVars, callVars, world
  <2>2. CASE BeginOffer(p)
    BY <1>0, <2>1, <2>2 DEF BeginOffer
  <2>3. ASSUME NEW w \in Workers, LockCandidate(p, w) PROVE J'
    BY <1>0, <2>1, <2>3 DEF LockCandidate, Lockable, Unlocked
  <2>4. ASSUME NEW w \in Workers, SkipLockedCandidate(p, w) PROVE J'
    BY <1>0, <2>1, <2>4 DEF SkipLockedCandidate
  <2>5. CASE CheckCandidate(p)
    BY <1>0, <2>1, <2>5 DEF CheckCandidate
  <2>6. CASE PlaceOffer(p) \/ AlreadyAssigned(p) \/ NobodyAvailable(p)
    <3>1. lock' = Release(p) /\ pc'[p] \in {"idle", "offer"} /\ active' = active
      BY <1>0, <2>6 DEF PlaceOffer, AlreadyAssigned, NobodyAvailable, Finish
    <3> QED
      BY <1>0, <2>1, <3>1 DEF Release
  <2> QED
    BY <1>2, <2>2, <2>3, <2>4, <2>5, <2>6 DEF OfferStep
<1>3. CASE Office \/ Tick
  BY <1>0, <1>3, OfficeKeepsTransactions DEF jobVars, callVars, TypeOK, CallTypes, QueueTypes
<1>4. ASSUME NEW p \in Procs, Crash(p) PROVE J'
  <2>1. lock' = Release(p) /\ pc'[p] = "idle" /\ active' = active
    BY <1>0, <1>4 DEF Crash, Finish, Goto, TypeOK, CallTypes, queueVars, contactVars, joinVars
  <2> QED
    BY <1>0, <1>4, <2>1, OthersKeepTheirLocals DEF Release, TypeOK, CallTypes, QueueTypes
<1>5. CASE UNCHANGED vars
  BY <1>0, <1>5 DEF vars, jobVars, callVars, queueVars, contactVars, joinVars
<1> QED
  BY <1>1, <1>2, <1>3, <1>4, <1>5 DEF Next, JobStep

LEMMA RemovedIsPausedNext ==
  ASSUME IInv, [Next]_vars
  PROVE  RemovedIsPaused'
<1> USE DEF IInv, RemovedIsPaused, Session, Reinstated, joinVars
<1>1. ASSUME NEW p \in Procs, Request(p) \/ AcceptStep(p) \/ ReleaseStep(p) PROVE RemovedIsPaused'
  BY <1>1, OutsideTheTransaction
<1>2. ASSUME NEW p \in Procs, OfferStep(p) \/ Crash(p) PROVE RemovedIsPaused'
  BY <1>2 DEF OfferStep, BeginOffer, LockCandidate, SkipLockedCandidate, CheckCandidate,
              PlaceOffer, AlreadyAssigned, NobodyAvailable, Crash, queueVars, contactVars, joinVars, world
<1>3. CASE Office
  BY <1>3 DEF Office, JoinLeadQueue, TurnOnQueueRow, LeaveLeadQueue, SetAccount, UnassignLead, ReassignLead,
              TypeOK, QueueTypes, queueVars, contactVars, joinVars, world
<1>4. CASE Tick \/ UNCHANGED vars
  BY <1>4 DEF Tick, vars, queueVars, contactVars, joinVars, world
<1> QED
  BY <1>1, <1>2, <1>3, <1>4 DEF Next, JobStep

-----------------------------------------------------------------------------
(* The candidates. *)

LEMMA ColleaguesNext ==
  ASSUME IInv, [Next]_vars
  PROVE  CandidatesAreColleagues'
<1>0. TypeOK /\ CandidatesAreColleagues
  BY DEF IInv
<1> USE DEF CandidatesAreColleagues
<1>1. ASSUME NEW p \in Procs, Request(p) \/ AcceptStep(p) \/ ReleaseStep(p)
      PROVE CandidatesAreColleagues'
  <2>1. \A q \in Procs \ {p} : /\ pc'[q] = pc[q] /\ who'[q] = who[q]
                               /\ target'[q] = target[q] /\ cand'[q] = cand[q]
    BY <1>0, <1>1, OthersKeepTheirLocals DEF JobStep
  <2>2. /\ pc[p] \notin {"lock", "check", "claim"} /\ pc'[p] \notin {"lock", "check", "claim"}
        /\ cand'[p] = cand[p] \/ cand'[p] = {}
    BY <1>1, OutsideTheTransaction
  <2> QED
    BY <1>0, <2>1, <2>2
<1>2. ASSUME NEW p \in Procs, OfferStep(p) PROVE CandidatesAreColleagues'
  <2>1. \A q \in Procs \ {p} : /\ pc'[q] = pc[q] /\ who'[q] = who[q]
                               /\ target'[q] = target[q] /\ cand'[q] = cand[q]
    BY <1>0, <1>2, OthersKeepTheirLocals DEF JobStep
  <2> USE DEF TypeOK, CallTypes, TxTypes, Goto, callVars, txVars
  <2>2. CASE BeginOffer(p)
    BY <1>0, <2>1, <2>2 DEF BeginOffer, CandidateWorkers
  <2>3. ASSUME NEW w \in Workers, LockCandidate(p, w) PROVE CandidatesAreColleagues'
    BY <1>0, <2>1, <2>3 DEF LockCandidate, NextCandidate
  <2>4. ASSUME NEW w \in Workers, SkipLockedCandidate(p, w) PROVE CandidatesAreColleagues'
    BY <1>0, <2>1, <2>4 DEF SkipLockedCandidate
  <2>5. CASE CheckCandidate(p)
    BY <1>0, <2>1, <2>5 DEF CheckCandidate
  <2>6. CASE PlaceOffer(p) \/ AlreadyAssigned(p)
    BY <1>0, <2>1, <2>6 DEF PlaceOffer, AlreadyAssigned, Finish
  <2>7. CASE NobodyAvailable(p)
    BY <1>0, <2>1, <2>7 DEF NobodyAvailable, Finish
  <2> QED
    BY <1>2, <2>2, <2>3, <2>4, <2>5, <2>6, <2>7 DEF OfferStep
<1>3. CASE Office \/ Tick \/ UNCHANGED vars
  <2>1. UNCHANGED jobVars
    BY <1>0, <1>3, OfficeKeepsTransactions DEF vars
  <2> QED
    BY <1>0, <2>1 DEF jobVars, callVars, txVars
<1>4. ASSUME NEW p \in Procs, Crash(p) PROVE CandidatesAreColleagues'
  <2>1. \A q \in Procs \ {p} : /\ pc'[q] = pc[q] /\ who'[q] = who[q]
                               /\ target'[q] = target[q] /\ cand'[q] = cand[q]
    BY <1>0, <1>4, OthersKeepTheirLocals
  <2>2. pc'[p] = "idle" /\ cand'[p] = {}
    BY <1>0, <1>4 DEF Crash, Finish, Goto, TypeOK, CallTypes, TxTypes
  <2> QED
    BY <1>0, <2>1, <2>2
<1> QED
  BY <1>1, <1>2, <1>3, <1>4 DEF Next, JobStep

-----------------------------------------------------------------------------
(* The offers. *)

\* Whatever is not PlaceOffer leaves an offer as it is or takes it away, and
\* the clock never goes back.
LEMMA OnlyPlaceOfferOffers ==
  ASSUME TypeOK, [Next]_vars, ~ \E p \in Procs : PlaceOffer(p)
  PROVE  /\ now' >= now
         /\ \A l \in Leads :
              \/ offeredTo'[l] = None
              \/ offeredTo'[l] = offeredTo[l] /\ expires'[l] = expires[l]
<1> USE DEF TypeOK, LeadTypes, QueueTypes, leadVars, world, contactVars, joinVars, ClearOffer
<1>1. ASSUME NEW p \in Procs, Request(p) PROVE UNCHANGED <<leadVars, now>>
  BY <1>1 DEF Request, StartAccept, StartSkip, SweepExpiredOffer, StartDistribute
<1>2. ASSUME NEW p \in Procs, AcceptStep(p)
      PROVE now' = now /\ \/ UNCHANGED leadVars
                          \/ target[p] \in Leads /\ ClearOffer(target[p])
  BY <1>2 DEF AcceptStep, AcceptLeadOffer, OfferNoLongerAvailable, ClaimContact, RecordServed,
              CallTypes
<1>3. ASSUME NEW p \in Procs, ReleaseStep(p)
      PROVE now' = now /\ \/ UNCHANGED leadVars
                          \/ target[p] \in Leads /\ ClearOffer(target[p])
  BY <1>3 DEF ReleaseStep, ReleaseOffer, OfferAlreadyResolved, PauseWorker, CallTypes
<1>4. ASSUME NEW p \in Procs, OfferStep(p) \/ Crash(p) PROVE UNCHANGED <<leadVars, now>>
  BY <1>4 DEF OfferStep, BeginOffer, LockCandidate, SkipLockedCandidate, CheckCandidate,
              AlreadyAssigned, NobodyAvailable, Crash
<1>5. ASSUME Office
      PROVE now' = now /\ \/ UNCHANGED <<offeredTo, expires>>
                          \/ \E l \in Leads : ClearOffer(l)
  BY <1>5 DEF Office, JoinLeadQueue, TurnOnQueueRow, LeaveLeadQueue, SetAccount, UnassignLead, ReassignLead
<1>6. CASE Tick \/ UNCHANGED vars
  BY <1>6 DEF Tick, vars
<1>7. ASSUME NEW p \in Procs, JobStep(p) \/ Request(p) \/ Crash(p)
      PROVE now' = now /\ \/ UNCHANGED leadVars
                          \/ \E l \in Leads : ClearOffer(l)
  BY <1>1, <1>2, <1>3, <1>4, <1>7 DEF JobStep
<1> QED
  BY <1>5, <1>6, <1>7 DEF Next

\* An invocation about to write an offer was about to write it before, or has
\* just found its candidate free.
LEMMA HowClaimIsReached ==
  ASSUME TypeOK, [Next]_vars, NEW p \in Procs, pc'[p] = "claim"
  PROVE  /\ target'[p] = target[p] /\ who'[p] = who[p] /\ at'[p] = at[p]
         /\ \/ pc[p] = "claim"
            \/ CheckCandidate(p) /\ ~HoldsLiveOffer(p)
<1> USE DEF TypeOK, CallTypes, Start, Goto, Finish
<1>1. ASSUME NEW q \in Procs \ {p}, JobStep(q) \/ Request(q) \/ Crash(q)
      PROVE target'[p] = target[p] /\ who'[p] = who[p] /\ at'[p] = at[p] /\ pc'[p] = pc[p]
  BY <1>1, OthersKeepTheirLocals
<1>2. CASE CheckCandidate(p)
  BY <1>2 DEF CheckCandidate, callVars
<1>3. ASSUME JobStep(p) \/ Request(p) \/ Crash(p), ~CheckCandidate(p) PROVE FALSE
  <2>1. ~(Request(p) \/ AcceptStep(p) \/ ReleaseStep(p))
    BY DEF Request, StartAccept, StartSkip, SweepExpiredOffer, StartDistribute,
           AcceptStep, AcceptLeadOffer, OfferNoLongerAvailable, ClaimContact, RecordServed,
           ReleaseStep, ReleaseOffer, OfferAlreadyResolved, PauseWorker
  <2>2. ~(OfferStep(p) \/ Crash(p))
    BY <1>3 DEF OfferStep, BeginOffer, LockCandidate, SkipLockedCandidate,
                PlaceOffer, AlreadyAssigned, NobodyAvailable, Crash
  <2> QED
    BY <1>3, <2>1, <2>2 DEF JobStep
<1>4. CASE Office \/ Tick \/ UNCHANGED vars
  BY <1>4, OfficeKeepsTransactions DEF vars, jobVars, callVars
<1> QED
  BY <1>1, <1>2, <1>3, <1>4 DEF Next

\* What the writer of an offer knows.
LEMMA WriterKnows ==
  ASSUME IInv, NEW p \in Procs, PlaceOffer(p)
  PROVE  /\ target[p] \in Leads /\ who[p] \in Workers
         /\ at[p] \in Nat /\ at[p] <= now /\ now \in Nat /\ now' = now
         /\ assigned[target[p]] = None
         /\ offeredTo[target[p]] = None \/ expires[target[p]] <= at[p]
         /\ offeredTo' = [offeredTo EXCEPT ![target[p]] = who[p]]
         /\ expires' = [expires EXCEPT ![target[p]] = at[p] + OfferWindow]
         /\ WorkerCompany[who[p]] = LeadCompany[target[p]]
         /\ \A l \in Leads \ {target[p]} : offeredTo[l] = who[p] => expires[l] <= at[p]
BY DEF IInv, PlaceOffer, Offerable, TypeOK, CallTypes, QueueTypes,
       CandidateIsFree, CandidatesAreColleagues, world, contactVars, joinVars

LEMMA CandidateIsFreeNext ==
  ASSUME IInv, [Next]_vars
  PROVE  CandidateIsFree'
<1> SUFFICES ASSUME NEW p \in Procs, pc'[p] = "claim",
                    NEW l \in Leads \ {target'[p]}, offeredTo'[l] = who'[p]
             PROVE  expires'[l] <= at'[p]
  BY DEF CandidateIsFree
<1>0. TypeOK /\ TypeOK'
  BY TypeNext DEF IInv
<1>1. /\ target'[p] = target[p] /\ who'[p] = who[p] /\ at'[p] = at[p]
      /\ pc[p] = "claim" \/ (CheckCandidate(p) /\ ~HoldsLiveOffer(p))
  BY <1>0, HowClaimIsReached
<1>2. who[p] \in Workers /\ at[p] \in Nat
  BY <1>0, <1>1 DEF TypeOK, CallTypes, CheckCandidate
<1>3. offeredTo[l] = who[p] => expires[l] <= at[p]
  <2>1. expires[l] \in Nat
    BY <1>0 DEF TypeOK, LeadTypes
  <2> QED
    BY <1>1, <1>2, <2>1 DEF IInv, CandidateIsFree, HoldsLiveOffer
<1>4. CASE \E q \in Procs : PlaceOffer(q)
  <2> PICK q \in Procs : PlaceOffer(q)
    BY <1>4
  <2>1. pc[q] = "claim" /\ pc'[q] = "idle"
    BY <1>0 DEF PlaceOffer, Finish, Goto, TypeOK, CallTypes
  <2>2. q # p
    BY <2>1
  <2>3. pc[p] \in {"check", "claim"}
    BY <1>1 DEF CheckCandidate
  <2>4. who[p] # who[q]
    BY <2>1, <2>2, <2>3 DEF IInv, CandidateIsLocked
  <2>5. offeredTo'[l] = offeredTo[l] /\ expires'[l] = expires[l]
    BY <1>0, <1>1, <1>2, <2>4, WriterKnows DEF TypeOK, LeadTypes
  <2> QED
    BY <1>1, <1>3, <2>5
<1>5. CASE ~ \E q \in Procs : PlaceOffer(q)
  <2>1. offeredTo'[l] = offeredTo[l] /\ expires'[l] = expires[l]
    BY <1>0, <1>1, <1>2, <1>5, OnlyPlaceOfferOffers, ConstantsAssumption
    DEF ConstantsAssumption
  <2> QED
    BY <1>1, <1>3, <2>1
<1> QED
  BY <1>4, <1>5

LEMMA OneLiveOfferNext ==
  ASSUME IInv, [Next]_vars
  PROVE  OneLiveOffer'
<1> SUFFICES ASSUME NEW w \in Workers, NEW l \in Leads, NEW k \in Leads,
                    Live(l, w)', Live(k, w)'
             PROVE  l = k
  BY DEF OneLiveOffer
<1>0. TypeOK /\ TypeOK' /\ OneLiveOffer /\ w # None
  BY TypeNext, ConstantsAssumption DEF IInv, ConstantsAssumption
<1>1. CASE \E p \in Procs : PlaceOffer(p)
  <2> PICK p \in Procs : PlaceOffer(p)
    BY <1>1
  <2>1. now' = now /\ now \in Nat /\ at[p] \in Nat /\ at[p] <= now
    BY WriterKnows
  <2>2. \A m \in Leads : Live(m, w)' /\ w = who[p] => m = target[p]
    <3> SUFFICES ASSUME NEW m \in Leads, Live(m, w)', w = who[p], m # target[p] PROVE FALSE
      OBVIOUS
    <3>1. offeredTo[m] = who[p] /\ expires[m] > now /\ expires[m] \in Nat
      BY <1>0, <2>1, WriterKnows DEF Live, TypeOK, LeadTypes
    <3>2. expires[m] <= at[p]
      BY <3>1, WriterKnows
    <3> QED
      BY <2>1, <3>1, <3>2
  <2>3. \A m \in Leads : Live(m, w)' /\ w # who[p] => Live(m, w)
    BY <1>0, <2>1, WriterKnows DEF Live, TypeOK, LeadTypes
  <2> QED
    BY <1>0, <2>2, <2>3 DEF OneLiveOffer
<1>2. CASE ~ \E p \in Procs : PlaceOffer(p)
  <2>1. ASSUME NEW m \in Leads, Live(m, w)' PROVE Live(m, w)
    <3>1. now' >= now /\ now' \in Nat /\ now \in Nat /\ expires'[m] \in Nat
      BY <1>0, <1>2, OnlyPlaceOfferOffers DEF TypeOK, QueueTypes, LeadTypes
    <3>2. offeredTo[m] = w /\ expires[m] = expires'[m]
      BY <1>0, <1>2, <2>1, OnlyPlaceOfferOffers DEF Live
    <3> QED
      BY <2>1, <3>1, <3>2 DEF Live
  <2> QED
    BY <1>0, <2>1 DEF OneLiveOffer
<1> QED
  BY <1>1, <1>2

LEMMA OfferedWithinCompanyNext ==
  ASSUME IInv, [Next]_vars
  PROVE  OfferedWithinCompany'
<1>0. TypeOK /\ OfferedWithinCompany
  BY DEF IInv
<1>1. CASE \E p \in Procs : PlaceOffer(p)
  BY <1>0, <1>1, WriterKnows DEF OfferedWithinCompany, TypeOK, LeadTypes
<1>2. CASE ~ \E p \in Procs : PlaceOffer(p)
  BY <1>0, <1>2, OnlyPlaceOfferOffers DEF OfferedWithinCompany
<1> QED
  BY <1>1, <1>2

LEMMA AssignedHasNoOfferNext ==
  ASSUME IInv, [Next]_vars
  PROVE  AssignedHasNoOffer'
<1>0. TypeOK /\ AssignedHasNoOffer
  BY DEF IInv
<1> USE DEF AssignedHasNoOffer, TypeOK, LeadTypes, leadVars, ClearOffer
<1>1. ASSUME NEW p \in Procs, Request(p) \/ Crash(p) PROVE AssignedHasNoOffer'
  BY <1>0, <1>1 DEF Request, StartAccept, StartSkip, SweepExpiredOffer, StartDistribute, Crash
<1>2. ASSUME NEW p \in Procs, AcceptStep(p) PROVE AssignedHasNoOffer'
  BY <1>0, <1>2
  DEF AcceptStep, AcceptLeadOffer, OfferNoLongerAvailable, ClaimContact, RecordServed
<1>3. ASSUME NEW p \in Procs, ReleaseStep(p) PROVE AssignedHasNoOffer'
  BY <1>0, <1>3 DEF ReleaseStep, ReleaseOffer, OfferAlreadyResolved, PauseWorker
<1>4. ASSUME NEW p \in Procs, OfferStep(p) PROVE AssignedHasNoOffer'
  <2>1. CASE PlaceOffer(p)
    BY <1>0, <2>1, WriterKnows DEF PlaceOffer
  <2>2. CASE ~PlaceOffer(p)
    BY <1>0, <1>4, <2>2 DEF OfferStep, BeginOffer, LockCandidate, SkipLockedCandidate,
                            CheckCandidate, AlreadyAssigned, NobodyAvailable
  <2> QED
    BY <2>1, <2>2
<1>5. CASE Office
  BY <1>0, <1>5
  DEF Office, JoinLeadQueue, TurnOnQueueRow, LeaveLeadQueue, SetAccount, UnassignLead, ReassignLead
<1>6. CASE Tick \/ UNCHANGED vars
  BY <1>0, <1>6 DEF Tick, vars
<1> QED
  BY <1>1, <1>2, <1>3, <1>4, <1>5, <1>6 DEF Next, JobStep

-----------------------------------------------------------------------------
LEMMA IInvNext == IInv /\ [Next]_vars => IInv'
<1> SUFFICES ASSUME IInv, [Next]_vars PROVE IInv'
  OBVIOUS
<1>1. TypeOK'
  BY TypeNext DEF IInv
<1>2. (LocksAreHeldByTransactions /\ CandidateIsLocked)' /\ RemovedIsPaused'
  BY LockingNext, RemovedIsPausedNext
<1>3. CandidateIsFree' /\ CandidatesAreColleagues'
  BY CandidateIsFreeNext, ColleaguesNext
<1>4. OneLiveOffer' /\ AssignedHasNoOffer' /\ OfferedWithinCompany'
  BY OneLiveOfferNext, AssignedHasNoOfferNext, OfferedWithinCompanyNext
<1> QED
  BY <1>1, <1>2, <1>3, <1>4 DEF IInv

\* The inductive invariant holds of every execution.
LEMMA Invariance == Spec => []IInv
BY InitIInv, IInvNext, PTL DEF Spec

\* However many distributions, accepts and expiries run at once, and whenever
\* they die, no worker counts down on two leads (offerLeadToNextWorker).
THEOREM OneLiveOfferHolds == Spec => []OneLiveOffer
<1>1. IInv => OneLiveOffer
  BY DEF IInv
<1> QED
  BY <1>1, Invariance, PTL

\* A lead with an owner is never under offer (acceptLeadOffer, reassignLead
\* and offerLeadToNextWorker together).
THEOREM AssignedHasNoOfferHolds == Spec => []AssignedHasNoOffer
<1>1. IInv => AssignedHasNoOffer
  BY DEF IInv
<1> QED
  BY <1>1, Invariance, PTL

\* No lead is offered outside its company (offerLeadToNextWorker).
THEOREM OfferedWithinCompanyHolds == Spec => []OfferedWithinCompany
<1>1. IInv => OfferedWithinCompany
  BY DEF IInv
<1> QED
  BY <1>1, Invariance, PTL

\* No queue row stays locked after the transaction that locked it, killed
\* transactions included.
THEOREM LocksHeldByTransactions == Spec => []LocksAreHeldByTransactions
<1>1. IInv => LocksAreHeldByTransactions
  BY DEF IInv
<1> QED
  BY <1>1, Invariance, PTL

\* The four of them together, as the run checks them.
THEOREM OffersAreSoundHold == Spec => []OffersAreSound
<1>1. IInv => OffersAreSound
  BY DEF IInv, OffersAreSound
<1> QED
  BY <1>1, Invariance, PTL
-----------------------------------------------------------------------------
(* What a step of the lead queue may never do, and that the queue does     *)
(* nothing its abstract specification LeadOffer does not allow.            *)

\* An offer is written for an active worker, whom only a crossing join keeps
\* from being one who has not been removed.
LEMMA PlacedReachesActive ==
  ASSUME IInv, [Next]_vars, NEW l \in Leads, Placed(l)
  PROVE  /\ offeredTo'[l] \in active
         /\ Session(offeredTo'[l]) \/ Reinstated(offeredTo'[l])
<1>0. TypeOK
  BY DEF IInv
<1>1. CASE \E p \in Procs : PlaceOffer(p)
  <2> PICK p \in Procs : PlaceOffer(p)
    BY <1>1
  <2>1. who[p] \in active
    BY DEF IInv, CandidateIsLocked, PlaceOffer
  <2>2. offeredTo'[l] = who[p]
    BY <1>0, WriterKnows DEF Placed, TypeOK, LeadTypes
  <2> QED
    BY <2>1, <2>2 DEF IInv, RemovedIsPaused
<1>2. CASE ~ \E p \in Procs : PlaceOffer(p)
  BY <1>0, <1>2, OnlyPlaceOfferOffers DEF Placed
<1> QED
  BY <1>1, <1>2

\* Pausing, leaving or being removed wins over a candidate list read earlier
\* (offerLeadToNextWorker's second look at isActive, under the row lock); the
\* one removed account an offer can reach is one whose own join, begun before
\* the removal, turned its queue row on again after it (joinLeadQueue).
THEOREM OffersReachActiveWorkersHolds == Spec => OffersReachActiveWorkers
<1>1. IInv /\ [Next]_vars =>
        [\A l \in Leads : Placed(l) =>
           /\ offeredTo'[l] \in active
           /\ Session(offeredTo'[l]) \/ Reinstated(offeredTo'[l])]_vars
  BY PlacedReachesActive
<1> QED
  BY <1>1, Invariance, PTL DEF Spec, OffersReachActiveWorkers

-----------------------------------------------------------------------------
(* The refinement: forget invocations, locks and queue rows. *)

LEMMA PromiseInit == Init => Promise!Init
BY DEF Init, Promise!Init

LEMMA PromiseNext ==
  ASSUME IInv, [Next]_vars
  PROVE  [Promise!Next]_<<leadVars, now>>
<1>0. TypeOK
  BY DEF IInv
<1> USE DEF TypeOK, LeadTypes, leadVars, Promise!leadVars, Promise!Next, Promise!Clear, ClearOffer, world, contactVars, joinVars
<1>1. ASSUME NEW p \in Procs, AcceptLeadOffer(p)
      PROVE  target[p] \in Leads /\ Promise!Accept(target[p])
  BY <1>0, <1>1, ConstantsAssumption
  DEF AcceptLeadOffer, Acceptable, CallTypes, Promise!Accept, ConstantsAssumption
<1>2. ASSUME NEW p \in Procs, ReleaseOffer(p)
      PROVE  target[p] \in Leads /\ Promise!Withdraw(target[p])
  BY <1>0, <1>2, ConstantsAssumption
  DEF ReleaseOffer, Releasable, CallTypes, Promise!Withdraw, ConstantsAssumption
<1>3. ASSUME NEW p \in Procs, PlaceOffer(p)
      PROVE  \E l \in Leads, w \in Workers, until \in 0..(now + OfferWindow) :
               Promise!Offer(l, w, until)
  <2>1. /\ at[p] + OfferWindow \in 0..(now + OfferWindow)
        /\ target[p] \in Leads /\ who[p] \in Workers
    BY <1>3, WriterKnows, ConstantsAssumption DEF ConstantsAssumption
  <2>2. \A k \in Leads \ {target[p]} : ~Promise!Live(k, who[p])
    BY <1>0, <1>3, WriterKnows DEF Promise!Live
  <2>3. offeredTo[target[p]] = None \/ expires[target[p]] <= now
    BY <1>0, <1>3, WriterKnows
  <2>4. Promise!Offer(target[p], who[p], at[p] + OfferWindow)
    BY <1>3, <2>2, <2>3, WriterKnows DEF Promise!Offer, PlaceOffer
  <2> QED
    BY <2>1, <2>4
<1>4. ASSUME NEW l \in Leads, NEW w \in Workers, ReassignLead(l, w)
      PROVE  Promise!HandOver(l, w)
  BY <1>4 DEF ReassignLead, Promise!HandOver
<1>5. ASSUME NEW l \in Leads, UnassignLead(l) PROVE Promise!TakeAway(l)
  BY <1>5 DEF UnassignLead, Promise!TakeAway
<1>6. ASSUME Tick PROVE Promise!Tick
  BY <1>6 DEF Tick, Promise!Tick
<1>7. ASSUME NEW p \in Procs, JobStep(p) \/ Request(p) \/ Crash(p)
      PROVE  [Promise!Next]_<<leadVars, now>>
  <2>1. CASE AcceptStep(p)
    BY <1>1, <2>1 DEF AcceptStep, OfferNoLongerAvailable, ClaimContact, RecordServed
  <2>2. CASE ReleaseStep(p)
    BY <1>2, <2>2 DEF ReleaseStep, OfferAlreadyResolved, PauseWorker
  <2>3. CASE OfferStep(p)
    BY <1>3, <2>3 DEF OfferStep, BeginOffer, LockCandidate, SkipLockedCandidate, CheckCandidate,
                      AlreadyAssigned, NobodyAvailable
  <2>4. CASE Request(p) \/ Crash(p)
    BY <2>4 DEF Request, StartAccept, StartSkip, SweepExpiredOffer, StartDistribute, Crash
  <2> QED
    BY <1>7, <2>1, <2>2, <2>3, <2>4 DEF JobStep
<1>8. CASE Office
  BY <1>4, <1>5, <1>8 DEF Office, JoinLeadQueue, TurnOnQueueRow, LeaveLeadQueue, SetAccount
<1>9. CASE UNCHANGED vars
  BY <1>9 DEF vars
<1> QED
  BY <1>6, <1>7, <1>8, <1>9 DEF Next

\* Every execution of the handlers, statement by statement, is one of the
\* promises of LeadOffer: offers go only to free colleagues of leads nobody
\* owns, and only the worker holding the offer gets the lead from the queue.
THEOREM ImplementsPromiseHolds == Spec => ImplementsPromise
<1>1. IInv /\ [Next]_vars => [Promise!Next]_<<leadVars, now>>
  BY PromiseNext
<1> QED
  BY <1>1, PromiseInit, Invariance, PTL
  DEF Spec, ImplementsPromise, Promise!Spec, Promise!leadVars, leadVars

-----------------------------------------------------------------------------
(* Accepted leads and their contacts. *)

\* A lead an invocation accepts waits for its contact claim, what waits for
\* one gets it, and what dies in between is remembered.
LEMMA AcceptsReachTheContact ==
  ASSUME IInv, AcceptedLeadHasOwnedContact, NEW p \in Procs, JobStep(p) \/ Request(p) \/ Crash(p)
  PROVE  AcceptedLeadHasOwnedContact'
<1> USE ConstantsAssumption
<1> USE DEF IInv, TypeOK, LeadTypes, QueueTypes, CallTypes, Goto, Start, Finish, leadVars, contactVars
<1>1. CASE AcceptLeadOffer(p)
  <2>1. owner' = owner /\ orphaned' = orphaned /\ pc'[p] = "own" /\ target' = target
    BY <1>1 DEF AcceptLeadOffer, callVars
  <2>2. distributed' = distributed \cup {target[p]}
    BY <1>1 DEF AcceptLeadOffer
  <2>3. \A q \in Procs : pc[q] = "own" => pc'[q] = "own"
    BY <1>1 DEF AcceptLeadOffer
  <2> QED
    BY <2>1, <2>2, <2>3 DEF AcceptedLeadHasOwnedContact
<1>2. CASE ClaimContact(p)
  <2>1. distributed' = distributed /\ orphaned' = orphaned /\ target' = target /\ pc[p] = "own"
    BY <1>2 DEF ClaimContact, callVars
  <2>2. \A q \in Procs \ {p} : pc'[q] = pc[q]
    BY <1>2 DEF ClaimContact
  <2>3. who[p] \in Workers /\ target[p] \in Leads
    BY <2>1
  <2>4. owner'[ContactOf[target[p]]] # None
    BY <1>2, <2>3 DEF ClaimContact
  <2>5. \A c \in Contacts : owner[c] # None => owner'[c] # None
    BY <1>2 DEF ClaimContact
  <2> QED
    BY <2>1, <2>2, <2>4, <2>5 DEF AcceptedLeadHasOwnedContact
<1>3. CASE Crash(p)
  <2>1. owner' = owner /\ distributed' = distributed
    BY <1>3 DEF Crash
  <2>2. orphaned \subseteq orphaned' /\ (pc[p] = "own" => target[p] \in orphaned')
    BY <1>3 DEF Crash
  <2>3. \A q \in Procs \ {p} : pc'[q] = pc[q] /\ target'[q] = target[q]
    BY <1>3 DEF Crash
  <2> QED
    BY <2>1, <2>2, <2>3 DEF AcceptedLeadHasOwnedContact
<1>4. CASE ~AcceptLeadOffer(p) /\ ~ClaimContact(p) /\ ~Crash(p)
  <2>1. owner' = owner /\ orphaned' = orphaned /\ distributed' = distributed /\ pc[p] # "own"
    BY <1>4 DEF JobStep, AcceptStep, OfferNoLongerAvailable, RecordServed,
                OfferStep, BeginOffer, LockCandidate, SkipLockedCandidate, CheckCandidate,
                PlaceOffer, AlreadyAssigned, NobodyAvailable,
                ReleaseStep, ReleaseOffer, OfferAlreadyResolved, PauseWorker,
                Request, StartAccept, StartSkip, SweepExpiredOffer, StartDistribute
  <2>2. \A q \in Procs \ {p} : pc'[q] = pc[q] /\ target'[q] = target[q]
    BY <1>4, OthersKeepTheirLocals
  <2> QED
    BY <2>1, <2>2 DEF AcceptedLeadHasOwnedContact
<1> QED
  BY <1>1, <1>2, <1>3, <1>4

\* However accepts, removals, reassignments and deaths fall, the accept that
\* distributes a lead gives its contact an owner or finds that it has one,
\* unless its function died between the two claims (acceptLeadOffer, 266-312).
THEOREM AcceptedLeadHasOwnedContactHolds == Spec => []AcceptedLeadHasOwnedContact
<1>1. Init => AcceptedLeadHasOwnedContact
  BY DEF Init, AcceptedLeadHasOwnedContact
<1>2. IInv /\ AcceptedLeadHasOwnedContact /\ [Next]_vars => AcceptedLeadHasOwnedContact'
  <2> SUFFICES ASSUME IInv, AcceptedLeadHasOwnedContact, [Next]_vars
               PROVE  AcceptedLeadHasOwnedContact'
    OBVIOUS
  <2>1. ASSUME NEW p \in Procs, JobStep(p) \/ Request(p) \/ Crash(p)
        PROVE  AcceptedLeadHasOwnedContact'
    BY <2>1, AcceptsReachTheContact
  <2>2. CASE Office \/ Tick \/ UNCHANGED vars
    <3>1. UNCHANGED <<distributed, contactVars, pc, target>>
      BY <2>2 DEF Office, JoinLeadQueue, TurnOnQueueRow, LeaveLeadQueue, SetAccount, UnassignLead,
                  ReassignLead, Tick, vars, leadVars, jobVars, callVars
    <3> QED
      BY <3>1 DEF AcceptedLeadHasOwnedContact, contactVars
  <2> QED
    BY <2>1, <2>2 DEF Next
<1> QED
  BY <1>1, <1>2, Invariance, PTL DEF Spec
-----------------------------------------------------------------------------
(***************************************************************************)
(* The tabs of a browser, for every number of tabs, offers and changes:    *)
(* one sound per offer (OfferAlert), one tab that leads and no way back to *)
(* older data (SharedPoll).                                                *)
(*                                                                         *)
(* The lock's invariant is about what a tab has not heard yet: its notices *)
(* alternate, from whether its loop runs to whether it holds the lock.     *)
(* The polls' is about order: until polls cross there is one at a time,    *)
(* newer than all that is shown or sent, and messages only get newer.      *)
(***************************************************************************)

(* One sound per offer *)

AlertTypes ==
  /\ current \in Alerts \cup {0}
  /\ over \subseteq Alerts /\ hung \subseteq Alerts /\ freed \subseteq Alerts /\ startedLate \subseteq Alerts
  /\ onScreen \in [Windows -> Alerts \cup {0}] /\ pendingBlocked \in [Windows -> Alerts \cup {0}]
  /\ resuming \in [Windows -> SUBSET Alerts]
  /\ claiming \in [Windows -> SUBSET Alerts] /\ playing \in [Windows -> SUBSET Alerts]
  /\ claimedBy \in [Alerts -> Windows \cup {NoWindow}]
  /\ played \in [Alerts -> 0..2]

\* Only the tab with the claim sounds an offer.
SoundsAreClaimed ==
  \A t \in Windows, o \in Alerts : o \in playing[t] => claimedBy[o] = t

\* What waits for the audio context past its time is known to hang.
WaitingPastTimeHangs ==
  \A t \in Windows, o \in Alerts : o \in resuming[t] /\ o \in over => o \in hung

\* An offer's sounds, made and still to come, are one.
SoundsAtMostOnce ==
  \A o \in Alerts \ (freed \cup hung) :
    /\ played[o] =< 1
    /\ \A t \in Windows : o \in playing[t] => played[o] = 0
    /\ played[o] # 0 /\ claimedBy[o] = NoWindow => o \in over /\ \A t \in Windows : o \notin claiming[t]

AlertInv ==
  AlertTypes /\ SoundsAreClaimed /\ WaitingPastTimeHangs /\ SoundsAtMostOnce /\ startedLate \subseteq hung

LEMMA AlertStarts == AlertInit => AlertInv
  BY AlertConstants, SMT DEF AlertInit, AlertInv, AlertTypes, SoundsAreClaimed, WaitingPastTimeHangs, SoundsAtMostOnce, Alerts

LEMMA AlertSteps == AlertInv /\ [AlertNext]_alertVars => AlertInv'
<1> SUFFICES ASSUME AlertInv, [AlertNext]_alertVars PROVE AlertInv'
  OBVIOUS
<1> USE AlertConstants DEF AlertInv
<1>0. 0 \notin Alerts
  BY DEF Alerts
<1>1. CASE MakeOffer \/ AnswerOffer
  <2> USE <1>0, <1>1 DEF MakeOffer, AnswerOffer, soundVars, dialogVars
  <2>0. (current \in Alerts \cup {0})'
    BY DEF AlertTypes, Alerts
  <2>1. AlertTypes'
    BY <2>0 DEF AlertTypes
  <2>2. SoundsAreClaimed'
    BY DEF AlertTypes, SoundsAreClaimed
  <2>3. WaitingPastTimeHangs'
    BY DEF AlertTypes, WaitingPastTimeHangs
  <2>4. SoundsAtMostOnce'
    BY DEF AlertTypes, SoundsAreClaimed, WaitingPastTimeHangs, SoundsAtMostOnce
  <2>5. (startedLate \subseteq hung)'
    BY DEF AlertTypes, WaitingPastTimeHangs
  <2> QED BY <2>1, <2>2, <2>3, <2>4, <2>5
<1>2. ASSUME NEW o \in Alerts, OfferExpires(o) PROVE AlertInv'
  BY <1>0, <1>2 DEF OfferExpires, AlertTypes, SoundsAreClaimed, WaitingPastTimeHangs, SoundsAtMostOnce, soundVars, dialogVars
<1>3. ASSUME NEW o \in Alerts, HoldEnds(o) PROVE AlertInv'
  BY <1>0, <1>3 DEF HoldEnds, AlertTypes, SoundsAreClaimed, WaitingPastTimeHangs, SoundsAtMostOnce, offerVars, dialogVars
<1>4. ASSUME NEW t \in Windows, NEW o \in Alerts, Resumed(t, o) PROVE AlertInv'
  BY <1>0, <1>4 DEF Resumed, AsksForClaim, Adds, Drops, AlertTypes, SoundsAreClaimed, WaitingPastTimeHangs, SoundsAtMostOnce, offerVars, dialogVars
<1>5. ASSUME NEW t \in Windows, NEW o \in Alerts, Claim(t, o) PROVE AlertInv'
  BY SMTT(30), <1>0, <1>5 DEF Claim, Adds, Drops, AlertTypes, SoundsAreClaimed, WaitingPastTimeHangs, SoundsAtMostOnce, offerVars, dialogVars
<1>6. ASSUME NEW t \in Windows, NEW o \in Alerts, Play(t, o) PROVE AlertInv'
  BY <1>0, <1>6 DEF Play, Adds, Drops, AlertTypes, SoundsAreClaimed, WaitingPastTimeHangs, SoundsAtMostOnce, offerVars, dialogVars
<1>7. ASSUME NEW t \in Windows, NEW o \in Alerts, Blocked(t, o) PROVE AlertInv'
  BY <1>0, <1>7 DEF Blocked, Adds, Drops, AlertTypes, SoundsAreClaimed, WaitingPastTimeHangs, SoundsAtMostOnce, offerVars, dialogVars
<1>8. ASSUME NEW t \in Windows, SeeOffer(t) \/ Load(t) PROVE AlertInv'
  <2> USE <1>0, <1>8 DEF SeeOffer, Load, offerVars, soundVars
  <2>1. AlertTypes'
    BY DEF AlertTypes
  <2>2. SoundsAreClaimed'
    BY DEF AlertTypes, SoundsAreClaimed
  <2>3. WaitingPastTimeHangs'
    BY DEF AlertTypes, WaitingPastTimeHangs
  <2>4. SoundsAtMostOnce'
    BY DEF AlertTypes, SoundsAreClaimed, WaitingPastTimeHangs, SoundsAtMostOnce
  <2>5. (startedLate \subseteq hung)'
    BY DEF AlertTypes, WaitingPastTimeHangs
  <2> QED BY <2>1, <2>2, <2>3, <2>4, <2>5
<1>9. ASSUME NEW t \in Windows, Announce(t) PROVE AlertInv'
  <2> USE <1>0, <1>9 DEF Announce, Adds, dialogVars
  <2>1. AlertTypes'
    BY DEF AlertTypes
  <2>2. SoundsAreClaimed'
    BY DEF AlertTypes, SoundsAreClaimed
  <2>3. WaitingPastTimeHangs'
    BY DEF AlertTypes, WaitingPastTimeHangs
  <2>4. SoundsAtMostOnce'
    BY DEF AlertTypes, SoundsAreClaimed, WaitingPastTimeHangs, SoundsAtMostOnce
  <2>5. (startedLate \subseteq hung)'
    BY DEF AlertTypes, WaitingPastTimeHangs
  <2> QED BY <2>1, <2>2, <2>3, <2>4, <2>5
<1>10. ASSUME NEW t \in Windows, Gesture(t) PROVE AlertInv'
  <2> USE <1>0, <1>10 DEF Gesture, AsksForClaim, Adds, offerVars
  <2>1. AlertTypes'
    BY DEF AlertTypes
  <2>2. SoundsAreClaimed'
    BY DEF AlertTypes, SoundsAreClaimed
  <2>3. WaitingPastTimeHangs'
    BY DEF AlertTypes, WaitingPastTimeHangs
  <2>4. SoundsAtMostOnce'
    BY DEF AlertTypes, SoundsAreClaimed, WaitingPastTimeHangs, SoundsAtMostOnce
  <2>5. (startedLate \subseteq hung)'
    BY DEF AlertTypes, WaitingPastTimeHangs
  <2> QED BY <2>1, <2>2, <2>3, <2>4, <2>5
<1>11. ASSUME NEW t \in Windows, NEW reload \in BOOLEAN, Unload(t, reload) PROVE AlertInv'
  <2> USE <1>0, <1>11 DEF Unload, offerVars
  <2>1. AlertTypes'
    BY DEF AlertTypes
  <2>2. SoundsAreClaimed'
    BY DEF AlertTypes, SoundsAreClaimed
  <2>3. WaitingPastTimeHangs'
    BY DEF AlertTypes, WaitingPastTimeHangs
  <2>4. SoundsAtMostOnce'
    BY DEF AlertTypes, SoundsAreClaimed, WaitingPastTimeHangs, SoundsAtMostOnce
  <2>5. (startedLate \subseteq hung)'
    BY DEF AlertTypes, WaitingPastTimeHangs
  <2> QED BY <2>1, <2>2, <2>3, <2>4, <2>5
<1>12. CASE UNCHANGED alertVars
  BY <1>0, <1>12 DEF alertVars, offerVars, dialogVars, soundVars, AlertTypes, SoundsAreClaimed, WaitingPastTimeHangs, SoundsAtMostOnce
<1> QED BY <1>1, <1>2, <1>3, <1>4, <1>5, <1>6, <1>7, <1>8, <1>9, <1>10, <1>11, <1>12 DEF AlertNext, Sounds

(* No offer sounds twice in a browser, whichever windows race for its claim, *)
(* unless a claim was freed or an audio context hung (offer-alert.tsx).      *)
THEOREM OneSoundPerOfferHolds == AlertSpec => []OneSoundPerOffer
<1>1. ASSUME AlertInv PROVE OneSoundPerOffer
  <2>1. \A o \in Alerts : played[o] \in 0..2
    BY <1>1 DEF AlertInv, AlertTypes
  <2> QED BY <1>1, <2>1 DEF AlertInv, OneSoundPerOffer, SoundsAtMostOnce
<1> QED BY <1>1, AlertStarts, AlertSteps, PTL DEF AlertSpec
-----------------------------------------------------------------------------
(* What a tab has not heard *)

Notices == {"granted", "stolen"}

\* What a tab has not heard, from whether its loop runs to whether it holds the lock.
Alternates(unheard, runs, leads) ==
  /\ \A i \in 1..Len(unheard) - 1 : unheard[i] # unheard[i + 1]
  /\ unheard = <<>> => (runs <=> leads)
  /\ unheard # <<>> => /\ unheard[1] = "granted" <=> ~runs
                       /\ unheard[Len(unheard)] = "granted" <=> leads

\* Told of a grant, of a theft, and hearing of the oldest of them.
LEMMA GrantKeepsOrder ==
  ASSUME NEW n \in Seq(Notices), NEW runs \in BOOLEAN, Alternates(n, runs, FALSE)
  PROVE  Alternates(Append(n, "granted"), runs, TRUE)
<1> DEFINE m == Append(n, "granted")
<1>1. Len(m) = Len(n) + 1 /\ m # <<>> /\ m[Len(m)] = "granted" /\ \A i \in 1..Len(n) : m[i] = n[i]
  OBVIOUS
<1>2. Len(n) # 0 => n[Len(n)] = "stolen"
  BY DEF Alternates, Notices
<1>3. \A i \in 1..Len(m) - 1 : m[i] # m[i + 1]
  BY <1>1, <1>2 DEF Alternates
<1>4. m[1] = "granted" <=> ~runs
  BY <1>1, <1>2 DEF Alternates
<1> QED BY <1>1, <1>3, <1>4 DEF Alternates

LEMMA TheftKeepsOrder ==
  ASSUME NEW n \in Seq(Notices), NEW runs \in BOOLEAN, Alternates(n, runs, TRUE)
  PROVE  Alternates(Append(n, "stolen"), runs, FALSE)
<1> DEFINE m == Append(n, "stolen")
<1>1. Len(m) = Len(n) + 1 /\ m # <<>> /\ m[Len(m)] = "stolen" /\ \A i \in 1..Len(n) : m[i] = n[i]
  OBVIOUS
<1>2. Len(n) # 0 => n[Len(n)] = "granted"
  BY DEF Alternates, Notices
<1>3. \A i \in 1..Len(m) - 1 : m[i] # m[i + 1]
  BY <1>1, <1>2 DEF Alternates
<1>4. m[1] = "granted" <=> ~runs
  BY <1>1, <1>2 DEF Alternates
<1> QED BY <1>1, <1>3, <1>4 DEF Alternates

LEMMA HearingKeepsOrder ==
  ASSUME NEW n \in Seq(Notices), n # <<>>, NEW runs \in BOOLEAN, NEW leads \in BOOLEAN, Alternates(n, runs, leads)
  PROVE  /\ Head(n) = "granted" => ~runs /\ Alternates(Tail(n), TRUE, leads)
         /\ Head(n) = "stolen" => runs /\ Alternates(Tail(n), FALSE, leads)
<1> DEFINE m == Tail(n)
<1>1. /\ m \in Seq(Notices) /\ Len(m) = Len(n) - 1 /\ Len(n) \in Nat \ {0}
      /\ Head(n) = n[1] /\ \A i \in 1..Len(m) : m[i] = n[i + 1]
  OBVIOUS
<1>5. \A i \in 1..Len(m) : m[i] \in Notices
  BY <1>1
<1> HIDE DEF m
<1>2. \A i \in 1..Len(m) - 1 : m[i] # m[i + 1]
  BY <1>1 DEF Alternates
<1>3. CASE Len(m) = 0
  <2>1. Len(n) = 1 /\ m = <<>>
    BY <1>1, <1>3
  <2> QED BY <1>2, <2>1 DEF Alternates, Notices, m
<1>4. CASE Len(m) # 0
  <2>1. Len(m) # 0 /\ m[1] \in Notices /\ m[1] # n[1] /\ m[Len(m)] = n[Len(n)]
    BY <1>1, <1>4, <1>5 DEF Alternates
  <2> QED BY <1>1, <1>2, <1>4, <2>1 DEF Alternates, Notices
<1> QED BY <1>3, <1>4 DEF m

-----------------------------------------------------------------------------
(* Sequences, and the line that waits for the lock *)

\* A sequence without its i-th element.
LEMMA RemoveAtElements ==
  ASSUME NEW S, NEW s \in Seq(S), NEW i \in 1..Len(s)
  PROVE  /\ RemoveAt(s, i) \in Seq(S) /\ Len(RemoveAt(s, i)) = Len(s) - 1
         /\ \A j \in 1..Len(s) - 1 : RemoveAt(s, i)[j] = IF j < i THEN s[j] ELSE s[j + 1]
<1> DEFINE front == SubSeq(s, 1, i - 1)  back == SubSeq(s, i + 1, Len(s))
<1>1. front \in Seq(S) /\ Len(front) = i - 1 /\ \A j \in 1..i - 1 : front[j] = s[j]
  OBVIOUS
<1>2. back \in Seq(S) /\ Len(back) = Len(s) - i /\ \A j \in 1..Len(s) - i : back[j] = s[i + j]
  OBVIOUS
<1>3. RemoveAt(s, i) = front \o back
  BY DEF RemoveAt
<1>4. Len(front \o back) = Len(front) + Len(back) /\ front \o back \in Seq(S)
  BY <1>1, <1>2
<1> HIDE DEF front, back
<1>5. \A j \in 1..Len(front) + Len(back) : (front \o back)[j] = IF j =< Len(front) THEN front[j] ELSE back[j - Len(front)]
  BY <1>1, <1>2
<1>6. ASSUME NEW j \in 1..Len(s) - 1, j >= i PROVE j - (i - 1) \in 1..Len(s) - i /\ back[j - (i - 1)] = s[j + 1]
  <2>1. j - (i - 1) \in 1..Len(s) - i /\ i + (j - (i - 1)) = j + 1
    BY <1>6
  <2> QED BY <1>2, <2>1
<1>7. ASSUME NEW j \in 1..Len(s) - 1 PROVE RemoveAt(s, i)[j] = IF j < i THEN s[j] ELSE s[j + 1]
  <2>1. (front \o back)[j] = IF j =< Len(front) THEN front[j] ELSE back[j - Len(front)]
    <3>1. j \in 1..Len(front) + Len(back)
      BY <1>1, <1>2
    <3> QED BY <1>5, <3>1
  <2>2. CASE j < i
    BY <1>1, <1>3, <2>1, <2>2
  <2>3. CASE j >= i
    BY <1>1, <1>3, <1>6, <2>1, <2>3
  <2> QED BY <2>2, <2>3
<1> QED BY <1>1, <1>2, <1>3, <1>4, <1>7

\* Any set of numbers has a least one.
LEMMA LeastNumber ==
  ASSUME NEW T, T \subseteq Nat, T # {}
  PROVE  \E x \in T : \A y \in T : x =< y
<1>1. PICK x \in T : \A y \in T : <<y, x>> \notin OpToRel(<, Nat)
  BY NatLessThanWellFounded, WFMin, Zenon
<1>2. \A y \in T : ~(y < x)
  BY <1>1 DEF OpToRel
<1> QED BY <1>2

\* What is in a sequence after Append, and with its head taken off.
LEMMA AppendElements ==
  ASSUME NEW S, NEW s \in Seq(S), NEW e \in S
  PROVE  ToSet(Append(s, e)) = ToSet(s) \cup {e}
<1>1. DOMAIN s = 1..Len(s) /\ DOMAIN Append(s, e) = 1..Len(s) + 1 /\ Len(s) \in Nat
  OBVIOUS
<1>2. Append(s, e)[Len(s) + 1] = e /\ \A i \in 1..Len(s) : Append(s, e)[i] = s[i]
  OBVIOUS
<1>3. \A i \in 1..Len(s) + 1 : i \in 1..Len(s) \/ i = Len(s) + 1
  BY <1>1
<1> QED BY <1>1, <1>2, <1>3 DEF ToSet

LEMMA HeadTailElements ==
  ASSUME NEW S, NEW s \in Seq(S), s # <<>>
  PROVE  Tail(s) \in Seq(S) /\ Head(s) \in S /\ ToSet(s) = ToSet(Tail(s)) \cup {Head(s)}
<1>1. DOMAIN s = 1..Len(s) /\ DOMAIN Tail(s) = 1..Len(s) - 1 /\ Len(s) \in Nat \ {0}
  OBVIOUS
<1>2. Head(s) = s[1] /\ \A i \in 1..Len(s) - 1 : Tail(s)[i] = s[i + 1]
  OBVIOUS
<1>3. \A i \in 1..Len(s) : i = 1 \/ (i - 1 \in 1..Len(s) - 1 /\ (i - 1) + 1 = i)
  BY <1>1
<1>4. 1 \in 1..Len(s) /\ \A i \in 1..Len(s) - 1 : i + 1 \in 1..Len(s)
  BY <1>1
<1>5. \A u : u \in ToSet(s) <=> u \in ToSet(Tail(s)) \cup {Head(s)}
  <2> TAKE u
  <2>1. ASSUME NEW i \in 1..Len(s), u = s[i] PROVE u = Head(s) \/ u \in ToSet(Tail(s))
    <3>1. CASE i = 1
      BY <1>2, <2>1, <3>1
    <3>2. CASE i - 1 \in 1..Len(s) - 1 /\ (i - 1) + 1 = i
      <4>1. Tail(s)[i - 1] = u
        BY <1>2, <2>1, <3>2
      <4> QED BY <1>1, <3>2, <4>1 DEF ToSet
    <3> QED BY <1>3, <3>1, <3>2
  <2>2. ASSUME NEW i \in 1..Len(s) - 1, u = Tail(s)[i] PROVE u \in ToSet(s)
    BY <1>1, <1>2, <1>4, <2>2 DEF ToSet
  <2>3. Head(s) \in ToSet(s)
    BY <1>1, <1>2, <1>4 DEF ToSet
  <2>4. u \in ToSet(s) => \E i \in 1..Len(s) : u = s[i]
    BY <1>1 DEF ToSet
  <2>5. u \in ToSet(Tail(s)) => \E i \in 1..Len(s) - 1 : u = Tail(s)[i]
    BY <1>1 DEF ToSet
  <2> QED BY <2>1, <2>2, <2>3, <2>4, <2>5
<1> QED BY <1>5

\* A line without one request of t: nobody else leaves it.
LEMMA WithoutLastElements ==
  ASSUME NEW S, NEW s \in Seq(S), NEW t
  PROVE  /\ WithoutLast(s, t) \in Seq(S)
         /\ \A u \in ToSet(s) : u = t \/ u \in ToSet(WithoutLast(s, t))
<1>1. CASE \E i \in DOMAIN s : s[i] = t
  <2> DEFINE last == CHOOSE i \in DOMAIN s : s[i] = t /\ \A j \in DOMAIN s : s[j] = t => j =< i
             rest == WithoutLast(s, t)
  <2>1. DOMAIN s = 1..Len(s) /\ Len(s) \in Nat
    OBVIOUS
  <2>2. \E i \in DOMAIN s : s[i] = t /\ \A j \in DOMAIN s : s[j] = t => j =< i
    <3> DEFINE T == {Len(s) - i : i \in {i \in DOMAIN s : s[i] = t}}
    <3>1. T \subseteq Nat /\ T # {}
      BY <1>1, <2>1
    <3>2. PICK x \in T : \A y \in T : x =< y
      BY <3>1, LeastNumber
    <3>3. PICK i \in DOMAIN s : s[i] = t /\ x = Len(s) - i
      BY <3>2
    <3>4. ASSUME NEW j \in DOMAIN s, s[j] = t PROVE j =< i
      <4>1. Len(s) - i =< Len(s) - j
        BY <3>2, <3>3, <3>4
      <4> QED BY <4>1, <2>1
    <3> QED BY <3>3, <3>4
  <2>3. last \in 1..Len(s) /\ s[last] = t
    BY <2>1, <2>2
  <2> HIDE DEF last
  <2>4. rest = RemoveAt(s, last)
    BY <1>1 DEF WithoutLast, last
  <2>5. /\ rest \in Seq(S) /\ Len(rest) = Len(s) - 1
        /\ \A j \in 1..Len(s) - 1 : rest[j] = IF j < last THEN s[j] ELSE s[j + 1]
    BY <2>3, <2>4, RemoveAtElements
  <2>6. ASSUME NEW j \in 1..Len(s), s[j] # t PROVE \E k \in 1..Len(rest) : rest[k] = s[j]
    <3>1. CASE j < last
      BY <2>3, <2>5, <3>1
    <3>2. CASE j > last
      <4>1. j - 1 \in 1..Len(s) - 1 /\ ~(j - 1 < last) /\ (j - 1) + 1 = j
        BY <2>3, <3>2
      <4> QED BY <2>5, <4>1
    <3> QED BY <2>3, <2>6, <3>1, <3>2
  <2> HIDE DEF rest
  <2>7. DOMAIN rest = 1..Len(rest)
    BY <2>5
  <2>8. \A u \in ToSet(s) : u = t \/ u \in ToSet(rest)
    BY <2>1, <2>6, <2>7 DEF ToSet
  <2> QED BY <2>5, <2>8 DEF rest
<1>2. CASE ~\E i \in DOMAIN s : s[i] = t
  BY <1>2 DEF WithoutLast
<1> QED BY <1>1, <1>2

\* A line without all requests of t: nobody else leaves it.
LEMMA WithoutAllElements ==
  ASSUME NEW S, NEW s \in Seq(S), NEW t
  PROVE  WithoutAll(s, t) \in Seq(S \ {t}) /\ ToSet(WithoutAll(s, t)) = ToSet(s) \ {t}
<1> DEFINE kept == {i \in DOMAIN s : s[i] # t}
           below(i) == {j \in kept : j =< i}
           size == Cardinality(kept)
           rest == [n \in 1..size |-> s[CHOOSE i \in kept : Cardinality(below(i)) = n]]
           rank == [i \in kept |-> Cardinality(below(i))]
<1>1. DOMAIN s = 1..Len(s) /\ Len(s) \in Nat /\ kept \subseteq Int /\ WithoutAll(s, t) = rest
  BY DEF WithoutAll
<1>2. IsFiniteSet(kept) /\ size \in Nat
  <2>1. IsFiniteSet(1..Len(s)) /\ kept \in SUBSET (1..Len(s))
    BY <1>1, FS_Interval
  <2> QED BY <2>1, FS_Subset, FS_CardinalityType
<1>3. ASSUME NEW i \in kept PROVE IsFiniteSet(below(i)) /\ Cardinality(below(i)) \in 1..size
  <2>1. below(i) \in SUBSET kept /\ i \in below(i)
    BY <1>1
  <2>2. IsFiniteSet(below(i)) /\ Cardinality(below(i)) =< size /\ Cardinality(below(i)) \in Nat
    BY <1>2, <2>1, FS_Subset, FS_CardinalityType
  <2>3. Cardinality(below(i)) # 0
    BY <2>1, <2>2, FS_EmptySet
  <2> QED BY <1>2, <2>2, <2>3
<1>4. ASSUME NEW i \in kept, NEW j \in kept, i < j PROVE Cardinality(below(i)) # Cardinality(below(j))
  <2>1. below(i) \in SUBSET below(j) /\ j \in below(j) /\ j \notin below(i)
    BY <1>1, <1>4
  <2> QED BY <1>3, <2>1, FS_Subset
<1>5. rank \in Injection(kept, 1..size)
  <2>1. rank \in [kept -> 1..size]
    BY <1>3
  <2>2. \A i, j \in kept : rank[i] = rank[j] => i = j
    BY <1>1, <1>4
  <2> QED BY <2>1, <2>2 DEF Injection, IsInjective
<1>6. \A n \in 1..size : \E i \in kept : Cardinality(below(i)) = n
  <2>1. IsFiniteSet(1..size) /\ Cardinality(1..size) = size
    BY <1>2, FS_Interval
  <2>2. rank \in Surjection(kept, 1..size)
    BY <1>5, <2>1, FS_Injection
  <2> QED BY <2>2 DEF Surjection
<1> DEFINE place(n) == CHOOSE i \in kept : Cardinality(below(i)) = n
<1>7. \A n \in 1..size : place(n) \in kept /\ rest[n] = s[place(n)] /\ Cardinality(below(place(n))) = n
  BY <1>6
<1>8. rest \in [1..size -> S \ {t}]
  <2>1. \A i \in kept : s[i] \in S \ {t}
    BY <1>1
  <2> QED BY <1>7, <2>1
<1> HIDE DEF rest, place
<1>9. rest \in Seq(S \ {t}) /\ DOMAIN rest = 1..size
  <2>1. ASSUME NEW m \in Nat PROVE [1..m -> S \ {t}] \subseteq Seq(S \ {t})
    <3>1. Seq(S \ {t}) = UNION {[1..n -> S \ {t}] : n \in Nat}
      BY SeqDef
    <3> QED BY <3>1
  <2> QED BY <1>2, <1>8, <2>1
<1>10. \A i \in kept : \E n \in 1..size : rest[n] = s[i]
  <2> TAKE i \in kept
  <2>1. Cardinality(below(i)) \in 1..size
    BY <1>3
  <2>2. place(Cardinality(below(i))) = i
    <3>1. place(Cardinality(below(i))) \in kept /\ Cardinality(below(place(Cardinality(below(i))))) = Cardinality(below(i))
      BY <1>7, <2>1
    <3> HIDE DEF below
    <3>2. i \in Int /\ \A j \in kept : j \in Int
      BY <1>1
    <3> QED BY <1>4, <3>1, <3>2
  <2> QED BY <1>7, <2>1, <2>2
<1>11. ToSet(rest) = ToSet(s) \ {t}
  <2>2. \A u : u \in ToSet(s) \ {t} <=> \E i \in kept : u = s[i]
    BY DEF ToSet
  <2>3. \A u : u \in ToSet(rest) <=> \E n \in 1..size : u = rest[n]
    BY <1>9 DEF ToSet
  <2>4. \A n \in 1..size : \E i \in kept : rest[n] = s[i]
    BY <1>7
  <2> HIDE DEF kept, size
  <2> QED BY <1>10, <2>2, <2>3, <2>4
<1> QED BY <1>1, <1>9, <1>11
-----------------------------------------------------------------------------
(* The lock *)

LoopLabels == {"none", "poll", "await", "sleep"}

LockTypes ==
  /\ open \subseteq Tabs /\ visible \subseteq open
  /\ lockHolder \in Tabs \cup {NoTab} /\ queue \in Seq(open)
  /\ news \in [Tabs -> Seq(Notices)]
  /\ loop \in [Tabs -> LoopLabels]

\* A tab hears of grants and thefts in turn, and ends up as the lock has it.
TenuresAlternate == \A t \in Tabs : Alternates(news[t], loop[t] # "none", lockHolder = t)

ClosedTabsAreSilent == \A t \in Tabs \ open : news[t] = <<>> /\ loop[t] = "none" /\ lockHolder # t

LockInv == LockTypes /\ TenuresAlternate /\ ClosedTabsAreSilent /\ EveryTabIsInLine /\ LookedAtTabLeads

\* What the steps that leave the lock alone keep of it.
LEMMA LockStandsStill ==
  ASSUME LockInv, UNCHANGED <<lockVars, open>>, visible' \subseteq open, LookedAtTabLeads',
         loop' \in [Tabs -> LoopLabels],
         \A t \in Tabs : loop'[t] = "none" <=> loop[t] = "none"
  PROVE  LockInv'
<1> USE DEF LockInv, lockVars
<1>1. LockTypes'
  BY DEF LockTypes
<1>2. TenuresAlternate'
  <2> SUFFICES ASSUME NEW t \in Tabs PROVE Alternates(news'[t], loop'[t] # "none", lockHolder' = t)
    BY DEF TenuresAlternate
  <2>1. Alternates(news[t], loop[t] # "none", lockHolder = t)
    BY DEF TenuresAlternate
  <2>2. UNCHANGED <<news, lockHolder>> /\ ((loop'[t] # "none") = (loop[t] # "none"))
    OBVIOUS
  <2> QED BY <2>1, <2>2
<1>3. ClosedTabsAreSilent'
  BY DEF ClosedTabsAreSilent
<1>4. EveryTabIsInLine'
  BY DEF EveryTabIsInLine
<1> QED BY <1>1, <1>2, <1>3, <1>4

\* A tab whose loop rests takes the lock.
LEMMA StealKeepsLine ==
  ASSUME LockInv, NEW t \in Tabs, Steal(t), loop[t] = "none", UNCHANGED loop,
         latest' = t, open' = open \cup {t}, visible' = visible \cup {t}
  PROVE  LockInv'
<1> USE PollConstants DEF LockInv
<1> DEFINE told == IF lockHolder = NoTab THEN news ELSE [news EXCEPT ![lockHolder] = Append(@, "stolen")]
<1>1. lockHolder' = t /\ news' = [told EXCEPT ![t] = Append(@, "granted")]
  BY DEF Steal
<1>2. told \in [Tabs -> Seq(Notices)] /\ \A s \in Tabs : told[s] = IF lockHolder = s THEN Append(news[s], "stolen") ELSE news[s]
  BY DEF LockTypes, Notices
<1> HIDE DEF told
<1>3. news' \in [Tabs -> Seq(Notices)] /\ \A s \in Tabs : news'[s] = IF s = t THEN Append(told[s], "granted") ELSE told[s]
  <2>1. Append(told[t], "granted") \in Seq(Notices)
    BY <1>2 DEF Notices
  <2> QED BY <1>1, <1>2, <2>1
<1>4. queue' \in Seq(open) /\ \A u \in ToSet(queue) : u = t \/ u \in ToSet(queue')
  BY WithoutLastElements DEF LockTypes, Steal
<1>5. LockTypes'
  <2>1. queue' \in Seq(open')
    BY <1>4, SeqMonotonic
  <2> QED BY <1>1, <1>3, <2>1 DEF LockTypes
<1>6. ASSUME NEW s \in Tabs PROVE Alternates(told[s], loop[s] # "none", FALSE)
  <2>1. Alternates(news[s], loop[s] # "none", lockHolder = s) /\ news[s] \in Seq(Notices)
    BY DEF TenuresAlternate, LockTypes
  <2>2. CASE lockHolder = s
    <3>1. Alternates(news[s], loop[s] # "none", TRUE)
      BY <2>1, <2>2
    <3> QED BY <1>2, <2>1, <2>2, <3>1, TheftKeepsOrder
  <2>3. CASE lockHolder # s
    <3>1. Alternates(news[s], loop[s] # "none", FALSE)
      BY <2>1, <2>3
    <3> QED BY <1>2, <2>3, <3>1
  <2> QED BY <2>2, <2>3
<1>7. TenuresAlternate'
  <2> SUFFICES ASSUME NEW s \in Tabs PROVE Alternates(news'[s], loop'[s] # "none", lockHolder' = s)
    BY DEF TenuresAlternate
  <2>1. told[s] \in Seq(Notices)
    BY <1>2
  <2>2. CASE s = t
    <3>1. Alternates(news'[s], loop[s] # "none", TRUE)
      BY <1>3, <1>6, <2>1, <2>2, GrantKeepsOrder
    <3> QED BY <1>1, <2>2, <3>1
  <2>3. CASE s # t
    <3>1. Alternates(news'[s], loop[s] # "none", FALSE)
      BY <1>3, <1>6, <2>3
    <3> QED BY <1>1, <2>3, <3>1
  <2> QED BY <2>2, <2>3
<1>8. ClosedTabsAreSilent'
  BY <1>1, <1>2, <1>3 DEF ClosedTabsAreSilent
<1>9. EveryTabIsInLine'
  <2> SUFFICES ASSUME NEW s \in open', s # t, s \notin ToSet(queue') PROVE "stolen" \in ToSet(news'[s])
    BY <1>1 DEF EveryTabIsInLine
  <2>1. s \in open /\ s \in Tabs /\ news[s] \in Seq(Notices) /\ news'[s] = told[s]
    BY <1>3 DEF LockTypes
  <2>2. CASE lockHolder = s
    <3>1. news'[s] = Append(news[s], "stolen")
      BY <1>2, <2>1, <2>2
    <3>2. Len(news[s]) + 1 \in DOMAIN news'[s] /\ news'[s][Len(news[s]) + 1] = "stolen"
      BY <2>1, <3>1
    <3> QED BY <3>2 DEF ToSet
  <2>3. CASE lockHolder # s
    BY <1>2, <1>4, <2>1, <2>3 DEF EveryTabIsInLine
  <2> QED BY <2>2, <2>3
<1>10. LookedAtTabLeads'
  BY <1>1 DEF LookedAtTabLeads
<1> QED BY <1>5, <1>7, <1>8, <1>9, <1>10

\* A tab whose loop has stopped, and that has just heard so or is new, waits.
LEMMA WaitKeepsLine ==
  ASSUME LockInv, NEW t \in Tabs, NEW after \in [Tabs -> Seq(Notices)], Wait(t, after),
         \A s \in Tabs \ {t} : after[s] = news[s] /\ loop'[s] = loop[s],
         loop' \in [Tabs -> LoopLabels],
         loop'[t] = "none", Alternates(after[t], FALSE, lockHolder = t),
         UNCHANGED <<latest, visible, early>>, open' = open \cup {t}
  PROVE  LockInv'
<1> USE PollConstants DEF LockInv
<1>1. CASE lockHolder = NoTab
  <2>1. lockHolder' = t /\ UNCHANGED queue /\ news' = [after EXCEPT ![t] = Append(@, "granted")]
    BY <1>1 DEF Wait
  <2>2. news' \in [Tabs -> Seq(Notices)] /\ \A s \in Tabs : news'[s] = IF s = t THEN Append(after[t], "granted") ELSE news[s]
    BY <2>1 DEF Notices
  <2>3. LockTypes'
    <3>1. queue' \in Seq(open')
      BY <2>1, SeqMonotonic DEF LockTypes
    <3> QED BY <2>1, <2>2, <3>1 DEF LockTypes
  <2>4. TenuresAlternate'
    <3> SUFFICES ASSUME NEW s \in Tabs PROVE Alternates(news'[s], loop'[s] # "none", lockHolder' = s)
      BY DEF TenuresAlternate
    <3>1. CASE s = t
      <4>1. Alternates(after[t], FALSE, FALSE) /\ after[t] \in Seq(Notices)
        BY <1>1
      <4>2. Alternates(news'[s], FALSE, TRUE)
        BY <2>2, <3>1, <4>1, GrantKeepsOrder
      <4> QED BY <2>1, <3>1, <4>2
    <3>2. CASE s # t
      <4>1. Alternates(news[s], loop[s] # "none", lockHolder = s)
        BY DEF TenuresAlternate
      <4>2. (lockHolder' = s) = (lockHolder = s) /\ (loop'[s] # "none") = (loop[s] # "none") /\ news'[s] = news[s]
        BY <1>1, <2>1, <2>2, <3>2
      <4> QED BY <4>1, <4>2
    <3> QED BY <3>1, <3>2
  <2>5. ClosedTabsAreSilent'
    BY <2>1, <2>2 DEF ClosedTabsAreSilent
  <2>6. EveryTabIsInLine' /\ LookedAtTabLeads'
    BY <1>1, <2>1, <2>2 DEF EveryTabIsInLine, LookedAtTabLeads, LockTypes
  <2> QED BY <2>3, <2>4, <2>5, <2>6
<1>2. CASE lockHolder # NoTab
  <2>1. UNCHANGED lockHolder /\ queue' = Append(queue, t) /\ news' = after
    BY <1>2 DEF Wait
  <2>2. queue' \in Seq(open') /\ t \in ToSet(queue') /\ \A u \in ToSet(queue) : u \in ToSet(queue')
    <3>1. queue \in Seq(open') /\ t \in open'
      BY SeqMonotonic DEF LockTypes
    <3>2. queue' \in Seq(open') /\ Len(queue') = Len(queue) + 1 /\ queue'[Len(queue) + 1] = t
          /\ \A i \in 1..Len(queue) : queue'[i] = queue[i]
      BY <2>1, <3>1
    <3>3. ToSet(Append(queue, t)) = ToSet(queue) \cup {t}
      BY <3>1, AppendElements
    <3> QED BY <2>1, <3>2, <3>3
  <2>3. LockTypes'
    BY <2>1, <2>2 DEF LockTypes
  <2>4. TenuresAlternate'
    <3> SUFFICES ASSUME NEW s \in Tabs PROVE Alternates(news'[s], loop'[s] # "none", lockHolder' = s)
      BY DEF TenuresAlternate
    <3>1. CASE s = t
      <4>1. news'[s] = after[t] /\ (loop'[s] # "none") = FALSE /\ (lockHolder' = s) = (lockHolder = t)
        BY <2>1, <3>1
      <4> QED BY <4>1
    <3>2. CASE s # t
      <4>1. Alternates(news[s], loop[s] # "none", lockHolder = s)
        BY DEF TenuresAlternate
      <4>2. (lockHolder' = s) = (lockHolder = s) /\ (loop'[s] # "none") = (loop[s] # "none") /\ news'[s] = news[s]
        BY <2>1, <3>2
      <4> QED BY <4>1, <4>2
    <3> QED BY <3>1, <3>2
  <2>5. ClosedTabsAreSilent'
    BY <2>1 DEF ClosedTabsAreSilent
  <2>6. EveryTabIsInLine' /\ LookedAtTabLeads'
    BY <2>1, <2>2 DEF EveryTabIsInLine, LookedAtTabLeads, LockTypes
  <2> QED BY <2>3, <2>4, <2>5, <2>6
<1> QED BY <1>1, <1>2

\* A tab is closed: the line moves up.
LEMMA CloseKeepsLine ==
  ASSUME LockInv, NEW t \in Tabs, CloseTab(t)
  PROVE  LockInv'
<1> USE PollConstants DEF LockInv
<1> DEFINE waiting == WithoutAll(queue, t)  silent == [news EXCEPT ![t] = <<>>]
<1>1. t \in open /\ open' = open \ {t} /\ visible' = visible \ {t} /\ early' = early \ {t} /\ UNCHANGED latest
  BY DEF CloseTab
<1>2. waiting \in Seq(open \ {t}) /\ ToSet(waiting) = ToSet(queue) \ {t}
  BY WithoutAllElements DEF LockTypes
<1>3. silent \in [Tabs -> Seq(Notices)] /\ silent[t] = <<>> /\ \A s \in Tabs \ {t} : silent[s] = news[s]
  BY DEF LockTypes
<1>4. loop' \in [Tabs -> LoopLabels] /\ loop'[t] = "none" /\ \A s \in Tabs \ {t} : loop'[s] = loop[s]
  BY DEF CloseTab, LoopTo, LockTypes, LoopLabels
<1>5. \/ /\ lockHolder = t /\ waiting # <<>> /\ lockHolder' = Head(waiting) /\ queue' = Tail(waiting)
         /\ news' = [silent EXCEPT ![Head(waiting)] = Append(@, "granted")]
      \/ /\ lockHolder' = (IF lockHolder = t THEN NoTab ELSE lockHolder) /\ queue' = waiting /\ news' = silent
         /\ ~(lockHolder = t /\ waiting # <<>>)
  BY DEF CloseTab
<1> HIDE DEF waiting, silent
<1>6. Alternates(<<>>, FALSE, FALSE)
  BY DEF Alternates
<1>7. CASE /\ lockHolder = t /\ waiting # <<>> /\ lockHolder' = Head(waiting) /\ queue' = Tail(waiting)
           /\ news' = [silent EXCEPT ![Head(waiting)] = Append(@, "granted")]
  <2> DEFINE h == Head(waiting)
  <2>1. h \in open \ {t} /\ Tail(waiting) \in Seq(open \ {t}) /\ ToSet(waiting) = ToSet(Tail(waiting)) \cup {h}
    BY <1>2, <1>7, HeadTailElements
  <2> HIDE DEF h
  <2>2. lockHolder' = h /\ news' = [silent EXCEPT ![h] = Append(@, "granted")]
    BY <1>7 DEF h
  <2>3. h \in Tabs \ {t} /\ news[h] \in Seq(Notices)
    BY <2>1 DEF LockTypes
  <2>4. Append(news[h], "granted") \in Seq(Notices) /\ ToSet(Append(news[h], "granted")) = ToSet(news[h]) \cup {"granted"}
    BY <2>3, AppendElements DEF Notices
  <2>5. /\ news' \in [Tabs -> Seq(Notices)] /\ news'[t] = <<>> /\ news'[h] = Append(news[h], "granted")
        /\ \A s \in Tabs \ {t, h} : news'[s] = news[s]
    BY <1>3, <2>2, <2>3, <2>4
  <2>6. LockTypes'
    BY <1>1, <1>4, <1>7, <2>1, <2>2, <2>5 DEF LockTypes
  <2>7. TenuresAlternate'
    <3> SUFFICES ASSUME NEW s \in Tabs PROVE Alternates(news'[s], loop'[s] # "none", lockHolder' = s)
      BY DEF TenuresAlternate
    <3>1. CASE s = t
      <4>1. news'[s] = <<>> /\ (loop'[s] # "none") = FALSE /\ (lockHolder' = s) = FALSE
        BY <1>4, <2>2, <2>3, <2>5, <3>1
      <4> QED BY <1>6, <4>1
    <3>2. CASE s = h
      <4>1. Alternates(news[s], loop[s] # "none", lockHolder = s)
        BY DEF TenuresAlternate
      <4>2. (lockHolder = s) = FALSE
        BY <1>7, <2>3, <3>2
      <4>3. Alternates(news[s], loop[s] # "none", FALSE)
        BY <4>1, <4>2
      <4>4. Alternates(Append(news[s], "granted"), loop[s] # "none", TRUE)
        BY <2>3, <3>2, <4>3, GrantKeepsOrder
      <4>5. news'[s] = Append(news[s], "granted") /\ (loop'[s] # "none") = (loop[s] # "none") /\ (lockHolder' = s) = TRUE
        BY <1>4, <2>2, <2>3, <2>5, <3>2
      <4> QED BY <4>4, <4>5
    <3>3. CASE s \notin {t, h}
      <4>1. Alternates(news[s], loop[s] # "none", lockHolder = s)
        BY DEF TenuresAlternate
      <4>2. news'[s] = news[s] /\ (loop'[s] # "none") = (loop[s] # "none") /\ (lockHolder' = s) = (lockHolder = s)
        BY <1>4, <1>7, <2>2, <2>5, <3>3
      <4> QED BY <4>1, <4>2
    <3> QED BY <3>1, <3>2, <3>3
  <2>8. ClosedTabsAreSilent'
    <3> SUFFICES ASSUME NEW s \in Tabs \ open' PROVE news'[s] = <<>> /\ loop'[s] = "none" /\ lockHolder' # s
      BY DEF ClosedTabsAreSilent
    <3>1. s # h
      BY <1>1, <2>1
    <3>2. s = t \/ s \in Tabs \ open
      BY <1>1
    <3> QED BY <1>4, <2>2, <2>5, <3>1, <3>2 DEF ClosedTabsAreSilent
  <2>9. EveryTabIsInLine'
    <3> SUFFICES ASSUME NEW s \in open' PROVE lockHolder' = s \/ s \in ToSet(queue') \/ "stolen" \in ToSet(news'[s])
      BY DEF EveryTabIsInLine
    <3>1. s \in open \ {t} /\ s \in Tabs
      BY <1>1 DEF LockTypes
    <3>2. s \in ToSet(queue) \/ "stolen" \in ToSet(news[s])
      BY <1>7, <3>1 DEF EveryTabIsInLine
    <3>3. s \in ToSet(queue) => s \in ToSet(queue') \/ s = h
      BY <1>2, <1>7, <2>1, <3>1
    <3>4. "stolen" \in ToSet(news[s]) => "stolen" \in ToSet(news'[s])
      BY <2>4, <2>5, <3>1
    <3> QED BY <2>2, <3>2, <3>3, <3>4
  <2>10. LookedAtTabLeads'
    BY <1>1, <1>7 DEF LookedAtTabLeads
  <2> QED BY <2>6, <2>7, <2>8, <2>9, <2>10
<1>8. CASE /\ lockHolder' = (IF lockHolder = t THEN NoTab ELSE lockHolder) /\ queue' = waiting /\ news' = silent
           /\ ~(lockHolder = t /\ waiting # <<>>)
  <2>1. LockTypes'
    BY <1>1, <1>2, <1>3, <1>4, <1>8 DEF LockTypes
  <2>2. TenuresAlternate'
    <3> SUFFICES ASSUME NEW s \in Tabs PROVE Alternates(news'[s], loop'[s] # "none", lockHolder' = s)
      BY DEF TenuresAlternate
    <3>1. CASE s = t
      <4>1. news'[s] = <<>> /\ (loop'[s] # "none") = FALSE /\ (lockHolder' = s) = FALSE
        BY <1>3, <1>4, <1>8, <3>1
      <4> QED BY <1>6, <4>1
    <3>2. CASE s # t
      <4>1. Alternates(news[s], loop[s] # "none", lockHolder = s)
        BY DEF TenuresAlternate
      <4>2. news'[s] = news[s] /\ (loop'[s] # "none") = (loop[s] # "none") /\ (lockHolder' = s) = (lockHolder = s)
        BY <1>3, <1>4, <1>8, <3>2
      <4> QED BY <4>1, <4>2
    <3> QED BY <3>1, <3>2
  <2>3. ClosedTabsAreSilent'
    <3> SUFFICES ASSUME NEW s \in Tabs \ open' PROVE news'[s] = <<>> /\ loop'[s] = "none" /\ lockHolder' # s
      BY DEF ClosedTabsAreSilent
    <3> QED BY <1>1, <1>3, <1>4, <1>8 DEF ClosedTabsAreSilent
  <2>4. EveryTabIsInLine'
    <3> SUFFICES ASSUME NEW s \in open' PROVE lockHolder' = s \/ s \in ToSet(queue') \/ "stolen" \in ToSet(news'[s])
      BY DEF EveryTabIsInLine
    <3>1. s \in open \ {t} /\ s \in Tabs
      BY <1>1 DEF LockTypes
    <3> QED BY <1>2, <1>3, <1>8, <3>1 DEF EveryTabIsInLine
  <2>5. LookedAtTabLeads'
    BY <1>1, <1>8 DEF LookedAtTabLeads, LockTypes
  <2> QED BY <2>1, <2>2, <2>3, <2>4, <2>5
<1> QED BY <1>5, <1>7, <1>8

\* A tab hears that it leads, and its loop begins.
LEMMA GrantIsHeard ==
  ASSUME LockInv, NEW t \in Tabs, HearGranted(t)
  PROVE  LockInv'
<1> USE DEF LockInv
<1>1. UNCHANGED <<lockHolder, queue, open, visible, latest, early>>
  BY DEF HearGranted, tabVars
<1>2. news[t] \in Seq(Notices) /\ news[t] # <<>> /\ Head(news[t]) = "granted"
  BY DEF HearGranted, LockTypes
<1>3. Tail(news[t]) \in Seq(Notices) /\ ToSet(news[t]) = ToSet(Tail(news[t])) \cup {"granted"}
  BY <1>2, HeadTailElements
<1>4. /\ news' \in [Tabs -> Seq(Notices)] /\ news'[t] = Tail(news[t]) /\ \A s \in Tabs \ {t} : news'[s] = news[s]
  BY <1>3 DEF HearGranted, LockTypes
<1>5. loop' \in [Tabs -> LoopLabels] /\ loop'[t] = "poll" /\ \A s \in Tabs \ {t} : loop'[s] = loop[s]
  BY DEF HearGranted, LoopTo, LockTypes, LoopLabels
<1>6. LockTypes'
  BY <1>1, <1>4, <1>5 DEF LockTypes
<1>7. TenuresAlternate'
  <2> SUFFICES ASSUME NEW s \in Tabs PROVE Alternates(news'[s], loop'[s] # "none", lockHolder' = s)
    BY DEF TenuresAlternate
  <2>1. Alternates(news[s], loop[s] # "none", lockHolder = s)
    BY DEF TenuresAlternate
  <2>2. CASE s = t
    <3>1. Alternates(Tail(news[s]), TRUE, lockHolder = s)
      BY <1>2, <2>1, <2>2, HearingKeepsOrder
    <3>2. news'[s] = Tail(news[s]) /\ (loop'[s] # "none") = TRUE /\ UNCHANGED lockHolder
      BY <1>1, <1>4, <1>5, <2>2
    <3> QED BY <3>1, <3>2
  <2>3. CASE s # t
    <3>1. news'[s] = news[s] /\ (loop'[s] # "none") = (loop[s] # "none") /\ UNCHANGED lockHolder
      BY <1>1, <1>4, <1>5, <2>3
    <3> QED BY <2>1, <3>1
  <2> QED BY <2>2, <2>3
<1>8. ClosedTabsAreSilent'
  BY <1>1, <1>2, <1>4, <1>5 DEF ClosedTabsAreSilent
<1>9. EveryTabIsInLine'
  <2>1. ASSUME NEW s \in open, "stolen" \in ToSet(news[s]) PROVE "stolen" \in ToSet(news'[s])
    <3>1. CASE s = t
      BY <1>3, <1>4, <2>1, <3>1
    <3>2. CASE s # t
      BY <1>4, <2>1, <3>2 DEF LockTypes
    <3> QED BY <3>1, <3>2
  <2> QED BY <1>1, <2>1 DEF EveryTabIsInLine
<1>10. LookedAtTabLeads'
  BY <1>1 DEF LookedAtTabLeads
<1> QED BY <1>6, <1>7, <1>8, <1>9, <1>10

\* A tab hears that it has lost the lock, and waits again.
LEMMA TheftIsHeard ==
  ASSUME LockInv, NEW t \in Tabs, HearStolen(t)
  PROVE  LockInv'
<1> DEFINE after == [news EXCEPT ![t] = Tail(@)]
<1>1. Wait(t, after) /\ UNCHANGED <<open, visible, latest, early>>
  BY DEF HearStolen, tabVars
<1>2. news[t] \in Seq(Notices) /\ news[t] # <<>> /\ Head(news[t]) = "stolen"
  BY DEF HearStolen, LockTypes, LockInv
<1>3. Tail(news[t]) \in Seq(Notices)
  BY <1>2, HeadTailElements
<1>4. after \in [Tabs -> Seq(Notices)] /\ after[t] = Tail(news[t]) /\ \A s \in Tabs \ {t} : after[s] = news[s]
  BY <1>3 DEF LockTypes, LockInv
<1>5. loop' \in [Tabs -> LoopLabels] /\ loop'[t] = "none" /\ \A s \in Tabs \ {t} : loop'[s] = loop[s]
  BY DEF HearStolen, LoopTo, LockTypes, LoopLabels, LockInv
<1>6. open' = open \cup {t}
  BY <1>1, <1>2 DEF LockInv, ClosedTabsAreSilent
<1> HIDE DEF after
<1>7. Alternates(after[t], FALSE, lockHolder = t)
  <2>1. Alternates(news[t], loop[t] # "none", lockHolder = t)
    BY DEF TenuresAlternate, LockInv
  <2>2. Alternates(Tail(news[t]), FALSE, lockHolder = t)
    BY <1>2, <2>1, HearingKeepsOrder
  <2> QED BY <1>4, <2>2
<1> QED BY <1>1, <1>4, <1>5, <1>6, <1>7, WaitKeepsLine

\* A tab is opened, in front or behind.
LEMMA OpeningKeepsLine ==
  ASSUME LockInv, NEW t \in Tabs, OpenTab(t)
  PROVE  LockInv'
<1>1. t \notin open /\ open' = open \cup {t} /\ UNCHANGED loop /\ UNCHANGED early
  BY DEF OpenTab
<1>2. loop \in [Tabs -> LoopLabels] /\ loop[t] = "none" /\ news \in [Tabs -> Seq(Notices)]
  BY <1>1 DEF LockInv, ClosedTabsAreSilent, LockTypes
<1>3. CASE visible' = visible \cup {t} /\ latest' = t /\ Steal(t)
  BY <1>1, <1>2, <1>3, StealKeepsLine
<1>4. CASE Wait(t, news) /\ UNCHANGED <<visible, latest>>
  <2>1. Alternates(news[t], loop[t] # "none", lockHolder = t)
    BY DEF TenuresAlternate, LockInv
  <2>2. (loop[t] # "none") = FALSE
    BY <1>2
  <2>3. Alternates(news[t], FALSE, lockHolder = t)
    BY <2>1, <2>2
  <2> QED BY <1>1, <1>2, <1>4, <2>3, WaitKeepsLine
<1> QED BY <1>3, <1>4 DEF OpenTab

\* A loop that runs goes on to its next label.
LEMMA LoopRunsOn ==
  ASSUME LockInv, NEW t \in Tabs, NEW label \in LoopLabels \ {"none"}, loop[t] # "none", LoopTo(t, label)
  PROVE  loop' \in [Tabs -> LoopLabels] /\ \A s \in Tabs : loop'[s] = "none" <=> loop[s] = "none"
BY DEF LoopTo, LockInv, LockTypes, LoopLabels

LEMMA ShowingKeepsLine ==
  ASSUME LockInv, NEW t \in Tabs, Show(t)
  PROVE  LockInv'
<1>1. t \in open /\ visible' = visible \cup {t} /\ latest' = t /\ UNCHANGED open
  BY DEF Show
<1>2. CASE loop[t] = "none"
  <2>1. Steal(t) /\ UNCHANGED loop /\ open' = open \cup {t}
    BY <1>1, <1>2 DEF Show
  <2> QED BY <1>1, <1>2, <2>1, StealKeepsLine
<1>3. CASE loop[t] # "none"
  <2>1. UNCHANGED lockVars /\ LoopTo(t, IF loop[t] = "sleep" THEN "poll" ELSE loop[t])
    BY <1>3 DEF Show
  <2>2. (IF loop[t] = "sleep" THEN "poll" ELSE loop[t]) \in LoopLabels \ {"none"}
    BY <1>3 DEF LockInv, LockTypes, LoopLabels
  <2>3. loop' \in [Tabs -> LoopLabels] /\ \A s \in Tabs : loop'[s] = "none" <=> loop[s] = "none"
    BY <1>3, <2>1, <2>2, LoopRunsOn
  <2>4. early' = IF loop[t] # "none" /\ lockHolder # t THEN early \cup {t} ELSE early \ {t}
    BY DEF Show
  <2>5. LookedAtTabLeads'
    BY <1>1, <1>3, <2>1, <2>4 DEF LookedAtTabLeads, lockVars
  <2>6. visible' \subseteq open
    BY <1>1 DEF LockInv, LockTypes
  <2> QED BY <1>1, <2>1, <2>3, <2>5, <2>6, LockStandsStill
<1> QED BY <1>2, <1>3

-----------------------------------------------------------------------------
(* The polls *)

PollKinds == [seen : Nat, shared : BOOLEAN, awaited : BOOLEAN]

PollTypes ==
  /\ truth \in Nat /\ crossed \in BOOLEAN
  /\ inflight \in [Tabs -> Seq(PollKinds)] /\ posts \in [Tabs -> Seq(Nat)] /\ shown \in [Tabs -> Nat]

\* The loop waits for one poll at most.
AwaitedByLoop ==
  \A t \in Tabs : \A i \in 1..Len(inflight[t]) : inflight[t][i].awaited =>
    loop[t] = "await" /\ \A j \in 1..Len(inflight[t]) : inflight[t][j].awaited => j = i

\* No tab shows, or has been sent, anything newer than v.
NothingNewer(v) == \A s \in Tabs : shown[s] =< v /\ \A j \in 1..Len(posts[s]) : posts[s][j] =< v

TruthIsNewest == NothingNewer(truth) /\ \A t \in Tabs : \A i \in 1..Len(inflight[t]) : inflight[t][i].seen =< truth

\* While no polls have crossed there is one at a time, newer than all that is known.
OnePollAtATime ==
  \A t \in Tabs : inflight[t] # <<>> =>
    /\ Len(inflight[t]) = 1 /\ posts[t] = <<>> /\ NothingNewer(inflight[t][1].seen)
    /\ \A s \in Tabs \ {t} : inflight[s] = <<>>

MessagesAscend ==
  \A t \in Tabs : \A i \in 1..Len(posts[t]) :
    shown[t] =< posts[t][i] /\ \A j \in i..Len(posts[t]) : posts[t][i] =< posts[t][j]

InOrder == ~crossed => OnePollAtATime /\ MessagesAscend

PollInv == PollTypes /\ AwaitedByLoop /\ TruthIsNewest /\ InOrder

LEMMA PollsStandStill ==
  ASSUME PollInv, UNCHANGED <<inflight, posts, shown, crossed>>, truth' \in Nat, truth =< truth',
         \A t \in Tabs : loop[t] = "await" => loop'[t] = "await"
  PROVE  PollInv'
<1> USE DEF PollInv, PollTypes
<1>1. PollTypes' /\ AwaitedByLoop'
  BY DEF AwaitedByLoop
<1>2. TruthIsNewest'
  <2>1. ASSUME NEW s \in Tabs PROVE shown'[s] =< truth' /\ \A j \in 1..Len(posts'[s]) : posts'[s][j] =< truth'
    <3>1. shown[s] \in Nat /\ \A j \in 1..Len(posts[s]) : posts[s][j] \in Nat
      OBVIOUS
    <3> QED BY <3>1 DEF TruthIsNewest, NothingNewer
  <2>2. ASSUME NEW s \in Tabs, NEW i \in 1..Len(inflight'[s]) PROVE inflight'[s][i].seen =< truth'
    <3>1. inflight[s][i] \in PollKinds
      OBVIOUS
    <3> QED BY <3>1 DEF TruthIsNewest, PollKinds
  <2> QED BY <2>1, <2>2 DEF TruthIsNewest, NothingNewer
<1>3. InOrder'
  BY DEF InOrder, OnePollAtATime, MessagesAscend, NothingNewer
<1> QED BY <1>1, <1>2, <1>3

\* A poll is asked for: alone, unless polls cross from now on.
LEMMA AskKeepsOrder ==
  ASSUME PollInv, NEW t \in Tabs, NEW shared \in BOOLEAN, NEW awaited \in BOOLEAN, Asks(t, shared, awaited),
         crossed' = (crossed \/ Overlaps(t)), UNCHANGED <<truth, posts, shown>>, loop[t] # "await",
         \A s \in Tabs \ {t} : loop'[s] = loop[s], awaited => loop'[t] = "await"
  PROVE  PollInv'
<1> USE DEF PollInv, PollTypes
<1> DEFINE poll == [seen |-> truth, shared |-> shared, awaited |-> awaited]
<1>1. poll \in PollKinds /\ poll.seen = truth /\ poll.awaited = awaited
  BY DEF PollKinds
<1>2. inflight' = [inflight EXCEPT ![t] = Append(inflight[t], poll)]
  BY DEF Asks
<1> HIDE DEF poll
<1>3. /\ Append(inflight[t], poll) \in Seq(PollKinds) /\ Len(Append(inflight[t], poll)) = Len(inflight[t]) + 1
      /\ \A i \in 1..Len(inflight[t]) : Append(inflight[t], poll)[i] = inflight[t][i]
      /\ Append(inflight[t], poll)[Len(inflight[t]) + 1] = poll
  BY <1>1
<1>4. /\ inflight' \in [Tabs -> Seq(PollKinds)] /\ inflight'[t] = Append(inflight[t], poll)
      /\ \A s \in Tabs \ {t} : inflight'[s] = inflight[s]
  BY <1>2, <1>3
<1>5. PollTypes'
  BY <1>4
<1>6. AwaitedByLoop'
  <2> SUFFICES ASSUME NEW s \in Tabs, NEW i \in 1..Len(inflight'[s]), inflight'[s][i].awaited
               PROVE  loop'[s] = "await" /\ \A j \in 1..Len(inflight'[s]) : inflight'[s][j].awaited => j = i
    BY DEF AwaitedByLoop
  <2>1. CASE s # t
    BY <1>4, <2>1 DEF AwaitedByLoop
  <2>2. CASE s = t
    <3>1. \A k \in 1..Len(inflight[t]) : ~inflight'[t][k].awaited
      BY <1>3, <1>4 DEF AwaitedByLoop
    <3>2. \A k \in 1..Len(inflight'[t]) : inflight'[t][k].awaited => k = Len(inflight[t]) + 1
      BY <1>3, <1>4, <3>1
    <3> QED BY <1>1, <1>3, <1>4, <2>2, <3>2
  <2> QED BY <2>1, <2>2
<1>7. TruthIsNewest'
  <2>1. NothingNewer(truth)'
    BY DEF TruthIsNewest, NothingNewer
  <2>2. ASSUME NEW s \in Tabs, NEW i \in 1..Len(inflight'[s]) PROVE inflight'[s][i].seen =< truth
    <3>1. CASE s # t
      BY <1>4, <3>1 DEF TruthIsNewest
    <3>2. CASE s = t /\ i \in 1..Len(inflight[t])
      BY <1>3, <1>4, <3>2 DEF TruthIsNewest
    <3>3. CASE s = t /\ i = Len(inflight[t]) + 1
      BY <1>1, <1>3, <1>4, <3>3
    <3> QED BY <1>3, <1>4, <3>1, <3>2, <3>3
  <2> QED BY <2>1, <2>2 DEF TruthIsNewest
<1>8. InOrder'
  <2> SUFFICES ASSUME ~crossed, ~Overlaps(t) PROVE OnePollAtATime' /\ MessagesAscend'
    BY DEF InOrder
  <2>1. posts[t] = <<>> /\ \A s \in Tabs \ {t} : inflight[s] = <<>>
    BY DEF Overlaps
  <2>2. inflight[t] = <<>>
    <3>1. ASSUME inflight[t] # <<>> PROVE FALSE
      <4>1. 1 \in 1..Len(inflight[t]) /\ DOMAIN inflight[t] = 1..Len(inflight[t])
        BY <3>1
      <4> QED BY <4>1 DEF AwaitedByLoop, Overlaps
    <3> QED BY <3>1
  <2>3. Len(inflight'[t]) = 1 /\ inflight'[t][1].seen = truth
    BY <1>1, <1>3, <1>4, <2>2
  <2>4. NothingNewer(inflight[t][1].seen)'
    BY <2>3 DEF TruthIsNewest, NothingNewer
  <2>5. OnePollAtATime'
    BY <1>4, <2>1, <2>3, <2>4 DEF OnePollAtATime
  <2>6. MessagesAscend'
    BY DEF InOrder, MessagesAscend
  <2> QED BY <2>5, <2>6
<1> QED BY <1>5, <1>6, <1>7, <1>8

\* One poll less is under way in a tab.
LEMMA OnePollLess ==
  ASSUME PollInv, NEW t \in Tabs, NEW i \in 1..Len(inflight[t])
  PROVE  LET rest == RemoveAt(inflight[t], i) IN
         /\ rest \in Seq(PollKinds) /\ Len(rest) = Len(inflight[t]) - 1
         /\ \A k \in 1..Len(rest) :
              /\ \E n \in 1..Len(inflight[t]) : rest[k] = inflight[t][n]
              /\ rest[k].awaited => /\ loop[t] = "await" /\ ~inflight[t][i].awaited
                                    /\ \A n \in 1..Len(rest) : rest[n].awaited => n = k
<1> DEFINE rest == RemoveAt(inflight[t], i)
           place(k) == IF k < i THEN k ELSE k + 1
<1>1. inflight[t] \in Seq(PollKinds) /\ Len(inflight[t]) \in Nat
  BY DEF PollInv, PollTypes
<1>2. /\ rest \in Seq(PollKinds) /\ Len(rest) = Len(inflight[t]) - 1
      /\ \A k \in 1..Len(rest) : rest[k] = IF k < i THEN inflight[t][k] ELSE inflight[t][k + 1]
  BY <1>1, RemoveAtElements
<1> HIDE DEF rest
<1>3. ASSUME NEW k \in 1..Len(rest) PROVE place(k) \in 1..Len(inflight[t]) \ {i} /\ rest[k] = inflight[t][place(k)]
  BY <1>1, <1>2
<1>4. \A k, n \in 1..Len(rest) : place(k) = place(n) => k = n
  OBVIOUS
<1> HIDE DEF place
<1>5. ASSUME NEW k \in 1..Len(rest), rest[k].awaited
      PROVE  loop[t] = "await" /\ ~inflight[t][i].awaited /\ \A n \in 1..Len(rest) : rest[n].awaited => n = k
  <2>1. inflight[t][place(k)].awaited /\ place(k) \in 1..Len(inflight[t])
    BY <1>3, <1>5
  <2>2. loop[t] = "await" /\ \A j \in 1..Len(inflight[t]) : inflight[t][j].awaited => j = place(k)
    BY <2>1 DEF PollInv, AwaitedByLoop
  <2> QED BY <1>3, <1>4, <2>2
<1> QED BY <1>2, <1>3, <1>5 DEF rest

\* Nothing is left under way in a tab, or less, and nobody is told anything.
LEMMA FewerPolls ==
  ASSUME PollInv, NEW t \in Tabs, NEW rest \in Seq(PollKinds), inflight' = [inflight EXCEPT ![t] = rest],
         \A k \in 1..Len(rest) : \E i \in 1..Len(inflight[t]) : rest[k].seen = inflight[t][i].seen,
         \A k \in 1..Len(rest) : rest[k].awaited =>
           loop'[t] = "await" /\ \A n \in 1..Len(rest) : rest[n].awaited => n = k,
         Len(rest) =< Len(inflight[t]),
         \A s \in Tabs \ {t} : loop'[s] = loop[s], UNCHANGED <<truth, posts, shown, crossed>>
  PROVE  PollInv'
<1> USE DEF PollInv, PollTypes
<1>1. inflight' \in [Tabs -> Seq(PollKinds)] /\ inflight'[t] = rest /\ \A s \in Tabs \ {t} : inflight'[s] = inflight[s]
  OBVIOUS
<1>2. PollTypes'
  BY <1>1
<1>3. AwaitedByLoop'
  <2> SUFFICES ASSUME NEW s \in Tabs, NEW i \in 1..Len(inflight'[s]), inflight'[s][i].awaited
               PROVE  loop'[s] = "await" /\ \A j \in 1..Len(inflight'[s]) : inflight'[s][j].awaited => j = i
    BY DEF AwaitedByLoop
  <2>1. CASE s # t
    BY ZenonT(40), <1>1, <2>1 DEF AwaitedByLoop
  <2>2. CASE s = t
    BY <1>1, <2>2
  <2> QED BY <2>1, <2>2
<1>4. TruthIsNewest'
  <2>1. NothingNewer(truth)'
    BY DEF TruthIsNewest, NothingNewer
  <2>2. ASSUME NEW s \in Tabs, NEW i \in 1..Len(inflight'[s]) PROVE inflight'[s][i].seen =< truth
    BY <1>1 DEF TruthIsNewest
  <2> QED BY <2>1, <2>2 DEF TruthIsNewest
<1>5. InOrder'
  <2> SUFFICES ASSUME ~crossed PROVE OnePollAtATime' /\ MessagesAscend'
    BY DEF InOrder
  <2>1. MessagesAscend'
    BY DEF InOrder, MessagesAscend
  <2>2. ASSUME NEW s \in Tabs, inflight'[s] # <<>>
        PROVE  /\ Len(inflight'[s]) = 1 /\ posts'[s] = <<>> /\ NothingNewer(inflight[s][1].seen)'
               /\ \A u \in Tabs \ {s} : inflight'[u] = <<>>
    <3>1. Len(inflight'[s]) # 0 /\ Len(inflight'[s]) \in Nat /\ Len(inflight[s]) \in Nat /\ Len(inflight'[s]) =< Len(inflight[s])
      BY <1>1, <2>2
    <3>2. inflight[s] # <<>>
      BY <3>1
    <3>3. /\ Len(inflight[s]) = 1 /\ posts[s] = <<>> /\ NothingNewer(inflight[s][1].seen)
          /\ \A u \in Tabs \ {s} : inflight[u] = <<>>
      BY <3>2 DEF InOrder, OnePollAtATime
    <3>4. Len(inflight'[s]) = 1 /\ inflight'[s][1].seen = inflight[s][1].seen
      <4>1. CASE s = t
        <5>1. Len(rest) = 1 /\ 1 \in 1..Len(rest)
          BY <1>1, <3>1, <3>3, <4>1
        <5>2. PICK n \in 1..Len(inflight[t]) : rest[1].seen = inflight[t][n].seen
          BY <5>1
        <5>3. n = 1
          <6>1. Len(inflight[t]) = 1
            BY <3>3, <4>1
          <6> QED BY <6>1
        <5> QED BY <1>1, <4>1, <5>1, <5>2, <5>3
      <4>2. CASE s # t
        BY <1>1, <3>3, <4>2
      <4> QED BY <4>1, <4>2
    <3>5. NothingNewer(inflight[s][1].seen)'
      BY <3>3, <3>4 DEF NothingNewer
    <3>6. ASSUME NEW u \in Tabs \ {s} PROVE inflight'[u] = <<>>
      <4>1. CASE u = t
        <5>1. Len(rest) = 0
          BY <3>3, <4>1
        <5> QED BY <1>1, <4>1, <5>1
      <4>2. CASE u # t
        BY <1>1, <3>3, <4>2
      <4> QED BY <4>1, <4>2
    <3> QED BY <3>3, <3>4, <3>5, <3>6
  <2> QED BY <2>1, <2>2 DEF OnePollAtATime
<1> QED BY <1>2, <1>3, <1>4, <1>5

\* A tab takes what it showed, and was sent, with it.
LEMMA CloseKeepsOrder ==
  ASSUME PollInv, NEW t \in Tabs, CloseTab(t)
  PROVE  PollInv'
<1> USE DEF PollInv, PollTypes
<1>1. /\ inflight' = [inflight EXCEPT ![t] = <<>>] /\ posts' = [posts EXCEPT ![t] = <<>>]
      /\ shown' = [shown EXCEPT ![t] = 0] /\ UNCHANGED <<truth, crossed>> /\ LoopTo(t, "none")
  BY DEF CloseTab
<1>2. /\ inflight'[t] = <<>> /\ posts'[t] = <<>> /\ shown'[t] = 0
      /\ \A s \in Tabs \ {t} : inflight'[s] = inflight[s] /\ posts'[s] = posts[s] /\ shown'[s] = shown[s] /\ loop'[s] = loop[s]
  BY <1>1 DEF LoopTo
<1>3. PollTypes'
  BY <1>1
<1>4. AwaitedByLoop'
  <2> SUFFICES ASSUME NEW s \in Tabs, NEW i \in 1..Len(inflight'[s]), inflight'[s][i].awaited
               PROVE  loop'[s] = "await" /\ \A j \in 1..Len(inflight'[s]) : inflight'[s][j].awaited => j = i
    BY DEF AwaitedByLoop
  <2>1. s # t
    BY <1>2
  <2> QED BY <1>2, <2>1 DEF AwaitedByLoop
<1>5. ASSUME NEW v \in Nat, NothingNewer(v) PROVE \A s \in Tabs : shown'[s] =< v /\ \A j \in 1..Len(posts'[s]) : posts'[s][j] =< v
  <2> TAKE s \in Tabs
  <2>1. CASE s = t
    BY <1>2, <2>1
  <2>2. CASE s # t
    BY <1>2, <1>5, <2>2 DEF NothingNewer
  <2> QED BY <2>1, <2>2
<1>6. TruthIsNewest'
  <2>1. NothingNewer(truth)'
    BY <1>1, <1>5 DEF TruthIsNewest, NothingNewer
  <2> QED BY <1>1, <1>2, <2>1 DEF TruthIsNewest
<1>7. InOrder'
  <2> SUFFICES ASSUME ~crossed PROVE OnePollAtATime' /\ MessagesAscend'
    BY <1>1 DEF InOrder
  <2>1. MessagesAscend'
    <3> SUFFICES ASSUME NEW s \in Tabs, NEW i \in 1..Len(posts'[s])
                 PROVE  shown'[s] =< posts'[s][i] /\ \A j \in i..Len(posts'[s]) : posts'[s][i] =< posts'[s][j]
      BY DEF MessagesAscend
    <3>1. s # t
      BY <1>2
    <3> QED BY <1>2, <3>1 DEF InOrder, MessagesAscend
  <2>2. ASSUME NEW s \in Tabs, inflight'[s] # <<>>
        PROVE  /\ Len(inflight'[s]) = 1 /\ posts'[s] = <<>> /\ NothingNewer(inflight[s][1].seen)'
               /\ \A u \in Tabs \ {s} : inflight'[u] = <<>>
    <3>1. s # t /\ inflight'[s] = inflight[s] /\ posts'[s] = posts[s]
      BY <1>2, <2>2
    <3>2. Len(inflight[s]) = 1 /\ posts[s] = <<>> /\ NothingNewer(inflight[s][1].seen) /\ \A u \in Tabs \ {s} : inflight[u] = <<>>
      BY <2>2, <3>1 DEF InOrder, OnePollAtATime
    <3>3. inflight[s][1] \in PollKinds
      <4>1. 1 \in 1..Len(inflight[s]) /\ inflight[s] \in Seq(PollKinds)
        BY <3>2
      <4> QED BY <4>1
    <3>4. NothingNewer(inflight[s][1].seen)'
      BY <1>5, <3>1, <3>2, <3>3 DEF PollKinds, NothingNewer
    <3> QED BY <1>2, <3>1, <3>2, <3>4
  <2> QED BY <2>1, <2>2 DEF OnePollAtATime
<1> QED BY <1>3, <1>4, <1>6, <1>7

\* An answer is shown and sent on.
LEMMA AnswerKeepsOrder ==
  ASSUME PollInv, LockInv, NEW t \in Tabs, NEW i \in 1..MaxPolls, PollAnswers(t, i)
  PROVE  PollInv' /\ \A s \in Tabs : shown'[s] < shown[s] => crossed
<1> USE DEF PollInv, PollTypes
<1> DEFINE poll == inflight[t][i]  seen == poll.seen  rest == RemoveAt(inflight[t], i)
<1>1. /\ i \in DOMAIN inflight[t] /\ inflight' = [inflight EXCEPT ![t] = rest]
      /\ shown' = [shown EXCEPT ![t] = seen]
      /\ posts' = [s \in Tabs |-> IF poll.shared /\ s \in open \ {t} THEN Append(posts[s], seen) ELSE posts[s]]
      /\ IF poll.awaited THEN LoopTo(t, "sleep") ELSE UNCHANGED loop
      /\ UNCHANGED <<truth, crossed>>
  BY DEF PollAnswers
<1>2. i \in 1..Len(inflight[t]) /\ poll \in PollKinds /\ seen \in Nat /\ seen =< truth
  <2>1. i \in 1..Len(inflight[t])
    BY <1>1
  <2>2. poll \in PollKinds
    BY <2>1
  <2> QED BY <2>1, <2>2 DEF TruthIsNewest, PollKinds
<1>3. /\ rest \in Seq(PollKinds) /\ Len(rest) = Len(inflight[t]) - 1
      /\ \A k \in 1..Len(rest) :
           /\ \E n \in 1..Len(inflight[t]) : rest[k] = inflight[t][n]
           /\ rest[k].awaited => /\ loop[t] = "await" /\ ~poll.awaited
                                 /\ \A n \in 1..Len(rest) : rest[n].awaited => n = k
  BY <1>2, OnePollLess
<1> HIDE DEF rest
<1> HIDE DEF poll, seen
<1>4. /\ inflight' \in [Tabs -> Seq(PollKinds)] /\ shown' \in [Tabs -> Nat] /\ posts' \in [Tabs -> Seq(Nat)]
      /\ inflight'[t] = rest /\ \A s \in Tabs \ {t} : inflight'[s] = inflight[s]
      /\ shown'[t] = seen /\ posts'[t] = posts[t] /\ \A s \in Tabs \ {t} : shown'[s] = shown[s]
  BY <1>1, <1>2, <1>3
<1>5. PollTypes'
  BY <1>1, <1>4
<1>6. \A s \in Tabs : posts'[s] = posts[s] \/ posts'[s] = Append(posts[s], seen)
  BY <1>1
<1>7. ASSUME NEW s \in Tabs, NEW j \in 1..Len(posts'[s])
      PROVE  \/ j \in 1..Len(posts[s]) /\ posts'[s][j] = posts[s][j]
             \/ j = Len(posts[s]) + 1 /\ posts'[s][j] = seen
  <2>1. CASE posts'[s] = posts[s]
    BY <2>1
  <2>2. CASE posts'[s] = Append(posts[s], seen)
    <3>1. posts[s] \in Seq(Nat) /\ Len(posts[s]) \in Nat /\ Len(posts'[s]) = Len(posts[s]) + 1
      BY <1>2, <2>2
    <3>2. j \in 1..Len(posts[s]) \/ j = Len(posts[s]) + 1
      BY <3>1
    <3> QED BY <1>2, <2>2, <3>1, <3>2
  <2> QED BY <1>6, <2>1, <2>2
<1>8. \A k \in 1..Len(inflight'[t]) : \E n \in 1..Len(inflight[t]) : inflight'[t][k] = inflight[t][n]
  BY <1>3, <1>4
<1>9. AwaitedByLoop'
  <2> SUFFICES ASSUME NEW s \in Tabs, NEW k \in 1..Len(inflight'[s]), inflight'[s][k].awaited
               PROVE  loop'[s] = "await" /\ \A j \in 1..Len(inflight'[s]) : inflight'[s][j].awaited => j = k
    BY DEF AwaitedByLoop
  <2>1. CASE s # t
    <3>1. loop'[s] = loop[s]
      BY <1>1, <2>1 DEF LoopTo, LockInv, LockTypes
    <3> QED BY <1>4, <2>1, <3>1 DEF AwaitedByLoop
  <2>2. CASE s = t
    <3>1. loop[t] = "await" /\ ~poll.awaited
      BY <1>3, <1>4, <2>2
    <3> QED BY <1>1, <1>3, <1>4, <2>2, <3>1
  <2> QED BY <2>1, <2>2
<1>10. ASSUME NEW v \in Nat, NothingNewer(v), seen =< v
       PROVE  \A s \in Tabs : shown'[s] =< v /\ \A j \in 1..Len(posts'[s]) : posts'[s][j] =< v
  <2> TAKE s \in Tabs
  <2>1. shown'[s] =< v
    BY <1>4, <1>10 DEF NothingNewer
  <2>2. \A j \in 1..Len(posts'[s]) : posts'[s][j] =< v
    BY <1>7, <1>10 DEF NothingNewer
  <2> QED BY <2>1, <2>2
<1>11. TruthIsNewest'
  <2>1. NothingNewer(truth)'
    BY <1>1, <1>2, <1>10 DEF TruthIsNewest, NothingNewer
  <2>2. ASSUME NEW s \in Tabs, NEW k \in 1..Len(inflight'[s]) PROVE inflight'[s][k].seen =< truth
    BY ZenonT(40), <1>4, <1>8 DEF TruthIsNewest
  <2> QED BY <1>1, <2>1, <2>2 DEF TruthIsNewest
<1>12. ASSUME ~crossed
       PROVE  /\ inflight[t] # <<>> /\ Len(inflight[t]) = 1 /\ posts[t] = <<>> /\ NothingNewer(seen)
              /\ \A u \in Tabs \ {t} : inflight[u] = <<>>
  <2>1. inflight[t] # <<>>
    BY <1>2
  <2>2. /\ Len(inflight[t]) = 1 /\ posts[t] = <<>> /\ NothingNewer(inflight[t][1].seen)
        /\ \A u \in Tabs \ {t} : inflight[u] = <<>>
    BY <1>12, <2>1 DEF InOrder, OnePollAtATime
  <2>3. i = 1
    BY <1>2, <2>2
  <2> QED BY <2>1, <2>2, <2>3 DEF seen, poll
<1>13. InOrder'
  <2> SUFFICES ASSUME ~crossed PROVE OnePollAtATime' /\ MessagesAscend'
    BY <1>1 DEF InOrder
  <2>1. \A s \in Tabs : inflight'[s] = <<>>
    <3>1. Len(inflight'[t]) = 0
      BY <1>3, <1>4, <1>12
    <3>2. inflight'[t] = <<>>
      BY <1>4, <3>1
    <3> QED BY <1>4, <1>12, <3>2
  <2>2. ASSUME NEW s \in Tabs, NEW k \in 1..Len(posts'[s])
        PROVE  shown'[s] =< posts'[s][k] /\ \A j \in k..Len(posts'[s]) : posts'[s][k] =< posts'[s][j]
    <3>1. s # t
      <4>1. Len(posts'[t]) = 0
        BY <1>4, <1>12
      <4> QED BY <2>2, <4>1
    <3>2. shown'[s] = shown[s] /\ shown[s] =< seen /\ \A j \in 1..Len(posts[s]) : posts[s][j] =< seen
      BY <1>4, <1>12, <3>1 DEF NothingNewer
    <3>3. \A j \in 1..Len(posts[s]) : shown[s] =< posts[s][j] /\ \A n \in j..Len(posts[s]) : posts[s][j] =< posts[s][n]
      BY DEF InOrder, MessagesAscend
    <3>4. shown'[s] =< posts'[s][k]
      BY <1>7, <3>2, <3>3
    <3>5. ASSUME NEW j \in k..Len(posts'[s]) PROVE posts'[s][k] =< posts'[s][j]
      <4>1. j \in 1..Len(posts'[s]) /\ k =< j /\ Len(posts[s]) \in Nat
        OBVIOUS
      <4>4. \/ k \in 1..Len(posts[s]) /\ posts'[s][k] = posts[s][k]
            \/ k = Len(posts[s]) + 1 /\ posts'[s][k] = seen
        BY <1>7
      <4>2. CASE j \in 1..Len(posts[s]) /\ posts'[s][j] = posts[s][j]
        <5>1. k \in 1..Len(posts[s]) /\ j \in k..Len(posts[s]) /\ posts'[s][k] = posts[s][k]
          BY <4>1, <4>2, <4>4
        <5> QED BY <3>3, <4>2, <5>1
      <4>3. CASE posts'[s][j] = seen
        BY SMTT(30), <1>2, <3>2, <4>3, <4>4
      <4> QED BY <1>7, <4>1, <4>2, <4>3
    <3> QED BY <3>4, <3>5
  <2> QED BY <2>1, <2>2 DEF OnePollAtATime, MessagesAscend
<1>14. ASSUME NEW s \in Tabs, shown'[s] < shown[s] PROVE crossed
  <2> SUFFICES ASSUME ~crossed PROVE FALSE
    OBVIOUS
  <2>1. shown[s] =< seen /\ shown[s] \in Nat
    BY <1>12 DEF NothingNewer
  <2>2. CASE s = t
    BY <1>2, <1>4, <1>14, <2>1, <2>2
  <2>3. CASE s # t
    BY <1>4, <1>14, <2>1, <2>3
  <2> QED BY <2>2, <2>3
<1> QED BY <1>5, <1>9, <1>11, <1>13, <1>14

\* A message is read.
LEMMA ReceiptKeepsOrder ==
  ASSUME PollInv, NEW t \in Tabs, Receive(t)
  PROVE  PollInv' /\ \A s \in Tabs : shown'[s] < shown[s] => crossed
<1> USE DEF PollInv, PollTypes
<1>1. /\ posts[t] # <<>> /\ shown' = [shown EXCEPT ![t] = Head(posts[t])] /\ posts' = [posts EXCEPT ![t] = Tail(posts[t])]
      /\ UNCHANGED <<truth, loop, inflight, crossed>>
  BY DEF Receive
<1>2. /\ Len(posts[t]) \in Nat \ {0} /\ Head(posts[t]) = posts[t][1] /\ posts[t][1] \in Nat /\ Tail(posts[t]) \in Seq(Nat)
      /\ Len(Tail(posts[t])) = Len(posts[t]) - 1 /\ \A j \in 1..Len(posts[t]) - 1 : Tail(posts[t])[j] = posts[t][j + 1]
  BY <1>1
<1>3. /\ PollTypes' /\ shown'[t] = posts[t][1] /\ posts'[t] = Tail(posts[t])
      /\ \A s \in Tabs \ {t} : shown'[s] = shown[s] /\ posts'[s] = posts[s]
  BY <1>1, <1>2
<1>4. ASSUME NEW j \in 1..Len(posts'[t]) PROVE j + 1 \in 1..Len(posts[t]) /\ posts'[t][j] = posts[t][j + 1]
  BY <1>2, <1>3
<1>5. AwaitedByLoop'
  BY <1>1 DEF AwaitedByLoop
<1>6. ASSUME NEW v, NothingNewer(v)
      PROVE  \A s \in Tabs : shown'[s] =< v /\ \A j \in 1..Len(posts'[s]) : posts'[s][j] =< v
  <2> TAKE s \in Tabs
  <2>1. CASE s = t
    <3>1. shown'[s] =< v
      <4>1. 1 \in 1..Len(posts[t])
        BY <1>2
      <4> QED BY <1>3, <1>6, <2>1, <4>1 DEF NothingNewer
    <3>2. \A j \in 1..Len(posts'[s]) : posts'[s][j] =< v
      BY <1>4, <1>6, <2>1 DEF NothingNewer
    <3> QED BY <3>1, <3>2
  <2>2. CASE s # t
    BY <1>3, <1>6, <2>2 DEF NothingNewer
  <2> QED BY <2>1, <2>2
<1>7. TruthIsNewest'
  BY <1>1, <1>6 DEF TruthIsNewest, NothingNewer
<1>8. InOrder'
  <2> SUFFICES ASSUME ~crossed PROVE OnePollAtATime' /\ MessagesAscend'
    BY <1>1 DEF InOrder
  <2>1. OnePollAtATime'
    <3> SUFFICES ASSUME NEW s \in Tabs, inflight[s] # <<>>
                 PROVE  /\ Len(inflight[s]) = 1 /\ posts'[s] = <<>> /\ NothingNewer(inflight[s][1].seen)'
                        /\ \A u \in Tabs \ {s} : inflight[u] = <<>>
      BY <1>1 DEF OnePollAtATime
    <3>1. Len(inflight[s]) = 1 /\ posts[s] = <<>> /\ NothingNewer(inflight[s][1].seen) /\ \A u \in Tabs \ {s} : inflight[u] = <<>>
      BY DEF InOrder, OnePollAtATime
    <3>2. posts'[s] = <<>>
      BY <1>1, <1>3, <3>1
    <3>3. NothingNewer(inflight[s][1].seen)'
      BY <1>1, <1>6, <3>1 DEF NothingNewer
    <3> QED BY <3>1, <3>2, <3>3
  <2>2. ASSUME NEW s \in Tabs, NEW k \in 1..Len(posts'[s])
        PROVE  shown'[s] =< posts'[s][k] /\ \A j \in k..Len(posts'[s]) : posts'[s][k] =< posts'[s][j]
    <3>1. CASE s # t
      BY <1>3, <3>1 DEF InOrder, MessagesAscend
    <3>2. CASE s = t
      <4>1. \A n \in 1..Len(posts[t]) : \A j \in n..Len(posts[t]) : posts[t][n] =< posts[t][j]
        BY DEF InOrder, MessagesAscend
      <4>2. k + 1 \in 1..Len(posts[t]) /\ posts'[t][k] = posts[t][k + 1]
        BY <1>4, <3>2
      <4>3. shown'[s] =< posts'[s][k]
        <5>1. 1 \in 1..Len(posts[t]) /\ k + 1 \in 1..Len(posts[t])
          BY <1>2, <4>2
        <5> QED BY <1>3, <3>2, <4>1, <4>2, <5>1
      <4>4. ASSUME NEW j \in k..Len(posts'[s]) PROVE posts'[s][k] =< posts'[s][j]
        <5>1. j + 1 \in (k + 1)..Len(posts[t]) /\ posts'[t][j] = posts[t][j + 1]
          BY <1>4, <3>2
        <5> QED BY <3>2, <4>1, <4>2, <5>1
      <4> QED BY <4>3, <4>4
    <3> QED BY <3>1, <3>2
  <2> QED BY <2>1, <2>2 DEF MessagesAscend
<1>9. ASSUME NEW s \in Tabs, shown'[s] < shown[s] PROVE crossed
  <2> SUFFICES ASSUME ~crossed PROVE FALSE
    OBVIOUS
  <2>1. shown[t] =< posts[t][1] /\ shown[t] \in Nat /\ shown[s] \in Nat
    BY <1>2 DEF InOrder, MessagesAscend
  <2>2. CASE s = t
    BY <1>2, <1>3, <1>9, <2>1, <2>2
  <2>3. CASE s # t
    BY <1>3, <1>9, <2>1, <2>3
  <2> QED BY <2>2, <2>3
<1> QED BY <1>3, <1>5, <1>7, <1>8, <1>9

-----------------------------------------------------------------------------
(* Every step *)

TabsInv == LockInv /\ PollInv

LEMMA TabsStart == PollInit => TabsInv
<1> SUFFICES ASSUME PollInit PROVE TabsInv
  OBVIOUS
<1> USE DEF PollInit
<1>1. LockTypes
  BY DEF LockTypes, LoopLabels
<1>2. TenuresAlternate
  <2>1. Alternates(<<>>, FALSE, FALSE)
    BY DEF Alternates
  <2> SUFFICES ASSUME NEW t \in Tabs PROVE Alternates(news[t], loop[t] # "none", lockHolder = t)
    BY DEF TenuresAlternate
  <2>2. news[t] = <<>> /\ (loop[t] # "none") = FALSE /\ (lockHolder = t) = FALSE
    BY PollConstants
  <2> QED BY <2>1, <2>2
<1>3. ClosedTabsAreSilent
  BY PollConstants DEF ClosedTabsAreSilent
<1>4. EveryTabIsInLine /\ LookedAtTabLeads
  BY DEF EveryTabIsInLine, LookedAtTabLeads
<1>5. PollTypes /\ AwaitedByLoop
  <2>1. <<>> \in Seq(PollKinds) /\ <<>> \in Seq(Nat)
    OBVIOUS
  <2>2. PollTypes
    BY <2>1 DEF PollTypes
  <2>3. \A t \in Tabs : Len(inflight[t]) = 0
    OBVIOUS
  <2> QED BY <2>2, <2>3 DEF AwaitedByLoop
<1>6. TruthIsNewest /\ InOrder
  BY DEF TruthIsNewest, NothingNewer, InOrder, OnePollAtATime, MessagesAscend
<1> QED BY <1>1, <1>2, <1>3, <1>4, <1>5, <1>6 DEF TabsInv, LockInv, PollInv

LEMMA TabsSwitch ==
  ASSUME TabsInv, NEW t \in Tabs, Switches(t)
  PROVE  TabsInv' /\ \A s \in Tabs : shown'[s] < shown[s] => s \notin open'
<1> USE DEF TabsInv
<1>0. shown \in [Tabs -> Nat] /\ loop \in [Tabs -> LoopLabels] /\ truth \in Nat
  BY DEF PollInv, PollTypes, LockInv, LockTypes
<1>1. CASE OpenTab(t)
  <2>1. LockInv'
    BY <1>1, OpeningKeepsLine
  <2>2. UNCHANGED <<truth, loop, posts, shown>>
    BY <1>1 DEF OpenTab
  <2>3. ASSUME UNCHANGED <<inflight, crossed>> PROVE PollInv'
    <3>1. UNCHANGED <<inflight, posts, shown, crossed>> /\ \A s \in Tabs : loop[s] = "await" => loop'[s] = "await"
      BY <2>2, <2>3
    <3>2. truth' \in Nat /\ truth =< truth'
      BY <1>0, <2>2
    <3> QED BY <3>1, <3>2, PollsStandStill
  <2>4. ASSUME Asks(t, FALSE, FALSE), crossed' = (crossed \/ Overlaps(t)) PROVE PollInv'
    <3>1. loop[t] = "none"
      BY <1>1 DEF OpenTab, LockInv, ClosedTabsAreSilent
    <3>2. loop[t] # "await" /\ \A s \in Tabs \ {t} : loop'[s] = loop[s]
      BY <2>2, <3>1
    <3>3. FALSE \in BOOLEAN /\ (FALSE => loop'[t] = "await")
      OBVIOUS
    <3> QED BY <2>2, <2>4, <3>2, <3>3, AskKeepsOrder
  <2>5. PollInv'
    BY <1>1, <2>3, <2>4 DEF OpenTab
  <2> QED BY <1>0, <2>1, <2>2, <2>5
<1>2. CASE Show(t)
  <2>1. LockInv'
    BY <1>2, ShowingKeepsLine
  <2>2. UNCHANGED <<truth, inflight, posts, shown, crossed>> /\ \A s \in Tabs : loop[s] = "await" => loop'[s] = "await"
    BY <1>0, <1>2 DEF Show, LoopTo
  <2>3. PollInv'
    BY <2>2, PollsStandStill DEF PollInv, PollTypes
  <2> QED BY <1>0, <2>1, <2>2, <2>3
<1>3. CASE Hide(t)
  <2>1. UNCHANGED <<truth, lockVars, loop, inflight, posts, shown, crossed, open, latest, early>> /\ visible' = visible \ {t}
    BY <1>3 DEF Hide, pollVars
  <2>2. LookedAtTabLeads' /\ visible' \subseteq open
    BY <2>1 DEF LockInv, LockTypes, LookedAtTabLeads, lockVars
  <2>3. LockInv'
    BY <1>0, <2>1, <2>2, LockStandsStill
  <2>4. PollInv'
    BY <2>1, PollsStandStill DEF PollInv, PollTypes
  <2> QED BY <1>0, <2>1, <2>3, <2>4
<1>4. CASE CloseTab(t)
  <2>1. LockInv' /\ PollInv'
    BY <1>4, CloseKeepsLine, CloseKeepsOrder
  <2>2. t \notin open' /\ \A s \in Tabs \ {t} : shown'[s] = shown[s]
    BY <1>0, <1>4 DEF CloseTab
  <2>3. ASSUME NEW s \in Tabs, shown'[s] < shown[s] PROVE s = t
    BY <1>0, <2>2, <2>3
  <2> QED BY <2>1, <2>2, <2>3
<1> QED BY <1>1, <1>2, <1>3, <1>4 DEF Switches

LEMMA TabsHear ==
  ASSUME TabsInv, NEW t \in Tabs, Hears(t)
  PROVE  TabsInv' /\ UNCHANGED shown
<1> USE DEF TabsInv
<1>0. /\ loop \in [Tabs -> LoopLabels] /\ inflight \in [Tabs -> Seq(PollKinds)]
      /\ Alternates(news[t], loop[t] # "none", lockHolder = t) /\ news[t] \in Seq(Notices)
  BY DEF PollInv, PollTypes, LockInv, LockTypes, TenuresAlternate
<1>1. CASE HearGranted(t)
  <2>1. LockInv'
    BY <1>1, GrantIsHeard
  <2>2. news[t] # <<>> /\ Head(news[t]) = "granted" /\ LoopTo(t, "poll") /\ UNCHANGED <<truth, inflight, posts, shown, crossed>>
    BY <1>1 DEF HearGranted
  <2>3. ~(loop[t] # "none")
    BY <1>0, <2>2, HearingKeepsOrder
  <2>4. \A s \in Tabs : loop[s] = "await" => loop'[s] = "await"
    BY <1>0, <2>2, <2>3 DEF LoopTo
  <2>5. PollInv'
    BY <2>2, <2>4, PollsStandStill DEF PollInv, PollTypes
  <2> QED BY <2>1, <2>2, <2>5
<1>2. CASE HearStolen(t)
  <2> DEFINE rest == [i \in DOMAIN inflight[t] |-> [inflight[t][i] EXCEPT !.awaited = FALSE]]
  <2>1. LockInv'
    BY <1>2, TheftIsHeard
  <2>2. inflight' = [inflight EXCEPT ![t] = rest] /\ LoopTo(t, "none") /\ UNCHANGED <<truth, posts, shown, crossed>>
    BY <1>2 DEF HearStolen
  <2>3. DOMAIN inflight[t] = 1..Len(inflight[t]) /\ Len(inflight[t]) \in Nat /\ \A i \in 1..Len(inflight[t]) : inflight[t][i] \in PollKinds
    BY <1>0
  <2>4. rest \in [1..Len(inflight[t]) -> PollKinds] /\ \A k \in 1..Len(inflight[t]) : ~rest[k].awaited /\ rest[k].seen = inflight[t][k].seen
    BY <2>3 DEF PollKinds
  <2> HIDE DEF rest
  <2>5. rest \in Seq(PollKinds) /\ Len(rest) = Len(inflight[t])
    <3>1. Seq(PollKinds) = UNION {[1..n -> PollKinds] : n \in Nat}
      BY SeqDef
    <3>2. rest \in Seq(PollKinds)
      BY <2>3, <2>4, <3>1
    <3>3. DOMAIN rest = 1..Len(inflight[t])
      BY <2>4
    <3> QED BY <2>3, <3>2, <3>3
  <2>6. \A s \in Tabs \ {t} : loop'[s] = loop[s]
    BY <1>0, <2>2 DEF LoopTo
  <2>7. \A k \in 1..Len(rest) : ~rest[k].awaited /\ \E i \in 1..Len(inflight[t]) : rest[k].seen = inflight[t][i].seen
    BY <2>4, <2>5
  <2>8. PollInv'
    <3>1. Len(rest) =< Len(inflight[t])
      BY <2>3, <2>5
    <3>2. \A k \in 1..Len(rest) : rest[k].awaited => loop'[t] = "await" /\ \A n \in 1..Len(rest) : rest[n].awaited => n = k
      BY <2>7
    <3>3. \A k \in 1..Len(rest) : \E i \in 1..Len(inflight[t]) : rest[k].seen = inflight[t][i].seen
      BY <2>7
    <3> QED BY <2>2, <2>5, <2>6, <3>1, <3>2, <3>3, FewerPolls
  <2> QED BY <2>1, <2>2, <2>8
<1> QED BY <1>1, <1>2 DEF Hears

\* A step of a loop that leaves the lock alone.
LEMMA LoopStepKeepsLine ==
  ASSUME TabsInv, UNCHANGED <<lockVars, tabVars>>, loop' \in [Tabs -> LoopLabels],
         \A s \in Tabs : loop'[s] = "none" <=> loop[s] = "none"
  PROVE  LockInv'
<1>1. LookedAtTabLeads'
  BY DEF TabsInv, LockInv, LookedAtTabLeads, lockVars, tabVars
<1>2. visible' \subseteq open /\ UNCHANGED open
  BY DEF TabsInv, LockInv, LockTypes, tabVars
<1> QED BY <1>1, <1>2, LockStandsStill DEF TabsInv

LEMMA TabsPoll ==
  ASSUME TabsInv, NEW t \in Tabs, Polls(t)
  PROVE  TabsInv' /\ \A s \in Tabs : shown'[s] < shown[s] => crossed
<1> USE DEF TabsInv
<1>0. shown \in [Tabs -> Nat] /\ loop \in [Tabs -> LoopLabels] /\ inflight \in [Tabs -> Seq(PollKinds)]
  BY DEF PollInv, PollTypes, LockInv, LockTypes
<1>1. CASE PollAsks(t)
  <2>1. /\ loop[t] = "poll" /\ LoopTo(t, "await") /\ Asks(t, TRUE, TRUE) /\ crossed' = (crossed \/ Overlaps(t))
        /\ UNCHANGED <<truth, lockVars, posts, shown, tabVars>>
    BY <1>1 DEF PollAsks
  <2>2. loop'[t] = "await" /\ \A s \in Tabs \ {t} : loop'[s] = loop[s]
    BY <1>0, <2>1 DEF LoopTo
  <2>3. PollInv'
    BY <2>1, <2>2, AskKeepsOrder
  <2>4. LockInv'
    BY <2>1, LoopRunsOn, LoopStepKeepsLine DEF LoopLabels
  <2> QED BY <1>0, <2>1, <2>3, <2>4
<1>2. ASSUME NEW i \in 1..MaxPolls, i \in DOMAIN inflight[t], UNCHANGED <<lockVars, tabVars>>,
             IF inflight[t][i].awaited THEN LoopTo(t, "sleep") ELSE UNCHANGED loop
      PROVE  LockInv'
  <2>1. CASE inflight[t][i].awaited
    <3>1. loop[t] = "await"
      BY <1>0, <1>2, <2>1 DEF PollInv, AwaitedByLoop
    <3> QED BY <1>2, <2>1, <3>1, LoopRunsOn, LoopStepKeepsLine DEF LoopLabels
  <2>2. CASE ~inflight[t][i].awaited
    BY <1>0, <1>2, <2>2, LoopStepKeepsLine
  <2> QED BY <2>1, <2>2
<1>3. ASSUME NEW i \in 1..MaxPolls, PollAnswers(t, i) PROVE TabsInv' /\ \A s \in Tabs : shown'[s] < shown[s] => crossed
  <2>1. PollInv' /\ \A s \in Tabs : shown'[s] < shown[s] => crossed
    BY <1>3, AnswerKeepsOrder
  <2>2. LockInv'
    BY <1>2, <1>3 DEF PollAnswers
  <2> QED BY <2>1, <2>2
<1>4. ASSUME NEW i \in 1..MaxPolls, PollFails(t, i) PROVE TabsInv' /\ UNCHANGED shown
  <2> DEFINE rest == RemoveAt(inflight[t], i)
  <2>1. /\ i \in 1..Len(inflight[t]) /\ inflight' = [inflight EXCEPT ![t] = rest]
        /\ IF inflight[t][i].awaited THEN LoopTo(t, "sleep") ELSE UNCHANGED loop
        /\ UNCHANGED <<truth, lockVars, posts, shown, crossed, tabVars>>
    BY <1>0, <1>4 DEF PollFails
  <2>2. /\ rest \in Seq(PollKinds) /\ Len(rest) = Len(inflight[t]) - 1
        /\ \A k \in 1..Len(rest) :
             /\ \E n \in 1..Len(inflight[t]) : rest[k] = inflight[t][n]
             /\ rest[k].awaited => /\ loop[t] = "await" /\ ~inflight[t][i].awaited
                                   /\ \A n \in 1..Len(rest) : rest[n].awaited => n = k
    BY <2>1, OnePollLess
  <2> HIDE DEF rest
  <2>3. \A s \in Tabs \ {t} : loop'[s] = loop[s]
    BY <1>0, <2>1 DEF LoopTo
  <2>4. \A k \in 1..Len(rest) : \E n \in 1..Len(inflight[t]) : rest[k].seen = inflight[t][n].seen
    BY <2>2
  <2>5. \A k \in 1..Len(rest) : rest[k].awaited => loop'[t] = "await" /\ \A n \in 1..Len(rest) : rest[n].awaited => n = k
    BY <2>1, <2>2
  <2>6. Len(rest) =< Len(inflight[t])
    BY <1>0, <2>2
  <2>7. PollInv'
    BY <2>1, <2>2, <2>3, <2>4, <2>5, <2>6, FewerPolls
  <2>8. LockInv'
    BY <1>0, <1>2, <2>1
  <2> QED BY <2>1, <2>7, <2>8
<1>5. CASE IntervalPasses(t)
  <2>1. loop[t] = "sleep" /\ LoopTo(t, "poll") /\ UNCHANGED <<truth, lockVars, inflight, posts, shown, crossed, tabVars>>
    BY <1>5 DEF IntervalPasses
  <2>2. LockInv'
    BY <2>1, LoopRunsOn, LoopStepKeepsLine DEF LoopLabels
  <2>3. \A s \in Tabs : loop[s] = "await" => loop'[s] = "await"
    BY <1>0, <2>1 DEF LoopTo
  <2>4. PollInv'
    BY <2>1, <2>3, PollsStandStill DEF PollInv, PollTypes
  <2> QED BY <1>0, <2>1, <2>2, <2>4
<1>6. CASE Receive(t)
  <2>1. UNCHANGED <<loop, lockVars, tabVars>>
    BY <1>6 DEF Receive
  <2>2. LockInv'
    BY <1>0, <2>1, LoopStepKeepsLine
  <2> QED BY <1>6, <2>2, ReceiptKeepsOrder
<1>7. ASSUME UNCHANGED shown PROVE \A s \in Tabs : shown'[s] < shown[s] => crossed
  BY <1>0, <1>7
<1> QED BY <1>1, <1>3, <1>4, <1>5, <1>6, <1>7 DEF Polls, Answers

LEMMA TabsStep ==
  ASSUME TabsInv, [PollNext]_sharedPollVars
  PROVE  TabsInv' /\ \A t \in Tabs : shown'[t] < shown[t] => crossed \/ t \notin open'
<1>0. shown \in [Tabs -> Nat] /\ truth \in Nat /\ loop \in [Tabs -> LoopLabels]
  BY DEF TabsInv, PollInv, PollTypes, LockInv, LockTypes
<1>1. CASE UNCHANGED <<lockVars, pollVars, tabVars>> /\ truth' \in {truth, truth + 1}
  <2>1. UNCHANGED <<loop, inflight, posts, shown, crossed>>
    BY <1>1 DEF pollVars
  <2>2. LockInv'
    BY <1>0, <1>1, <2>1, LoopStepKeepsLine
  <2>3. truth' \in Nat /\ truth =< truth'
    BY <1>0, <1>1
  <2>4. PollInv'
    BY <2>1, <2>3, PollsStandStill DEF TabsInv
  <2> QED BY <1>0, <2>1, <2>2, <2>4 DEF TabsInv
<1>2. ASSUME NEW t \in Tabs, Switches(t) \/ Hears(t) \/ Polls(t)
      PROVE  TabsInv' /\ \A s \in Tabs : shown'[s] < shown[s] => crossed \/ s \notin open'
  <2>1. CASE Switches(t)
    BY <2>1, TabsSwitch
  <2>2. CASE Hears(t)
    BY <1>0, <2>2, TabsHear
  <2>3. CASE Polls(t)
    BY <2>3, TabsPoll
  <2> QED BY <1>2, <2>1, <2>2, <2>3
<1>3. CASE DataChanges
  BY <1>0, <1>1, <1>3 DEF DataChanges
<1>4. CASE UNCHANGED sharedPollVars
  BY <1>0, <1>1, <1>4 DEF sharedPollVars
<1> QED BY <1>2, <1>3, <1>4 DEF PollNext

LEMMA OneLoopFollows == LockInv => OneLoopAtATime
<1> SUFFICES ASSUME LockInv, NEW t \in Tabs, loop[t] # "none", lockHolder # t PROVE "stolen" \in ToSet(news[t])
  BY DEF OneLoopAtATime
<1>1. Alternates(news[t], TRUE, FALSE) /\ news[t] \in Seq(Notices)
  <2>1. Alternates(news[t], loop[t] # "none", lockHolder = t)
    BY DEF LockInv, TenuresAlternate
  <2>2. (loop[t] # "none") = TRUE /\ (lockHolder = t) = FALSE
    OBVIOUS
  <2> QED BY <2>1, <2>2 DEF LockInv, LockTypes
<1>2. news[t] # <<>> /\ news[t][1] # "granted"
  BY <1>1 DEF Alternates
<1>3. 1 \in DOMAIN news[t] /\ news[t][1] \in Notices
  BY <1>1, <1>2
<1>4. news[t][1] = "stolen"
  BY <1>2, <1>3 DEF Notices
<1> QED BY <1>3, <1>4 DEF ToSet

(* One tab polls in a loop, every open tab can still come to lead, and the   *)
(* tab looked at leads, through every theft, grant and closing, heard in any *)
(* order (use-shared-poll.ts).                                               *)
THEOREM OneTabLeadsHolds == PollSpec => []OneTabLeads
<1>1. PollInit => TabsInv
  BY TabsStart
<1>2. TabsInv /\ [PollNext]_sharedPollVars => TabsInv'
  BY TabsStep
<1>3. TabsInv => OneTabLeads
  BY OneLoopFollows DEF TabsInv, LockInv, OneTabLeads
<1> QED BY <1>1, <1>2, <1>3, PTL DEF PollSpec

(* No tab goes back to older data before polls of two tabs, or of two loops  *)
(* of one tab, have overlapped (use-shared-poll.ts).                         *)
THEOREM OlderDataNeedsOverlapHolds == PollSpec => OlderDataNeedsOverlap
<1>1. PollInit => TabsInv
  BY TabsStart
<1>2. TabsInv /\ [PollNext]_sharedPollVars => TabsInv'
  BY TabsStep
<1>3. TabsInv /\ [PollNext]_sharedPollVars
      => [\A t \in Tabs : shown'[t] < shown[t] => crossed \/ t \notin open']_sharedPollVars
  BY TabsStep
<1> QED BY <1>1, <1>2, <1>3, PTL DEF PollSpec, OlderDataNeedsOverlap
=============================================================================

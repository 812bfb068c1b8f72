----------------------------- MODULE LeadQueue -----------------------------
(***************************************************************************)
(* The website-lead queue: src/src/server/actions/lead-queue.ts and the    *)
(* other writers of the rows it works on.                                  *)
(*                                                                         *)
(* A captured lead is OFFERED to one worker at a time for OfferWindow time *)
(* units; the worker accepts or skips it, or the window lapses and         *)
(* somebody's poll moves the offer on.  Every handler runs as an           *)
(* invocation p \in Procs of a serverless function; every database         *)
(* statement, or run of statements nothing can be interleaved with, is one *)
(* action, so handlers interleave as they do in the deployment and may die *)
(* between any two statements (Crash).                                     *)
(*                                                                         *)
(* Left out: the display side (getQueuePosition, notifications, activity   *)
(* rows, e-mail), leadsAssignedCount, Lead.status, and how a lead got into *)
(* the table.                                                              *)
(***************************************************************************)
EXTENDS Integers

CONSTANTS
  Workers,        \* accounts that may have a LeadQueueEntry
  Leads,          \* leads of source WEBSITE
  Contacts,
  Procs,          \* concurrent server invocations
  None,
  WorkerCompany,  \* Account.companyId
  ContactOf,      \* Lead.contactId
  ContactCompany, \* Contact.companyId
  JoinedAt,       \* LeadQueueEntry.joinedAt, never rewritten
  OfferWindow,    \* OFFER_WINDOW_MS
  Attempts,       \* NO_WORKER_RETRY_ATTEMPTS
  MaxTime,        \* bound on the clock
  EnvOps          \* the environment's moves in this instance (see below)

AccountStates == {"eligible", "hidden", "wrong_role", "removed"}

\* EnvOps bounds the model: what workers and the office do in an instance, the
\* account states an administrator moves accounts to, and whether functions die.
EnvMoves == AccountStates \cup
  {"accept", "skip", "join", "leave", "reassign", "unassign", "crash"}

ASSUME ConstantsAssumption ==
  /\ None \notin Workers /\ None \notin Leads /\ None \notin Procs
  /\ ContactOf \in [Leads -> Contacts]
  /\ JoinedAt \in [Workers -> Nat]
  /\ OfferWindow \in Nat \ {0}
  /\ Attempts \in Nat \ {0}
  /\ MaxTime \in Nat
  /\ EnvOps \subseteq EnvMoves

VARIABLES
  assigned,     \* Lead.assignedAgentId
  offeredTo,    \* Lead.offeredToId
  expires,      \* Lead.offerExpiresAt (0 when null)
  distributed,  \* leads whose queueDistributedAt is set
  owner,        \* Contact.ownerId
  orphaned,     \* (history) leads whose accept died before it claimed their contact
  active,       \* workers whose LeadQueueEntry.isActive is true
  lastAssigned, \* LeadQueueEntry.lastAssignedAt (NeverServed when null)
  lock,         \* holder of the FOR UPDATE lock on the worker's queue row
  account,      \* status, accountsVisible and role of each worker's Account
  joining,      \* workers whose joinLeadQueue has looked at their session and role
  rejoined,     \* (history) removed workers whose queue row such a call turned on again
  now,
  pc,           \* the next statement of each invocation; its local variables:
  target,       \*   leadId
  who,          \*   the account it acts for, or the candidate it has locked
  at,           \*   the time it has read
  cand,         \*   candidates still to be tried
  order,        \*   their lastAssignedAt when the list was read
  skipped,      \*   candidates found locked or just paused
  left         \*   attempts left

leadVars  == <<assigned, offeredTo, expires, distributed>>
contactVars == <<owner, orphaned>>
queueVars == <<active, lastAssigned>>
txVars    == <<cand, order, skipped, left>>
callVars  == <<target, who, at>>
jobVars   == <<pc, callVars, txVars>>
joinVars  == <<joining, rejoined>>
world     == <<account, joinVars, now>>
vars == <<leadVars, contactVars, queueVars, lock, jobVars, world>>

NeverServed == -1

LeadCompany == [l \in Leads |-> ContactCompany[ContactOf[l]]]

(***************************************************************************)
(* Invocations.  pc names the next statement; "idle" is no invocation.     *)
(***************************************************************************)
Labels == {"idle", "accept", "own", "serve", "skip", "expire", "pause",
           "offer", "lock", "check", "claim"}

Unordered == [w \in Workers |-> 0]

Start(p, label, l, w, t) ==
  /\ pc[p] = "idle"
  /\ pc' = [pc EXCEPT ![p] = label]
  /\ target' = [target EXCEPT ![p] = l]
  /\ who' = [who EXCEPT ![p] = w]
  /\ at' = [at EXCEPT ![p] = t]

Goto(p, label) == pc' = [pc EXCEPT ![p] = label]

Finish(p) ==
  /\ Goto(p, "idle")
  /\ target' = [target EXCEPT ![p] = None]
  /\ who' = [who EXCEPT ![p] = None]
  /\ at' = [at EXCEPT ![p] = 0]
  /\ cand' = [cand EXCEPT ![p] = {}]
  /\ order' = [order EXCEPT ![p] = Unordered]
  /\ skipped' = [skipped EXCEPT ![p] = {}]
  /\ left' = [left EXCEPT ![p] = 0]

Unlocked(w) == lock[w] = None
\* Defect: the transaction ends with its row locks still held.
ReleaseNothing(p) == lock

Release(p)  == [w \in Workers |-> IF lock[w] = p THEN None ELSE lock[w]]

\* requireActiveAccount: a removed account has lost its session.
Session(w) == account[w] # "removed"

\* Defect: offerExpiresAt survives the offer.
ClearOfferee(l) ==
  /\ offeredTo' = [offeredTo EXCEPT ![l] = None]
  /\ UNCHANGED expires

ClearOffer(l) ==
  /\ offeredTo' = [offeredTo EXCEPT ![l] = None]
  /\ expires' = [expires EXCEPT ![l] = 0]

Init ==
  /\ assigned = [l \in Leads |-> None]
  /\ offeredTo = [l \in Leads |-> None]
  /\ expires = [l \in Leads |-> 0]
  /\ distributed = {}
  /\ owner = [c \in Contacts |-> None]
  /\ orphaned = {}
  /\ active = Workers
  /\ lastAssigned = [w \in Workers |-> NeverServed]
  /\ lock = [w \in Workers |-> None]
  /\ account = [w \in Workers |-> "eligible"]
  /\ joining = {}
  /\ rejoined = {}
  /\ now = 0
  /\ pc = [p \in Procs |-> "idle"]
  /\ target = [p \in Procs |-> None]
  /\ who = [p \in Procs |-> None]
  /\ at = [p \in Procs |-> 0]
  /\ cand = [p \in Procs |-> {}]
  /\ order = [p \in Procs |-> Unordered]
  /\ skipped = [p \in Procs |-> {}]
  /\ left = [p \in Procs |-> 0]

-----------------------------------------------------------------------------
(* joinLeadQueue, leaveLeadQueue *)

\* getCurrentAccount and the role check ...
JoinLeadQueue(w) ==
  /\ "join" \in EnvOps
  /\ Session(w) /\ account[w] # "wrong_role"
  /\ joining' = joining \cup {w}
  /\ UNCHANGED <<leadVars, contactVars, queueVars, lock, jobVars, account, rejoined, now>>

\* ... and the upsert, which asks nothing again.
TurnOnQueueRow(w) ==
  /\ w \in joining
  /\ Unlocked(w)
  /\ active' = active \cup {w}
  /\ joining' = joining \ {w}
  /\ rejoined' = IF Session(w) THEN rejoined ELSE rejoined \cup {w}
  /\ UNCHANGED <<leadVars, contactVars, lastAssigned, lock, jobVars, account, now>>

LeaveLeadQueue(w) ==
  /\ "leave" \in EnvOps
  /\ Session(w)
  /\ w \in active
  /\ Unlocked(w)
  /\ active' = active \ {w}
  /\ UNCHANGED <<leadVars, contactVars, lastAssigned, lock, jobVars, world>>

-----------------------------------------------------------------------------
(* acceptLeadOffer *)

\* The modal shows a worker only the lead under offer to them; a call for any
\* other lead changes nothing.
StartAccept(p, w, l) ==
  /\ "accept" \in EnvOps
  /\ Session(w)
  /\ offeredTo[l] = w
  /\ Start(p, "accept", l, w, now)
  /\ UNCHANGED txVars
  /\ UNCHANGED <<leadVars, contactVars, queueVars, lock, world>>

\* Defect: the claim does not ask whose offer it is.
AcceptableToAnyone(p) ==
  LET l == target[p] IN assigned[l] = None /\ expires[l] > at[p]

\* The claim's WHERE clause, evaluated on the row as it is when it runs but
\* with the time read when the handler began.
Acceptable(p) ==
  LET l == target[p] IN
  /\ assigned[l] = None
  /\ offeredTo[l] = who[p]
  /\ expires[l] > at[p]

AcceptLeadOffer(p) ==
  LET l == target[p] IN
  /\ pc[p] = "accept"
  /\ Acceptable(p)
  /\ assigned' = [assigned EXCEPT ![l] = who[p]]
  /\ distributed' = distributed \cup {l}
  /\ ClearOffer(l)
  /\ Goto(p, "own")
  /\ UNCHANGED <<callVars, txVars>>
  /\ UNCHANGED <<contactVars, queueVars, lock, world>>

OfferNoLongerAvailable(p) ==
  /\ pc[p] = "accept"
  /\ ~Acceptable(p)
  /\ Finish(p)
  /\ UNCHANGED <<leadVars, contactVars, queueVars, lock, world>>

\* Defect: the contact is left without an owner.
LeaveContact(p) ==
  /\ pc[p] = "own"
  /\ Goto(p, "serve")
  /\ UNCHANGED <<callVars, txVars>>
  /\ UNCHANGED <<leadVars, contactVars, queueVars, lock, world>>

\* updateMany WHERE ownerId IS NULL
ClaimContact(p) ==
  LET c == ContactOf[target[p]] IN
  /\ pc[p] = "own"
  /\ owner' = [owner EXCEPT ![c] = IF @ = None THEN who[p] ELSE @]
  /\ Goto(p, "serve")
  /\ UNCHANGED <<callVars, txVars>>
  /\ UNCHANGED <<leadVars, orphaned, queueVars, lock, world>>

RecordServed(p) ==
  LET w == who[p] IN
  /\ pc[p] = "serve"
  /\ Unlocked(w)
  /\ lastAssigned' = [lastAssigned EXCEPT ![w] = at[p]]
  /\ Finish(p)
  /\ UNCHANGED <<leadVars, contactVars, active, lock, world>>

-----------------------------------------------------------------------------
(* skipLeadOffer, sweepExpiredOffers and releaseOfferAndAdvance *)

StartSkip(p, w, l) ==
  /\ "skip" \in EnvOps
  /\ Session(w)
  /\ offeredTo[l] = w
  /\ Start(p, "skip", l, w, 0)
  /\ UNCHANGED txVars
  /\ UNCHANGED <<leadVars, contactVars, queueVars, lock, world>>

\* Defect: the sweep passes over offers to workers who are paused.
SweepOfActiveWorkers(p, l) ==
  /\ assigned[l] = None
  /\ offeredTo[l] \in active
  /\ expires[l] <= now
  /\ Start(p, "expire", l, offeredTo[l], 0)
  /\ UNCHANGED txVars
  /\ UNCHANGED <<leadVars, contactVars, queueVars, lock, world>>

SweepExpiredOffer(p, l) ==
  /\ assigned[l] = None
  /\ offeredTo[l] # None
  /\ expires[l] <= now
  /\ Start(p, "expire", l, offeredTo[l], 0)
  /\ UNCHANGED txVars
  /\ UNCHANGED <<leadVars, contactVars, queueVars, lock, world>>

\* The conditional update; requireExpired only for the sweep.
Releasable(p) ==
  LET l == target[p] IN
  /\ assigned[l] = None
  /\ offeredTo[l] = who[p]
  /\ pc[p] = "expire" => expires[l] <= now

ReleaseOffer(p) ==
  /\ pc[p] \in {"skip", "expire"}
  /\ Releasable(p)
  /\ ClearOffer(target[p])
  /\ Goto(p, "pause")
  /\ at' = [at EXCEPT ![p] = now]
  /\ UNCHANGED <<target, who, txVars>>
  /\ UNCHANGED <<assigned, distributed, contactVars, queueVars, lock, world>>

OfferAlreadyResolved(p) ==
  /\ pc[p] \in {"skip", "expire"}
  /\ ~Releasable(p)
  /\ Finish(p)
  /\ UNCHANGED <<leadVars, contactVars, queueVars, lock, world>>

\* Back of the rotation and auto-paused; then one offer attempt for the lead.
PauseWorker(p) ==
  LET w == who[p] IN
  /\ pc[p] = "pause"
  /\ Unlocked(w)
  /\ active' = active \ {w}
  /\ lastAssigned' = [lastAssigned EXCEPT ![w] = at[p]]
  /\ Goto(p, "offer")
  /\ who' = [who EXCEPT ![p] = None]
  /\ at' = [at EXCEPT ![p] = 0]
  /\ left' = [left EXCEPT ![p] = 1]
  /\ UNCHANGED <<target, cand, order, skipped>>
  /\ UNCHANGED <<leadVars, contactVars, lock, world>>

-----------------------------------------------------------------------------
(* distributeNewWebsiteLead (also the body of distributePendingWebsiteLeads)*)

IsEligibleForAutoDistribution(l) ==
  /\ assigned[l] = None
  /\ l \notin distributed

\* The scan's WHERE also wants no offer; the eligibility check alone does not.
StartDistribute(p, l) ==
  /\ IsEligibleForAutoDistribution(l)
  /\ offeredTo[l] = None
  /\ Start(p, "offer", l, None, 0)
  /\ left' = [left EXCEPT ![p] = Attempts]
  /\ UNCHANGED <<cand, order, skipped>>
  /\ UNCHANGED <<leadVars, contactVars, queueVars, lock, world>>

-----------------------------------------------------------------------------
(* offerLeadToNextWorker: one READ COMMITTED transaction *)

CandidateWorkers(l) ==
  {w \in active : /\ account[w] = "eligible"
                  /\ WorkerCompany[w] = LeadCompany[l]}

BeginOffer(p) ==
  /\ pc[p] = "offer"
  /\ Goto(p, "lock")
  /\ at' = [at EXCEPT ![p] = now]
  /\ cand' = [cand EXCEPT ![p] = CandidateWorkers(target[p])]
  /\ order' = [order EXCEPT ![p] = lastAssigned]
  /\ skipped' = [skipped EXCEPT ![p] = {}]
  /\ UNCHANGED <<target, who, left>>
  /\ UNCHANGED <<leadVars, contactVars, queueVars, lock, world>>

\* ORDER BY lastAssignedAt ASC NULLS FIRST, joinedAt ASC
ServedBefore(last, v, w) ==
  \/ last[v] < last[w]
  \/ last[v] = last[w] /\ JoinedAt[v] < JoinedAt[w]

NextCandidate(p, w) ==
  /\ w \in cand[p]
  /\ \A v \in cand[p] : ~ServedBefore(order[p], v, w)

\* Defects: no row lock; no second look at isActive under the lock.
ActiveOnly(w)   == w \in active
UnlockedOnly(w) == Unlocked(w)

\* WHERE id = candidate AND isActive FOR UPDATE SKIP LOCKED
Lockable(w) == Unlocked(w) /\ w \in active

LockCandidate(p, w) ==
  /\ pc[p] = "lock"
  /\ NextCandidate(p, w)
  /\ Lockable(w)
  /\ lock' = [lock EXCEPT ![w] = p]
  /\ Goto(p, "check")
  /\ who' = [who EXCEPT ![p] = w]
  /\ UNCHANGED <<target, at, txVars>>
  /\ UNCHANGED <<leadVars, contactVars, queueVars, world>>

SkipLockedCandidate(p, w) ==
  /\ pc[p] = "lock"
  /\ NextCandidate(p, w)
  /\ ~Lockable(w)
  /\ cand' = [cand EXCEPT ![p] = @ \ {w}]
  /\ skipped' = [skipped EXCEPT ![p] = @ \cup {w}]
  /\ UNCHANGED <<pc, callVars, order, left>>
  /\ UNCHANGED <<leadVars, contactVars, queueVars, lock, world>>

\* A new statement, under the lock: is the worker mid-countdown elsewhere?
HoldsLiveOffer(p) ==
  \E l \in Leads \ {target[p]} :
    offeredTo[l] = who[p] /\ expires[l] > at[p]

CheckCandidate(p) ==
  /\ pc[p] = "check"
  /\ IF HoldsLiveOffer(p)
     THEN /\ Goto(p, "lock")
          /\ cand' = [cand EXCEPT ![p] = @ \ {who[p]}]
     ELSE /\ Goto(p, "claim")
          /\ cand' = [cand EXCEPT ![p] = {}]
  /\ UNCHANGED <<callVars, order, skipped, left>>
  /\ UNCHANGED <<leadVars, contactVars, queueVars, lock, world>>

\* Defect: the conditional update forgets assignedAgentId IS NULL.
OfferableThoughAssigned(p) ==
  LET l == target[p] IN offeredTo[l] = None \/ expires[l] <= at[p]

\* The lead row's own guard: unassigned and not under a live offer.
Offerable(p) ==
  LET l == target[p] IN
  /\ assigned[l] = None
  /\ offeredTo[l] = None \/ expires[l] <= at[p]

PlaceOffer(p) ==
  LET l == target[p] IN
  /\ pc[p] = "claim"
  /\ Offerable(p)
  /\ offeredTo' = [offeredTo EXCEPT ![l] = who[p]]
  /\ expires' = [expires EXCEPT ![l] = at[p] + OfferWindow]
  /\ lock' = Release(p)
  /\ Finish(p)
  /\ UNCHANGED <<assigned, distributed, contactVars, queueVars, world>>

AlreadyAssigned(p) ==
  /\ pc[p] = "claim"
  /\ ~Offerable(p)
  /\ lock' = Release(p)
  /\ Finish(p)
  /\ UNCHANGED <<leadVars, contactVars, queueVars, world>>

\* No candidate left: workers_busy (retried while attempts remain) when some
\* row was locked or just paused, no_active_workers otherwise.
NobodyAvailable(p) ==
  /\ pc[p] = "lock"
  /\ cand[p] = {}
  /\ lock' = Release(p)
  /\ IF skipped[p] # {} /\ left[p] > 1
     THEN /\ Goto(p, "offer")
          /\ left' = [left EXCEPT ![p] = @ - 1]
          /\ UNCHANGED <<callVars, cand, order, skipped>>
     ELSE Finish(p)
  /\ UNCHANGED <<leadVars, contactVars, queueVars, world>>

-----------------------------------------------------------------------------
(* The other writers: accounts.ts, leads.ts *)

\* setAccountStatus(INACTIVE) also pauses the queue row, in one transaction;
\* restoring, hiding (setAccountsVisibility) and re-roling (updateAccount)
\* leave the queue row alone.  None of them touches a live offer.
SetAccount(w, s) ==
  /\ s \in EnvOps
  /\ account[w] # s
  /\ account' = [account EXCEPT ![w] = s]
  /\ IF s = "removed"
     THEN Unlocked(w) /\ active' = active \ {w}
     ELSE UNCHANGED active
  /\ rejoined' = rejoined \ {w}
  /\ UNCHANGED <<leadVars, contactVars, lastAssigned, lock, joining, now, jobVars>>

\* reassignLead: compare-and-set on the previous owner, so one atomic step.
\* It clears the offer and leaves queueDistributedAt as it was.
ReassignLead(l, w) ==
  /\ "reassign" \in EnvOps
  /\ account[w] # "removed"
  /\ WorkerCompany[w] = LeadCompany[l]
  /\ assigned[l] # w
  /\ assigned' = [assigned EXCEPT ![l] = w]
  /\ ClearOffer(l)
  /\ UNCHANGED <<distributed, contactVars, queueVars, lock, jobVars, world>>

\* updateLeadField({ assignedAgentId: null })
UnassignLead(l) ==
  /\ "unassign" \in EnvOps
  /\ assigned[l] # None
  /\ assigned' = [assigned EXCEPT ![l] = None]
  /\ UNCHANGED <<offeredTo, expires, distributed, contactVars, queueVars, lock, world, jobVars>>

\* The function is killed or its transaction times out: locks are released,
\* what was committed stays.
Crash(p) ==
  /\ "crash" \in EnvOps
  /\ pc[p] # "idle"
  /\ orphaned' = IF pc[p] = "own" THEN orphaned \cup {target[p]} ELSE orphaned
  /\ lock' = Release(p)
  /\ Finish(p)
  /\ UNCHANGED <<leadVars, owner, queueVars, world>>

Tick ==
  /\ now < MaxTime
  /\ now' = now + 1
  /\ UNCHANGED <<leadVars, contactVars, queueVars, lock, account, joinVars, jobVars>>

-----------------------------------------------------------------------------
OfferStep(p) ==
  \/ BeginOffer(p)
  \/ \E w \in Workers : LockCandidate(p, w) \/ SkipLockedCandidate(p, w)
  \/ CheckCandidate(p) \/ PlaceOffer(p) \/ AlreadyAssigned(p)
  \/ NobodyAvailable(p)

AcceptStep(p) ==
  \/ AcceptLeadOffer(p) \/ OfferNoLongerAvailable(p)
  \/ ClaimContact(p) \/ RecordServed(p)

ReleaseStep(p) == ReleaseOffer(p) \/ OfferAlreadyResolved(p) \/ PauseWorker(p)

JobStep(p) == OfferStep(p) \/ AcceptStep(p) \/ ReleaseStep(p)

Request(p) ==
  \E l \in Leads :
    \/ SweepExpiredOffer(p, l) \/ StartDistribute(p, l)
    \/ \E w \in Workers : StartAccept(p, w, l) \/ StartSkip(p, w, l)

Office ==
  \/ \E w \in Workers : JoinLeadQueue(w) \/ TurnOnQueueRow(w) \/ LeaveLeadQueue(w)
  \/ \E w \in Workers, s \in AccountStates : SetAccount(w, s)
  \/ \E l \in Leads : UnassignLead(l) \/ \E w \in Workers : ReassignLead(l, w)

Next ==
  \/ \E p \in Procs : JobStep(p) \/ Request(p) \/ Crash(p)
  \/ Office
  \/ Tick

Spec == Init /\ [][Next]_vars

\* A started function runs on.  Somebody's browser keeps polling, on p: every
\* poll sweeps all lapsed offers and (throttled) scans all pending leads, so
\* each of them is reached again and again although p is busy in between.
\* PostgreSQL wakes the oldest waiter of a row lock: a waiting update gets it.
Fairness(p) ==
  /\ \A q \in Procs : WF_vars(JobStep(q)) /\ SF_vars(PauseWorker(q))
  /\ \A l \in Leads : SF_vars(SweepExpiredOffer(p, l)) /\ SF_vars(StartDistribute(p, l))

-----------------------------------------------------------------------------
(* What must hold of the lead queue. *)

LeadTypes ==
  /\ assigned \in [Leads -> Workers \cup {None}]
  /\ offeredTo \in [Leads -> Workers \cup {None}]
  /\ expires \in [Leads -> Nat]
  /\ \A l \in Leads : offeredTo[l] = None <=> expires[l] = 0
  /\ distributed \subseteq Leads

QueueTypes ==
  /\ owner \in [Contacts -> Workers \cup {None}] /\ orphaned \subseteq Leads
  /\ active \subseteq Workers
  /\ lastAssigned \in [Workers -> Int]
  /\ lock \in [Workers -> Procs \cup {None}]
  /\ account \in [Workers -> AccountStates]
  /\ joining \subseteq Workers /\ rejoined \subseteq Workers
  /\ now \in Nat

CallTypes ==
  /\ pc \in [Procs -> Labels]
  /\ target \in [Procs -> Leads \cup {None}]
  /\ who \in [Procs -> Workers \cup {None}]
  /\ at \in [Procs -> Nat]
  /\ \A p \in Procs :
       /\ pc[p] # "idle" => target[p] \in Leads
       /\ pc[p] \notin {"idle", "offer", "lock"} => who[p] \in Workers
       /\ at[p] <= now

TxTypes ==
  /\ cand \in [Procs -> SUBSET Workers]
  /\ order \in [Procs -> [Workers -> Int]]
  /\ skipped \in [Procs -> SUBSET Workers]
  /\ left \in [Procs -> Nat]

\* The type invariant: the offer columns are set and cleared together, an
\* invocation past "idle" knows its lead, one that acts for or on a worker
\* knows the worker, and nobody has read a time that has not come.
TypeOK == LeadTypes /\ QueueTypes /\ CallTypes /\ TxTypes

Live(l, w) == offeredTo[l] = w /\ expires[l] > now

\* An offer of l is placed (or renewed) in this step.
Placed(l) ==
  /\ offeredTo'[l] # None
  /\ offeredTo'[l] # offeredTo[l] \/ expires'[l] # expires[l]

\* One live offer per worker, however many distributions run at once: the
\* row lock is taken before the other offers are looked at, and held until
\* this offer is written (offerLeadToNextWorker, lines 180-221).
OneLiveOffer ==
  \A w \in Workers : \A l, k \in Leads :
    Live(l, w) /\ Live(k, w) => l = k

\* A lead somebody owns is never under offer at the same time, whichever of
\* accept, manual reassignment and offer wins (lines 230-238, 270-273 and
\* leads.ts 717-720).
AssignedHasNoOffer ==
  \A l \in Leads : assigned[l] # None => offeredTo[l] = None

\* A lead is never offered outside its own company (lines 157-159, 197).
OfferedWithinCompany ==
  \A l \in Leads : offeredTo[l] # None =>
    WorkerCompany[offeredTo[l]] = LeadCompany[l]

\* The queue row's lock never outlives the transaction that took it, so no
\* worker drops out of distribution for good.
LocksAreHeldByTransactions ==
  \A w \in Workers : lock[w] # None => pc[lock[w]] \in {"lock", "check", "claim"}

\* What an offer promises its worker, in one: it is the only one, of a lead of the
\* company that nobody owns, and no lock of a dead distribution keeps it away.
OffersAreSound ==
  OneLiveOffer /\ AssignedHasNoOffer /\ OfferedWithinCompany /\ LocksAreHeldByTransactions

\* Only a join that crossed its worker's removal brings the row of a removed
\* account back into the rotation: the upsert of lines 48-52 asks for no status.
Reinstated(w) == account[w] = "removed" /\ w \in rejoined

\* An offer never lands on a worker who paused, left or was removed, though
\* the candidate list may have been read before that (lines 205-213), save on
\* one whom a join that crossed the removal put back after the list was read.
OffersReachActiveWorkers ==
  [][\A l \in Leads : Placed(l) =>
       /\ offeredTo'[l] \in active
       /\ Session(offeredTo'[l]) \/ Reinstated(offeredTo'[l])]_vars

\* What lines 166-172 say: a removed user can never receive a lead, even if
\* their queue row were ever left stale.
RemovedGetNoOffer ==
  [][\A l \in Leads : Placed(l) => Session(offeredTo'[l])]_vars

\* A lead accepted through the queue belongs to an owned contact once its
\* accept is past the contact claim (lines 278-312), whatever else happens to
\* the lead, the accounts and the line: only a function that dies between the
\* two claims leaves it without.
AcceptedLeadHasOwnedContact ==
  \A l \in distributed :
    \/ owner[ContactOf[l]] # None
    \/ l \in orphaned
    \/ \E p \in Procs : pc[p] = "own" /\ target[p] = l

\* The queue implements its abstract specification: the mapping keeps the
\* columns of Lead and forgets the invocations, the locks and the queue rows.
Promise ==
  INSTANCE LeadOffer WITH assigned <- assigned, offeredTo <- offeredTo, expires <- expires,
                          distributed <- distributed, now <- now

ImplementsPromise == Promise!Spec

\* A lapsed offer is eventually taken away, accepted or renewed, although
\* only polls look for it (sweepExpiredOffers, lines 440-457).
LapsedOfferIsResolved ==
  \A l \in Leads :
    LET Lapsed == offeredTo[l] # None /\ expires[l] <= now
    IN  Lapsed ~> ~Lapsed

\* A lead that waits in the queue is not stranded while one of its company's
\* workers is free: the lead is offered, or that worker gets another
\* offer or leaves (getMyLeadOffer lines 472-485, the retry of 508-513).
WaitingLeadIsOffered ==
  \A l \in Leads, w \in Workers :
    LET Waiting == assigned[l] = None /\ l \notin distributed /\ offeredTo[l] = None
        Free == w \in CandidateWorkers(l) /\ \A k \in Leads : ~Live(k, w)
    IN  (Waiting /\ Free) ~> ~(Waiting /\ Free)
=============================================================================

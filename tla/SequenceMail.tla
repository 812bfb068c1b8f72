---------------------------- MODULE SequenceMail ----------------------------
(***************************************************************************)
(* The automated e-mail sequences of server/actions/sequences.ts: leads    *)
(* are enrolled, a cron route or a click processes what is due, a customer *)
(* unsubscribes.  One action is one database statement, or the call to the *)
(* mail service, of one invocation p.                                      *)
(*                                                                         *)
(* Time is relative.  due[e] counts down to nextSendAt.  What is claimed   *)
(* has come due, and every write of nextSendAt sets a value later than the *)
(* present, or null: so the claim's "nextSendAt still is what I read" says *)
(* that nothing has written it since, and fresh[p] holds the rows of which *)
(* p knows that.                                                           *)
(***************************************************************************)
EXTENDS Integers, Sequences, FiniteSets, SequencesExt

CONSTANTS
  Enrolments,      \* rows of SequenceEnrollment
  SequenceLeads,
  LeadOf,          \* [Enrolments -> SequenceLeads]
  Steps,           \* rows of SequenceStep, of one sequence
  FirstSteps,      \* the steps the sequence has at first, in order
  Senders,         \* invocations
  Lease,           \* CLAIM_LEASE_MS, in ticks
  Delay,           \* a step's delayMinutes, in ticks
  Take,            \* rows per invocation, 50 in the code
  MaxLapses,       \* bounds the claims of a row that outlive their lease
  SequenceMoves,   \* which moves of staff, customer and platform are allowed
  NoRow

ASSUME SequenceConstants ==
  /\ LeadOf \in [Enrolments -> SequenceLeads]
  /\ FirstSteps \in Seq(Steps)
  /\ \A i, j \in DOMAIN FirstSteps : FirstSteps[i] = FirstSteps[j] => i = j
  /\ IsFiniteSet(Steps) /\ IsFiniteSet(Senders)
  /\ Lease \in Nat \ {0} /\ Delay \in Nat /\ Take \in Nat \ {0}
  /\ MaxLapses \in Nat
  /\ NoRow \notin Enrolments

VARIABLES
  enrolment,   \* SequenceEnrollment.status, "none" before it is created
  stepIdx,     \* currentStepIdx
  due,         \* ticks until nextSendAt
  position,    \* SequenceStep.order, -1 when the step does not exist
  offered,     \* TRUE while the sequence exists
  sender,      \* [Senders -> the invocation's next statement]
  batch,       \* the due rows it still has to visit
  fresh,       \* the rows read whose nextSendAt nothing has written since
  plan,        \* the sequence's steps as it read them
  held,        \* the row it claimed
  at,          \* currentStepIdx of that row as read
  want,        \* the leads an enrolment found not yet enrolled
  \* history
  leased,      \* the row's nextSendAt is a lease nobody has replaced yet
  lapses,      \* leases that ran out before the claim was finished
  mails,       \* e-mails delivered, per enrolment and step
  optedOut,    \* the lead unsubscribed, or staff took it out
  lateMails,   \* e-mails delivered after that
  reordered    \* a step was deleted

enrolmentVars == <<enrolment, stepIdx, due, leased, lapses, mails, optedOut, lateMails>>
listVars == <<position, offered, reordered>>
senderVars == <<sender, batch, fresh, plan, held, at, want>>
sequenceVars == <<enrolmentVars, listVars, senderVars>>

Existing == {e \in Enrolments : enrolment[e] \notin {"none", "deleted"}}
Due == {e \in Enrolments : enrolment[e] = "ACTIVE" /\ due[e] = 0}

\* What "orderBy: order asc" may return: rows of equal order in any order.
Listings ==
  {list \in SetToSeqs({s \in Steps : position[s] >= 0}) :
     \A i, j \in DOMAIN list : i < j => position[list[i]] <= position[list[j]]}

Written(e) == fresh' = [p \in Senders |-> fresh[p] \ {e}]

Stop(p) ==
  /\ sender' = [sender EXCEPT ![p] = "idle"]
  /\ batch' = [batch EXCEPT ![p] = {}]
  /\ plan' = [plan EXCEPT ![p] = <<>>]
  /\ held' = [held EXCEPT ![p] = NoRow]
  /\ at' = [at EXCEPT ![p] = 0]
  /\ want' = [want EXCEPT ![p] = {}]

NextRow(p) ==
  /\ sender' = [sender EXCEPT ![p] = "loop"]
  /\ held' = [held EXCEPT ![p] = NoRow]
  /\ at' = [at EXCEPT ![p] = 0]
  /\ UNCHANGED <<batch, plan, want>>

-----------------------------------------------------------------------------
(* processDueSequenceSteps *)

ReadDue(p) ==
  /\ sender[p] = "idle"
  /\ Due # {}
  /\ \E some \in SUBSET Due, list \in Listings :
       /\ Cardinality(some) = IF Cardinality(Due) < Take THEN Cardinality(Due) ELSE Take
       /\ batch' = [batch EXCEPT ![p] = some]
       /\ fresh' = [fresh EXCEPT ![p] = some]
       /\ plan' = [plan EXCEPT ![p] = list]
  /\ sender' = [sender EXCEPT ![p] = "loop"]
  /\ UNCHANGED <<enrolmentVars, listVars, held, at, want>>
\* Defect: the claim forgets to compare nextSendAt.
ActiveOnly(p, e) == enrolment[e] = "ACTIVE"

Claimable(p, e) == enrolment[e] = "ACTIVE" /\ e \in fresh[p]

ClaimRow(p, e) ==
  /\ sender[p] = "loop" /\ e \in batch[p]
  /\ Claimable(p, e)
  /\ due' = [due EXCEPT ![e] = Lease]
  /\ leased' = [leased EXCEPT ![e] = TRUE]
  /\ Written(e)
  /\ sender' = [sender EXCEPT ![p] = "claimed"]
  /\ batch' = [batch EXCEPT ![p] = @ \ {e}]
  /\ held' = [held EXCEPT ![p] = e]
  /\ at' = [at EXCEPT ![p] = stepIdx[e]]
  /\ UNCHANGED <<enrolment, stepIdx, lapses, mails, optedOut, lateMails, listVars, plan, want>>

ClaimedByAnother(p, e) ==
  /\ sender[p] = "loop" /\ e \in batch[p]
  /\ ~Claimable(p, e)
  /\ batch' = [batch EXCEPT ![p] = @ \ {e}]
  /\ fresh' = [fresh EXCEPT ![p] = @ \ {e}]
  /\ UNCHANGED <<enrolmentVars, listVars, sender, plan, held, at, want>>

BatchDone(p) ==
  /\ sender[p] = "loop" /\ batch[p] = {}
  /\ Stop(p)
  /\ UNCHANGED <<enrolmentVars, listVars, fresh>>
\* Defect: the closing write leaves the status as it was.
ClosesNothing(e, status, idx) ==
  /\ stepIdx' = [stepIdx EXCEPT ![e] = idx]
  /\ due' = [due EXCEPT ![e] = 0]
  /\ leased' = [leased EXCEPT ![e] = FALSE]
  /\ Written(e)
  /\ UNCHANGED enrolment

\* The writes below name the row by its id only.
Close(e, status, idx) ==
  /\ enrolment' = [enrolment EXCEPT ![e] = status]
  /\ stepIdx' = [stepIdx EXCEPT ![e] = idx]
  /\ due' = [due EXCEPT ![e] = 0]
  /\ leased' = [leased EXCEPT ![e] = FALSE]
  /\ Written(e)

NoStepLeft(p) ==
  /\ sender[p] = "claimed" /\ held[p] \in Existing
  /\ at[p] >= Len(plan[p])
  /\ Close(held[p], "COMPLETED", stepIdx[held[p]])
  /\ NextRow(p)
  /\ UNCHANGED <<lapses, mails, optedOut, lateMails, listVars>>

\* Each attempt is logged under its step, which may have been deleted.
StepLogged(p) == position[plan[p][at[p] + 1]] >= 0

\* No address on file, or nobody to send from.
CannotBeSent(p) ==
  /\ sender[p] = "claimed" /\ held[p] \in Existing
  /\ at[p] < Len(plan[p]) /\ StepLogged(p)
  /\ Close(held[p], "FAILED", stepIdx[held[p]])
  /\ NextRow(p)
  /\ UNCHANGED <<lapses, mails, optedOut, lateMails, listVars>>

\* The mail service takes the message, or does not; the caller goes on alike.
SendStep(p) ==
  /\ sender[p] = "claimed" /\ at[p] < Len(plan[p])
  /\ LET e == held[p]
         s == plan[p][at[p] + 1]
     IN  \/ /\ mails' = [mails EXCEPT ![e][s] = @ + 1]
            /\ lateMails' = [lateMails EXCEPT ![e] = IF optedOut[e] THEN @ + 1 ELSE @]
         \/ UNCHANGED <<mails, lateMails>>
  /\ sender' = [sender EXCEPT ![p] = "sent"]
  /\ UNCHANGED <<enrolment, stepIdx, due, leased, lapses, optedOut, listVars, batch, fresh, plan, held, at, want>>

Advance(p) ==
  /\ sender[p] = "sent" /\ held[p] \in Existing /\ StepLogged(p)
  /\ IF at[p] + 1 < Len(plan[p])
     THEN /\ stepIdx' = [stepIdx EXCEPT ![held[p]] = at[p] + 1]
          /\ due' = [due EXCEPT ![held[p]] = Delay]
          /\ leased' = [leased EXCEPT ![held[p]] = FALSE]
          /\ Written(held[p])
          /\ UNCHANGED enrolment
     ELSE Close(held[p], "COMPLETED", at[p] + 1)
  /\ NextRow(p)
  /\ UNCHANGED <<lapses, mails, optedOut, lateMails, listVars>>

Dies(p) ==
  /\ Stop(p)
  /\ fresh' = [fresh EXCEPT ![p] = {}]
  /\ UNCHANGED <<enrolmentVars, listVars>>

\* The row, the step or the sequence is gone: the write throws.
RowVanished(p) ==
  /\ \/ sender[p] \in {"claimed", "sent"} /\ held[p] \notin Existing
     \/ sender[p] \in {"claimed", "sent"} /\ at[p] < Len(plan[p]) /\ ~StepLogged(p)
     \/ sender[p] = "enrol" /\ ~offered
  /\ Dies(p)
-----------------------------------------------------------------------------
(* Staff and customers *)

ActiveLeads == {LeadOf[e] : e \in {x \in Enrolments : enrolment[x] = "ACTIVE"}}

\* Bounds the rows: those not yet created and not spoken for.
RowsLeft(l) ==
  Cardinality({e \in Enrolments : LeadOf[e] = l /\ enrolment[e] = "none"})
    - Cardinality({p \in Senders : l \in want[p]})

StartEnrol(p, leads) ==
  /\ "enrol" \in SequenceMoves
  /\ sender[p] = "idle"
  /\ offered /\ \E s \in Steps : position[s] >= 0
  /\ leads \ ActiveLeads # {}
  /\ \A l \in leads : RowsLeft(l) > 0
  /\ want' = [want EXCEPT ![p] = leads \ ActiveLeads]
  /\ sender' = [sender EXCEPT ![p] = "enrol"]
  /\ UNCHANGED <<enrolmentVars, listVars, batch, fresh, plan, held, at>>

\* createMany: no unique index stands in the way of a second active row.
CreateEnrolments(p) ==
  /\ sender[p] = "enrol" /\ offered
  /\ \E rows \in SUBSET {e \in Enrolments : enrolment[e] = "none"} :
       /\ {LeadOf[e] : e \in rows} = want[p]
       /\ Cardinality(rows) = Cardinality(want[p])
       /\ enrolment' = [e \in Enrolments |-> IF e \in rows THEN "ACTIVE" ELSE enrolment[e]]
       /\ due' = [e \in Enrolments |-> IF e \in rows THEN Delay ELSE due[e]]
  /\ Stop(p)
  /\ UNCHANGED <<stepIdx, leased, lapses, mails, optedOut, lateMails, listVars, fresh>>

UnenrollLead(e) ==
  /\ "unenrol" \in SequenceMoves
  /\ e \in Existing
  /\ enrolment' = [enrolment EXCEPT ![e] = "UNSUBSCRIBED"]
  /\ optedOut' = [optedOut EXCEPT ![e] = TRUE]
  /\ UNCHANGED <<stepIdx, due, leased, lapses, mails, lateMails, listVars, senderVars>>

\* Any of the lead's links stops all of the lead's sequences.
Unsubscribe(l) ==
  /\ "unsubscribe" \in SequenceMoves
  /\ \E e \in Existing : LeadOf[e] = l
  /\ LET stopped == {e \in Enrolments : LeadOf[e] = l /\ enrolment[e] = "ACTIVE"}
     IN  /\ enrolment' = [e \in Enrolments |-> IF e \in stopped THEN "UNSUBSCRIBED" ELSE enrolment[e]]
         /\ optedOut' = [e \in Enrolments |-> optedOut[e] \/ e \in stopped]
  /\ UNCHANGED <<stepIdx, due, leased, lapses, mails, lateMails, listVars, senderVars>>

\* A new step's order is the number of steps there are.
AddStep(s) ==
  /\ "editSteps" \in SequenceMoves
  /\ offered /\ position[s] = -1
  /\ position' = [position EXCEPT ![s] = Cardinality({x \in Steps : position[x] >= 0})]
  /\ UNCHANGED <<offered, reordered, enrolmentVars, senderVars>>

\* The other steps keep their order; enrolments keep their index.
DeleteStep(s) ==
  /\ "editSteps" \in SequenceMoves
  /\ position[s] >= 0
  /\ position' = [position EXCEPT ![s] = -1]
  /\ reordered' = TRUE
  /\ UNCHANGED <<offered, enrolmentVars, senderVars>>

DeleteSequence ==
  /\ "deleteSequence" \in SequenceMoves
  /\ offered
  /\ offered' = FALSE
  /\ position' = [s \in Steps |-> -1]
  /\ enrolment' = [e \in Enrolments |-> IF e \in Existing THEN "deleted" ELSE enrolment[e]]
  /\ UNCHANGED <<reordered, stepIdx, due, leased, lapses, mails, optedOut, lateMails, senderVars>>
-----------------------------------------------------------------------------
(* The platform *)

SenderDies(p) ==
  /\ "crash" \in SequenceMoves
  /\ sender[p] # "idle"
  /\ held[p] # NoRow => lapses[held[p]] < MaxLapses
  /\ Dies(p)

Lapsing == {e \in Enrolments : leased[e] /\ due[e] = 1}

SequenceTick ==
  /\ \E e \in Enrolments : enrolment[e] = "ACTIVE" /\ due[e] > 0
  /\ \A e \in Lapsing : lapses[e] < MaxLapses
  /\ due' = [e \in Enrolments |-> IF due[e] > 0 THEN due[e] - 1 ELSE 0]
  /\ lapses' = [e \in Enrolments |-> IF e \in Lapsing THEN lapses[e] + 1 ELSE lapses[e]]
  /\ leased' = [e \in Enrolments |-> leased[e] /\ e \notin Lapsing]
  /\ UNCHANGED <<enrolment, stepIdx, mails, optedOut, lateMails, listVars, senderVars>>

SequenceInit ==
  /\ enrolment = [e \in Enrolments |-> "none"]
  /\ stepIdx = [e \in Enrolments |-> 0]
  /\ due = [e \in Enrolments |-> 0]
  /\ position = [s \in Steps |-> IF \E i \in DOMAIN FirstSteps : FirstSteps[i] = s
                                 THEN (CHOOSE i \in DOMAIN FirstSteps : FirstSteps[i] = s) - 1
                                 ELSE -1]
  /\ offered = TRUE
  /\ sender = [p \in Senders |-> "idle"]
  /\ batch = [p \in Senders |-> {}]
  /\ fresh = [p \in Senders |-> {}]
  /\ plan = [p \in Senders |-> <<>>]
  /\ held = [p \in Senders |-> NoRow]
  /\ at = [p \in Senders |-> 0]
  /\ want = [p \in Senders |-> {}]
  /\ leased = [e \in Enrolments |-> FALSE]
  /\ lapses = [e \in Enrolments |-> 0]
  /\ mails = [e \in Enrolments |-> [s \in Steps |-> 0]]
  /\ optedOut = [e \in Enrolments |-> FALSE]
  /\ lateMails = [e \in Enrolments |-> 0]
  /\ reordered = FALSE

SenderStep(p) ==
  \/ \E e \in Enrolments : ClaimRow(p, e) \/ ClaimedByAnother(p, e)
  \/ BatchDone(p) \/ NoStepLeft(p) \/ CannotBeSent(p) \/ SendStep(p) \/ Advance(p) \/ RowVanished(p)
  \/ CreateEnrolments(p)

SequenceNext ==
  \/ \E p \in Senders :
       ReadDue(p) \/ SenderStep(p) \/ SenderDies(p) \/ \E leads \in SUBSET SequenceLeads : StartEnrol(p, leads)
  \/ \E e \in Enrolments : UnenrollLead(e)
  \/ \E l \in SequenceLeads : Unsubscribe(l)
  \/ \E s \in Steps : AddStep(s) \/ DeleteStep(s)
  \/ DeleteSequence
  \/ SequenceTick

SequenceSpec == SequenceInit /\ [][SequenceNext]_sequenceVars
-----------------------------------------------------------------------------
(* What the sequences promise. *)
SenderLabels == {"idle", "loop", "claimed", "sent", "enrol"}
EnrolmentStatuses == {"none", "ACTIVE", "COMPLETED", "FAILED", "UNSUBSCRIBED", "deleted"}

\* Every column and local variable keeps its type, and an invocation holds a
\* row exactly between its claim and the update that ends it (sequences.ts
\* 293-415).
SequenceTypeOK ==
  /\ enrolment \in [Enrolments -> EnrolmentStatuses]
  /\ stepIdx \in [Enrolments -> Nat] /\ due \in [Enrolments -> Nat]
  /\ leased \in [Enrolments -> BOOLEAN] /\ lapses \in [Enrolments -> Nat]
  /\ optedOut \in [Enrolments -> BOOLEAN] /\ lateMails \in [Enrolments -> Nat]
  /\ mails \in [Enrolments -> [Steps -> Nat]]
  /\ position \in [Steps -> Int] /\ offered \in BOOLEAN /\ reordered \in BOOLEAN
  /\ sender \in [Senders -> SenderLabels]
  /\ batch \in [Senders -> SUBSET Enrolments] /\ fresh \in [Senders -> SUBSET Enrolments]
  /\ plan \in [Senders -> Seq(Steps)]
  /\ held \in [Senders -> Enrolments \cup {NoRow}] /\ at \in [Senders -> Nat]
  /\ want \in [Senders -> SUBSET SequenceLeads]
  /\ \A p \in Senders : held[p] # NoRow <=> sender[p] \in {"claimed", "sent"}

\* Two invocations work on one enrolment only after a lease on it ran out
\* under an unfinished send (the claim of lines 293-297).
HolderIsAlone ==
  \A p, q \in Senders, e \in Enrolments :
    p # q /\ held[p] = e /\ held[q] = e => lapses[e] > 0

\* Each repeat of a step's e-mail is paid for by a lease that ran out: a
\* killed or slow send, never two runs that merely overlap (comment, lines
\* 236-258).  Deleting a step renumbers the rest and is left out.
RepeatsNeedALapse ==
  ~reordered => \A e \in Enrolments, s \in Steps : mails[e][s] <= 1 + lapses[e]

\* After the lead unsubscribed, at most the send that was already claimed
\* goes out, and one for each lease that ran out.
OptOutStopsTheRest ==
  \A e \in Enrolments : lateMails[e] <= 1 + lapses[e]

\* No enrolment stays active for ever: an invocation killed after its claim
\* leaves a row that is due again when the lease ends ("self-healing, no
\* stuck enrollment", line 257).
EnrolmentEnds ==
  \A e \in Enrolments : enrolment[e] = "ACTIVE" ~> enrolment[e] # "ACTIVE"

\* Cron calls keep coming, time passes, and an invocation that is not killed
\* goes on.
SequenceFairness(p) ==
  /\ WF_sequenceVars(SequenceTick)
  /\ SF_sequenceVars(ReadDue(p))
  /\ \A q \in Senders : WF_sequenceVars(SenderStep(q))
  /\ \A e \in Enrolments : SF_sequenceVars(ClaimRow(p, e))
=============================================================================

--------------------------- MODULE Outbound_proofs ---------------------------
(* What holds of all that the office sends by itself, for any rows,        *)
(* invocations and bounds: one inductive invariant for each of the six     *)
(* components, and then of their composition.                              *)
EXTENDS MCOutbound, FiniteSetTheorems, TLAPS

-----------------------------------------------------------------------------
(* Counting invocations: subsets of a finite set, one element more or less. *)

LEMMA Counted ==
  ASSUME NEW E, IsFiniteSet(E), NEW S \in SUBSET E
  PROVE  IsFiniteSet(S) /\ Cardinality(S) \in Nat
BY FS_Subset, FS_CardinalityType

LEMMA NoMore ==
  ASSUME NEW E, IsFiniteSet(E), NEW S \in SUBSET E, NEW T \in SUBSET S
  PROVE  Cardinality(T) <= Cardinality(S)
BY Counted, FS_Subset

LEMMA OneMore ==
  ASSUME NEW E, IsFiniteSet(E), NEW S \in SUBSET E, NEW x, NEW T \in SUBSET (S \cup {x})
  PROVE  IsFiniteSet(T) /\ Cardinality(T) \in Nat /\ Cardinality(T) <= Cardinality(S) + 1
<1>1. IsFiniteSet(S) /\ Cardinality(S) \in Nat
  BY Counted
<1>2. IsFiniteSet(S \cup {x}) /\ Cardinality(S \cup {x}) <= Cardinality(S) + 1
  <2>1. CASE x \in S
    BY <1>1, <2>1, FS_AddElement
  <2>2. CASE x \notin S
    <3>1. IsFiniteSet(S \cup {x}) /\ Cardinality(S \cup {x}) = Cardinality(S) + 1
      BY <1>1, <2>2, FS_AddElement
    <3> QED
      BY <1>1, <3>1
  <2> QED
    BY <2>1, <2>2
<1>3. IsFiniteSet(T) /\ Cardinality(T) \in Nat /\ Cardinality(T) <= Cardinality(S \cup {x})
  BY <1>2, FS_Subset, FS_CardinalityType
<1>4. Cardinality(S \cup {x}) \in Nat
  BY <1>2, FS_CardinalityType
<1> QED
  BY <1>1, <1>2, <1>3, <1>4

LEMMA OneLess ==
  ASSUME NEW E, IsFiniteSet(E), NEW S \in SUBSET E, NEW x \in S, NEW T \in SUBSET (S \ {x})
  PROVE  Cardinality(T) \in Nat /\ Cardinality(T) + 1 <= Cardinality(S)
<1>1. IsFiniteSet(S) /\ Cardinality(S) \in Nat
  BY Counted
<1>2. IsFiniteSet(S \ {x}) /\ Cardinality(S \ {x}) = Cardinality(S) - 1
  BY <1>1, FS_RemoveElement
<1>3. IsFiniteSet(T) /\ Cardinality(T) \in Nat /\ Cardinality(T) <= Cardinality(S \ {x})
  BY <1>2, FS_Subset, FS_CardinalityType
<1> QED
  BY <1>1, <1>2, <1>3

-----------------------------------------------------------------------------
(* Sequences: what has been mailed, and may still be, is paid for.         *)

\* The type invariant's parts: rows, flags, the steps, and invocations.
EnrolmentRowTypes ==
  /\ enrolment \in [Enrolments -> EnrolmentStatuses]
  /\ stepIdx \in [Enrolments -> Nat] /\ due \in [Enrolments -> Nat] /\ lapses \in [Enrolments -> Nat]

\* Leases and opt-outs.
FlagTypes == leased \in [Enrolments -> BOOLEAN] /\ optedOut \in [Enrolments -> BOOLEAN]

\* What has gone out.
MailCounts ==
  mails \in [Enrolments -> [Steps -> Nat]] /\ lateMails \in [Enrolments -> Nat]

\* The steps and whether the sequence is there.
ListTypes == position \in [Steps -> Int] /\ offered \in BOOLEAN /\ reordered \in BOOLEAN

\* What an invocation has: a row in hand exactly while it has claimed it.
SenderTypes ==
  /\ sender \in [Senders -> SenderLabels]
  /\ batch \in [Senders -> SUBSET Enrolments] /\ fresh \in [Senders -> SUBSET Enrolments]
  /\ plan \in [Senders -> Seq(Steps)]
  /\ held \in [Senders -> Enrolments \cup {NoRow}] /\ at \in [Senders -> Nat]
  /\ want \in [Senders -> SUBSET SequenceLeads]
  /\ \A p \in Senders : held[p] # NoRow <=> sender[p] \in {"claimed", "sent"}

\* All the types.
SequenceTypes == EnrolmentRowTypes /\ FlagTypes /\ MailCounts /\ ListTypes /\ SenderTypes

\* A lease runs; a row read and not written since has none; and a deleted
\* sequence has no active row.
LeasesRun ==
  /\ \A e \in Enrolments : leased[e] => due[e] >= 1 /\ enrolment[e] # "none"
  /\ \A p \in Senders : \A e \in fresh[p] : due[e] = 0 /\ enrolment[e] # "none"
  /\ \A e \in Enrolments : enrolment[e] = "ACTIVE" => offered

\* Whom a row is held by, and whether it may be claimed, now or later.
Holders(e) == {p \in Senders : held[p] = e}
Open(e) == IF enrolment[e] \in {"none", "ACTIVE"} /\ ~leased[e] THEN 1 ELSE 0

\* Whoever holds the row, and the claim that may still be made, are paid for by lapses.
ClaimsPaid == \A e \in Enrolments : Cardinality(Holders(e)) + Open(e) <= 1 + lapses[e]

\* Those that may still send an opted-out row's mail had claimed it before.
Sending(e) == {p \in Holders(e) : sender[p] = "claimed"}

\* So is what goes out after the opt-out: only what had been claimed before it.
LatePaid ==
  \A e \in Enrolments :
    /\ ~optedOut[e] => lateMails[e] = 0
    /\ optedOut[e] => enrolment[e] \notin {"none", "ACTIVE"}
    /\ lateMails[e] + Cardinality(Sending(e)) <= 1 + lapses[e]

\* Until a step is deleted the steps are numbered from zero, and every plan
\* has a step where its number says.
ExistingSteps == {s \in Steps : position[s] >= 0}

StepsNumbered ==
  ~reordered /\ offered =>
    /\ \A s, t \in ExistingSteps : position[s] = position[t] => s = t
    /\ \A s \in ExistingSteps : position[s] < Cardinality(ExistingSteps)

PlansAgree ==
  ~reordered /\ offered => \A p \in Senders : \A j \in 1..Len(plan[p]) : position[plan[p][j]] = j - 1

\* A step is passed when an index is beyond it.  A row has a step ahead of it
\* when it may be claimed for that step; an invocation, when it may send it or
\* set the row's index to where it is still to be sent.
Passed(s, k) == 0 <= position[s] /\ position[s] < k
Room(e, s) == IF Open(e) = 1 /\ ~Passed(s, stepIdx[e]) THEN 1 ELSE 0
Reach(p) == IF sender[p] = "sent" THEN at[p] + 1 ELSE at[p]
Ahead(e, s) == {p \in Holders(e) : ~Passed(s, Reach(p))}

\* A step was mailed, is ahead of somebody who holds the row, or of the row itself:
\* together once, and once more for every lapse.
RepeatsPaid ==
  ~reordered /\ offered =>
    \A e \in Enrolments, s \in Steps :
      mails[e][s] + Cardinality(Ahead(e, s)) + Room(e, s) <= 1 + lapses[e]

\* The sequence deleted, only what was claimed before goes out.
AboutTo(e, s) == {p \in Sending(e) : at[p] < Len(plan[p]) /\ plan[p][at[p] + 1] = s}

SendsPaid ==
  ~reordered =>
    \A e \in Enrolments, s \in Steps : mails[e][s] + Cardinality(AboutTo(e, s)) <= 1 + lapses[e]

\* The inductive invariant of sequences.
SequenceInv ==
  /\ SequenceTypes /\ LeasesRun /\ ClaimsPaid /\ LatePaid
  /\ StepsNumbered /\ PlansAgree /\ RepeatsPaid /\ SendsPaid

LEMMA StepsCounted == \A S \in SUBSET Steps : IsFiniteSet(S) /\ Cardinality(S) \in Nat
BY SequenceConstants, Counted

LEMMA SendersCounted == \A S \in SUBSET Senders : IsFiniteSet(S) /\ Cardinality(S) \in Nat
BY SequenceConstants, Counted

\* A listing is the existing steps, each once, in an order of their numbers.
LEMMA ListingIs ==
  ASSUME NEW list \in Listings
  PROVE  LET n == Cardinality(ExistingSteps)
         IN  /\ n \in Nat /\ list \in [1..n -> ExistingSteps] /\ list \in Seq(Steps) /\ Len(list) = n
             /\ \A i, j \in 1..n : i # j => list[i] # list[j]
             /\ \A i, j \in 1..n : i < j => position[list[i]] <= position[list[j]]
<1> DEFINE n == Cardinality(ExistingSteps)
<1>1. n \in Nat /\ ExistingSteps \subseteq Steps
  BY StepsCounted DEF ExistingSteps
<1>2. list \in SetToSeqs(ExistingSteps)
  BY DEF Listings, ExistingSteps
<1>3. list \in [1..n -> ExistingSteps] /\ \A i, j \in 1..n : i # j => list[i] # list[j]
  BY <1>2 DEF SetToSeqs
<1> HIDE DEF n
<1>4. list \in Seq(Steps) /\ Len(list) = n /\ DOMAIN list = 1..n
  BY <1>1, <1>3
<1>5. \A i, j \in 1..n : i < j => position[list[i]] <= position[list[j]]
  BY <1>4 DEF Listings
<1> QED
  BY <1>1, <1>3, <1>4, <1>5 DEF n

\* Every step keeps the types: one case per statement.
LEMMA SequenceRowTypesNext ==
  ASSUME SequenceInv, [SequenceNext]_sequenceVars
  PROVE  EnrolmentRowTypes'
<1>0. SequenceTypes /\ SequenceConstants
  BY SequenceConstants DEF SequenceInv
<1> USE DEF SequenceTypes
<1>1. ASSUME NEW p \in Senders, ReadDue(p) PROVE EnrolmentRowTypes'
  BY <1>0, <1>1 DEF ReadDue, Due, enrolmentVars, listVars, EnrolmentRowTypes, EnrolmentStatuses
<1>2. ASSUME NEW p \in Senders, NEW e \in Enrolments, ClaimRow(p, e) PROVE EnrolmentRowTypes'
  BY <1>0, <1>2 DEF ClaimRow, Written, Claimable, listVars, EnrolmentRowTypes, EnrolmentStatuses
<1>3. ASSUME NEW p \in Senders, NEW e \in Enrolments, ClaimedByAnother(p, e) PROVE EnrolmentRowTypes'
  BY <1>0, <1>3 DEF ClaimedByAnother, Claimable, enrolmentVars, listVars, EnrolmentRowTypes, EnrolmentStatuses
<1>4. ASSUME NEW p \in Senders, BatchDone(p) PROVE EnrolmentRowTypes'
  BY <1>0, <1>4 DEF BatchDone, Stop, enrolmentVars, listVars, EnrolmentRowTypes, EnrolmentStatuses
<1>5. ASSUME NEW p \in Senders, NoStepLeft(p) PROVE EnrolmentRowTypes'
  BY <1>0, <1>5 DEF NoStepLeft, Existing, Written, NextRow, Close, listVars, EnrolmentRowTypes,
     EnrolmentStatuses
<1>6. ASSUME NEW p \in Senders, CannotBeSent(p) PROVE EnrolmentRowTypes'
  BY <1>0, <1>6 DEF CannotBeSent, Existing, Written, NextRow, Close, StepLogged, listVars, EnrolmentRowTypes,
     EnrolmentStatuses
<1>7. ASSUME NEW p \in Senders, SendStep(p) PROVE EnrolmentRowTypes'
  BY <1>0, <1>7 DEF SendStep, listVars, EnrolmentRowTypes, EnrolmentStatuses
<1>8. ASSUME NEW p \in Senders, Advance(p) PROVE EnrolmentRowTypes'
  <2>1. held[p] \in Enrolments /\ at[p] + 1 \in Nat /\ Delay \in Nat
    BY <1>0, <1>8 DEF Advance, Existing, SenderTypes, SequenceConstants
  <2>2. /\ stepIdx' = [stepIdx EXCEPT ![held[p]] = at[p] + 1] /\ lapses' = lapses
        /\ due' = [due EXCEPT ![held[p]] = Delay] \/ due' = [due EXCEPT ![held[p]] = 0]
        /\ enrolment' = enrolment \/ enrolment' = [enrolment EXCEPT ![held[p]] = "COMPLETED"]
    BY <1>8 DEF Advance, Close
  <2>3. due' \in [Enrolments -> Nat] /\ stepIdx' \in [Enrolments -> Nat] /\ lapses' \in [Enrolments -> Nat]
    BY <1>0, <2>1, <2>2 DEF EnrolmentRowTypes
  <2>4. enrolment' \in [Enrolments -> EnrolmentStatuses]
    BY <1>0, <2>1, <2>2 DEF EnrolmentRowTypes, EnrolmentStatuses
  <2> QED
    BY <2>3, <2>4 DEF EnrolmentRowTypes
<1>9. ASSUME NEW p \in Senders, RowVanished(p) PROVE EnrolmentRowTypes'
  BY <1>0, <1>9 DEF RowVanished, Existing, Stop, StepLogged, Dies, enrolmentVars, listVars, EnrolmentRowTypes,
     EnrolmentStatuses
<1>10. ASSUME NEW p \in Senders, CreateEnrolments(p) PROVE EnrolmentRowTypes'
  BY <1>0, <1>10 DEF CreateEnrolments, Stop, listVars, EnrolmentRowTypes, EnrolmentStatuses
<1>11. ASSUME NEW p \in Senders, SenderDies(p) PROVE EnrolmentRowTypes'
  BY <1>0, <1>11 DEF SenderDies, Stop, Dies, enrolmentVars, listVars, EnrolmentRowTypes, EnrolmentStatuses
<1>12. ASSUME NEW p \in Senders, NEW leads \in SUBSET SequenceLeads, StartEnrol(p, leads) PROVE EnrolmentRowTypes'
  BY <1>0, <1>12 DEF StartEnrol, RowsLeft, enrolmentVars, listVars, EnrolmentRowTypes, EnrolmentStatuses
<1>13. ASSUME NEW e \in Enrolments, UnenrollLead(e) PROVE EnrolmentRowTypes'
  BY <1>0, <1>13 DEF UnenrollLead, Existing, listVars, senderVars, EnrolmentRowTypes, EnrolmentStatuses
<1>14. ASSUME NEW l \in SequenceLeads, Unsubscribe(l) PROVE EnrolmentRowTypes'
  BY <1>0, <1>14 DEF Unsubscribe, Existing, listVars, senderVars, EnrolmentRowTypes, EnrolmentStatuses
<1>15. ASSUME NEW s \in Steps, AddStep(s) PROVE EnrolmentRowTypes'
  BY <1>0, <1>15 DEF AddStep, enrolmentVars, senderVars, EnrolmentRowTypes, EnrolmentStatuses
<1>16. ASSUME NEW s \in Steps, DeleteStep(s) PROVE EnrolmentRowTypes'
  BY <1>0, <1>16 DEF DeleteStep, enrolmentVars, senderVars, EnrolmentRowTypes, EnrolmentStatuses
<1>17. ASSUME DeleteSequence PROVE EnrolmentRowTypes'
  BY <1>0, <1>17 DEF DeleteSequence, Existing, senderVars, EnrolmentRowTypes, EnrolmentStatuses
<1>18. ASSUME SequenceTick PROVE EnrolmentRowTypes'
  BY <1>0, <1>18 DEF SequenceTick, Lapsing, listVars, senderVars, EnrolmentRowTypes, EnrolmentStatuses
<1>19. CASE UNCHANGED sequenceVars
  BY <1>0, <1>19 DEF sequenceVars, enrolmentVars, listVars, senderVars, EnrolmentRowTypes, EnrolmentStatuses
<1> QED
  BY <1>1, <1>2, <1>3, <1>4, <1>5, <1>6, <1>7, <1>8, <1>9, <1>10, <1>11, <1>12, <1>13, <1>14, <1>15, <1>16,
     <1>17, <1>18, <1>19 DEF SequenceNext, SenderStep

LEMMA SequenceFlagTypesNext ==
  ASSUME SequenceInv, [SequenceNext]_sequenceVars
  PROVE  FlagTypes'
<1>0. SequenceTypes /\ SequenceConstants
  BY SequenceConstants DEF SequenceInv
<1> USE DEF SequenceTypes
<1>1. ASSUME NEW p \in Senders, ReadDue(p) PROVE FlagTypes'
  BY <1>0, <1>1 DEF ReadDue, Due, enrolmentVars, listVars, FlagTypes
<1>2. ASSUME NEW p \in Senders, NEW e \in Enrolments, ClaimRow(p, e) PROVE FlagTypes'
  BY <1>0, <1>2 DEF ClaimRow, Written, Claimable, listVars, FlagTypes
<1>3. ASSUME NEW p \in Senders, NEW e \in Enrolments, ClaimedByAnother(p, e) PROVE FlagTypes'
  BY <1>0, <1>3 DEF ClaimedByAnother, Claimable, enrolmentVars, listVars, FlagTypes
<1>4. ASSUME NEW p \in Senders, BatchDone(p) PROVE FlagTypes'
  BY <1>0, <1>4 DEF BatchDone, Stop, enrolmentVars, listVars, FlagTypes
<1>5. ASSUME NEW p \in Senders, NoStepLeft(p) PROVE FlagTypes'
  BY <1>0, <1>5 DEF NoStepLeft, Existing, Written, NextRow, Close, listVars, FlagTypes
<1>6. ASSUME NEW p \in Senders, CannotBeSent(p) PROVE FlagTypes'
  BY <1>0, <1>6 DEF CannotBeSent, Existing, Written, NextRow, Close, StepLogged, listVars, FlagTypes
<1>7. ASSUME NEW p \in Senders, SendStep(p) PROVE FlagTypes'
  BY <1>0, <1>7 DEF SendStep, listVars, FlagTypes
<1>8. ASSUME NEW p \in Senders, Advance(p) PROVE FlagTypes'
  BY <1>0, <1>8 DEF Advance, Existing, Written, NextRow, Close, StepLogged, listVars, FlagTypes
<1>9. ASSUME NEW p \in Senders, RowVanished(p) PROVE FlagTypes'
  BY <1>0, <1>9 DEF RowVanished, Existing, Stop, StepLogged, Dies, enrolmentVars, listVars, FlagTypes
<1>10. ASSUME NEW p \in Senders, CreateEnrolments(p) PROVE FlagTypes'
  BY <1>0, <1>10 DEF CreateEnrolments, Stop, listVars, FlagTypes
<1>11. ASSUME NEW p \in Senders, SenderDies(p) PROVE FlagTypes'
  BY <1>0, <1>11 DEF SenderDies, Stop, Dies, enrolmentVars, listVars, FlagTypes
<1>12. ASSUME NEW p \in Senders, NEW leads \in SUBSET SequenceLeads, StartEnrol(p, leads) PROVE FlagTypes'
  BY <1>0, <1>12 DEF StartEnrol, RowsLeft, enrolmentVars, listVars, FlagTypes
<1>13. ASSUME NEW e \in Enrolments, UnenrollLead(e) PROVE FlagTypes'
  BY <1>0, <1>13 DEF UnenrollLead, Existing, listVars, senderVars, FlagTypes
<1>14. ASSUME NEW l \in SequenceLeads, Unsubscribe(l) PROVE FlagTypes'
  BY <1>0, <1>14 DEF Unsubscribe, Existing, listVars, senderVars, FlagTypes
<1>15. ASSUME NEW s \in Steps, AddStep(s) PROVE FlagTypes'
  BY <1>0, <1>15 DEF AddStep, enrolmentVars, senderVars, FlagTypes
<1>16. ASSUME NEW s \in Steps, DeleteStep(s) PROVE FlagTypes'
  BY <1>0, <1>16 DEF DeleteStep, enrolmentVars, senderVars, FlagTypes
<1>17. ASSUME DeleteSequence PROVE FlagTypes'
  BY <1>0, <1>17 DEF DeleteSequence, Existing, senderVars, FlagTypes
<1>18. ASSUME SequenceTick PROVE FlagTypes'
  BY <1>0, <1>18 DEF SequenceTick, Lapsing, listVars, senderVars, FlagTypes
<1>19. CASE UNCHANGED sequenceVars
  BY <1>0, <1>19 DEF sequenceVars, enrolmentVars, listVars, senderVars, FlagTypes
<1> QED
  BY <1>1, <1>2, <1>3, <1>4, <1>5, <1>6, <1>7, <1>8, <1>9, <1>10, <1>11, <1>12, <1>13, <1>14, <1>15, <1>16,
     <1>17, <1>18, <1>19 DEF SequenceNext, SenderStep

LEMMA SequenceMailTypesNext ==
  ASSUME SequenceInv, [SequenceNext]_sequenceVars
  PROVE  MailCounts'
<1>0. SequenceTypes /\ SequenceConstants
  BY SequenceConstants DEF SequenceInv
<1> USE DEF SequenceTypes
<1>1. ASSUME NEW p \in Senders, ReadDue(p) PROVE MailCounts'
  BY <1>0, <1>1 DEF ReadDue, Due, enrolmentVars, listVars, MailCounts
<1>2. ASSUME NEW p \in Senders, NEW e \in Enrolments, ClaimRow(p, e) PROVE MailCounts'
  BY <1>0, <1>2 DEF ClaimRow, Written, Claimable, listVars, MailCounts
<1>3. ASSUME NEW p \in Senders, NEW e \in Enrolments, ClaimedByAnother(p, e) PROVE MailCounts'
  BY <1>0, <1>3 DEF ClaimedByAnother, Claimable, enrolmentVars, listVars, MailCounts
<1>4. ASSUME NEW p \in Senders, BatchDone(p) PROVE MailCounts'
  BY <1>0, <1>4 DEF BatchDone, Stop, enrolmentVars, listVars, MailCounts
<1>5. ASSUME NEW p \in Senders, NoStepLeft(p) PROVE MailCounts'
  BY <1>0, <1>5 DEF NoStepLeft, Existing, Written, NextRow, Close, listVars, MailCounts
<1>6. ASSUME NEW p \in Senders, CannotBeSent(p) PROVE MailCounts'
  BY <1>0, <1>6 DEF CannotBeSent, Existing, Written, NextRow, Close, StepLogged, listVars, MailCounts
<1>7. ASSUME NEW p \in Senders, SendStep(p) PROVE MailCounts'
  <2> DEFINE e == held[p]
  <2> DEFINE s == plan[p][at[p] + 1]
  <2>1. e \in Enrolments /\ s \in Steps
    BY <1>0, <1>7 DEF SendStep, SenderTypes, SequenceConstants
  <2>2. \/ mails' = [mails EXCEPT ![e][s] = @ + 1] /\ lateMails' = [lateMails EXCEPT ![e] = IF optedOut[e] THEN @ + 1 ELSE @]
        \/ mails' = mails /\ lateMails' = lateMails
    BY <1>7 DEF SendStep
  <2> HIDE DEF e, s
  <2>3. mails' \in [Enrolments -> [Steps -> Nat]]
    <3>1. mails[e] \in [Steps -> Nat] /\ mails[e][s] + 1 \in Nat
      BY <1>0, <2>1 DEF MailCounts
    <3>2. [mails[e] EXCEPT ![s] = mails[e][s] + 1] \in [Steps -> Nat]
      BY <3>1
    <3> QED
      BY <1>0, <2>1, <2>2, <3>2 DEF MailCounts
  <2>4. lateMails' \in [Enrolments -> Nat]
    BY <1>0, <2>1, <2>2 DEF MailCounts
  <2> QED
    BY <2>3, <2>4 DEF MailCounts
<1>8. ASSUME NEW p \in Senders, Advance(p) PROVE MailCounts'
  BY <1>0, <1>8 DEF Advance, Existing, Written, NextRow, Close, StepLogged, listVars, MailCounts
<1>9. ASSUME NEW p \in Senders, RowVanished(p) PROVE MailCounts'
  BY <1>0, <1>9 DEF RowVanished, Existing, Stop, StepLogged, Dies, enrolmentVars, listVars, MailCounts
<1>10. ASSUME NEW p \in Senders, CreateEnrolments(p) PROVE MailCounts'
  BY <1>0, <1>10 DEF CreateEnrolments, Stop, listVars, MailCounts
<1>11. ASSUME NEW p \in Senders, SenderDies(p) PROVE MailCounts'
  BY <1>0, <1>11 DEF SenderDies, Stop, Dies, enrolmentVars, listVars, MailCounts
<1>12. ASSUME NEW p \in Senders, NEW leads \in SUBSET SequenceLeads, StartEnrol(p, leads) PROVE MailCounts'
  BY <1>0, <1>12 DEF StartEnrol, RowsLeft, enrolmentVars, listVars, MailCounts
<1>13. ASSUME NEW e \in Enrolments, UnenrollLead(e) PROVE MailCounts'
  BY <1>0, <1>13 DEF UnenrollLead, Existing, listVars, senderVars, MailCounts
<1>14. ASSUME NEW l \in SequenceLeads, Unsubscribe(l) PROVE MailCounts'
  BY <1>0, <1>14 DEF Unsubscribe, Existing, listVars, senderVars, MailCounts
<1>15. ASSUME NEW s \in Steps, AddStep(s) PROVE MailCounts'
  BY <1>0, <1>15 DEF AddStep, enrolmentVars, senderVars, MailCounts
<1>16. ASSUME NEW s \in Steps, DeleteStep(s) PROVE MailCounts'
  BY <1>0, <1>16 DEF DeleteStep, enrolmentVars, senderVars, MailCounts
<1>17. ASSUME DeleteSequence PROVE MailCounts'
  BY <1>0, <1>17 DEF DeleteSequence, Existing, senderVars, MailCounts
<1>18. ASSUME SequenceTick PROVE MailCounts'
  BY <1>0, <1>18 DEF SequenceTick, Lapsing, listVars, senderVars, MailCounts
<1>19. CASE UNCHANGED sequenceVars
  BY <1>0, <1>19 DEF sequenceVars, enrolmentVars, listVars, senderVars, MailCounts
<1> QED
  BY <1>1, <1>2, <1>3, <1>4, <1>5, <1>6, <1>7, <1>8, <1>9, <1>10, <1>11, <1>12, <1>13, <1>14, <1>15, <1>16,
     <1>17, <1>18, <1>19 DEF SequenceNext, SenderStep

LEMMA SequenceListTypesNext ==
  ASSUME SequenceInv, [SequenceNext]_sequenceVars
  PROVE  ListTypes'
<1>0. SequenceTypes /\ SequenceConstants
  BY SequenceConstants DEF SequenceInv
<1> USE DEF SequenceTypes
<1>1. ASSUME NEW p \in Senders, ReadDue(p) PROVE ListTypes'
  BY <1>0, <1>1 DEF ReadDue, Due, enrolmentVars, listVars, ListTypes
<1>2. ASSUME NEW p \in Senders, NEW e \in Enrolments, ClaimRow(p, e) PROVE ListTypes'
  BY <1>0, <1>2 DEF ClaimRow, Written, Claimable, listVars, ListTypes
<1>3. ASSUME NEW p \in Senders, NEW e \in Enrolments, ClaimedByAnother(p, e) PROVE ListTypes'
  BY <1>0, <1>3 DEF ClaimedByAnother, Claimable, enrolmentVars, listVars, ListTypes
<1>4. ASSUME NEW p \in Senders, BatchDone(p) PROVE ListTypes'
  BY <1>0, <1>4 DEF BatchDone, Stop, enrolmentVars, listVars, ListTypes
<1>5. ASSUME NEW p \in Senders, NoStepLeft(p) PROVE ListTypes'
  BY <1>0, <1>5 DEF NoStepLeft, Existing, Written, NextRow, Close, listVars, ListTypes
<1>6. ASSUME NEW p \in Senders, CannotBeSent(p) PROVE ListTypes'
  BY <1>0, <1>6 DEF CannotBeSent, Existing, Written, NextRow, Close, StepLogged, listVars, ListTypes
<1>7. ASSUME NEW p \in Senders, SendStep(p) PROVE ListTypes'
  BY <1>0, <1>7 DEF SendStep, listVars, ListTypes
<1>8. ASSUME NEW p \in Senders, Advance(p) PROVE ListTypes'
  BY <1>0, <1>8 DEF Advance, Existing, Written, NextRow, Close, StepLogged, listVars, ListTypes
<1>9. ASSUME NEW p \in Senders, RowVanished(p) PROVE ListTypes'
  BY <1>0, <1>9 DEF RowVanished, Existing, Stop, StepLogged, Dies, enrolmentVars, listVars, ListTypes
<1>10. ASSUME NEW p \in Senders, CreateEnrolments(p) PROVE ListTypes'
  BY <1>0, <1>10 DEF CreateEnrolments, Stop, listVars, ListTypes
<1>11. ASSUME NEW p \in Senders, SenderDies(p) PROVE ListTypes'
  BY <1>0, <1>11 DEF SenderDies, Stop, Dies, enrolmentVars, listVars, ListTypes
<1>12. ASSUME NEW p \in Senders, NEW leads \in SUBSET SequenceLeads, StartEnrol(p, leads) PROVE ListTypes'
  BY <1>0, <1>12 DEF StartEnrol, RowsLeft, enrolmentVars, listVars, ListTypes
<1>13. ASSUME NEW e \in Enrolments, UnenrollLead(e) PROVE ListTypes'
  BY <1>0, <1>13 DEF UnenrollLead, Existing, listVars, senderVars, ListTypes
<1>14. ASSUME NEW l \in SequenceLeads, Unsubscribe(l) PROVE ListTypes'
  BY <1>0, <1>14 DEF Unsubscribe, Existing, listVars, senderVars, ListTypes
<1>15. ASSUME NEW s \in Steps, AddStep(s) PROVE ListTypes'
  <2>1. Cardinality({x \in Steps : position[x] >= 0}) \in Nat
    BY StepsCounted
  <2> QED
    BY <1>0, <1>15, <2>1 DEF AddStep, ListTypes
<1>16. ASSUME NEW s \in Steps, DeleteStep(s) PROVE ListTypes'
  BY <1>0, <1>16 DEF DeleteStep, enrolmentVars, senderVars, ListTypes
<1>17. ASSUME DeleteSequence PROVE ListTypes'
  <2>1. position' \in [Steps -> Int]
    BY <1>17 DEF DeleteSequence
  <2> QED
    BY <1>0, <1>17, <2>1 DEF DeleteSequence, ListTypes
<1>18. ASSUME SequenceTick PROVE ListTypes'
  BY <1>0, <1>18 DEF SequenceTick, Lapsing, listVars, senderVars, ListTypes
<1>19. CASE UNCHANGED sequenceVars
  BY <1>0, <1>19 DEF sequenceVars, enrolmentVars, listVars, senderVars, ListTypes
<1> QED
  BY <1>1, <1>2, <1>3, <1>4, <1>5, <1>6, <1>7, <1>8, <1>9, <1>10, <1>11, <1>12, <1>13, <1>14, <1>15, <1>16,
     <1>17, <1>18, <1>19 DEF SequenceNext, SenderStep

LEMMA SequenceSenderTypesNext ==
  ASSUME SequenceInv, [SequenceNext]_sequenceVars
  PROVE  SenderTypes'
<1>0. SequenceTypes /\ SequenceConstants
  BY SequenceConstants DEF SequenceInv
<1> USE DEF SequenceTypes
<1>1. ASSUME NEW p \in Senders, ReadDue(p) PROVE SenderTypes'
  <2>1. PICK some \in SUBSET Due, list \in Listings :
             /\ batch' = [batch EXCEPT ![p] = some] /\ fresh' = [fresh EXCEPT ![p] = some]
             /\ plan' = [plan EXCEPT ![p] = list]
    BY <1>1 DEF ReadDue
  <2>2. list \in Seq(Steps) /\ some \in SUBSET Enrolments
    BY ListingIs DEF Due
  <2>3. sender[p] = "idle" /\ sender' = [sender EXCEPT ![p] = "loop"] /\ UNCHANGED <<held, at, want>>
    BY <1>1 DEF ReadDue
  <2> QED
    BY <1>0, <2>1, <2>2, <2>3 DEF SenderTypes, SenderLabels
<1>2. ASSUME NEW p \in Senders, NEW e \in Enrolments, ClaimRow(p, e) PROVE SenderTypes'
  BY <1>0, <1>2 DEF ClaimRow, Written, Claimable, listVars, SenderTypes, SenderLabels, EnrolmentRowTypes
<1>3. ASSUME NEW p \in Senders, NEW e \in Enrolments, ClaimedByAnother(p, e) PROVE SenderTypes'
  BY <1>0, <1>3 DEF ClaimedByAnother, Claimable, enrolmentVars, listVars, SenderTypes, SenderLabels,
     EnrolmentRowTypes
<1>4. ASSUME NEW p \in Senders, BatchDone(p) PROVE SenderTypes'
  BY <1>0, <1>4 DEF BatchDone, Stop, enrolmentVars, listVars, SenderTypes, SenderLabels, EnrolmentRowTypes
<1>5. ASSUME NEW p \in Senders, NoStepLeft(p) PROVE SenderTypes'
  BY <1>0, <1>5 DEF NoStepLeft, Existing, Written, NextRow, Close, listVars, SenderTypes, SenderLabels,
     EnrolmentRowTypes
<1>6. ASSUME NEW p \in Senders, CannotBeSent(p) PROVE SenderTypes'
  BY <1>0, <1>6 DEF CannotBeSent, Existing, Written, NextRow, Close, StepLogged, listVars, SenderTypes,
     SenderLabels, EnrolmentRowTypes
<1>7. ASSUME NEW p \in Senders, SendStep(p) PROVE SenderTypes'
  BY <1>0, <1>7 DEF SendStep, listVars, SenderTypes, SenderLabels, EnrolmentRowTypes
<1>8. ASSUME NEW p \in Senders, Advance(p) PROVE SenderTypes'
  BY <1>0, <1>8 DEF Advance, Existing, Written, NextRow, Close, StepLogged, listVars, SenderTypes,
     SenderLabels, EnrolmentRowTypes
<1>9. ASSUME NEW p \in Senders, RowVanished(p) PROVE SenderTypes'
  BY <1>0, <1>9 DEF RowVanished, Existing, Stop, StepLogged, Dies, enrolmentVars, listVars, SenderTypes,
     SenderLabels, EnrolmentRowTypes
<1>10. ASSUME NEW p \in Senders, CreateEnrolments(p) PROVE SenderTypes'
  BY <1>0, <1>10 DEF CreateEnrolments, Stop, listVars, SenderTypes, SenderLabels, EnrolmentRowTypes
<1>11. ASSUME NEW p \in Senders, SenderDies(p) PROVE SenderTypes'
  BY <1>0, <1>11 DEF SenderDies, Stop, Dies, enrolmentVars, listVars, SenderTypes, SenderLabels,
     EnrolmentRowTypes
<1>12. ASSUME NEW p \in Senders, NEW leads \in SUBSET SequenceLeads, StartEnrol(p, leads) PROVE SenderTypes'
  BY <1>0, <1>12 DEF StartEnrol, RowsLeft, enrolmentVars, listVars, SenderTypes, SenderLabels,
     EnrolmentRowTypes,
     ActiveLeads
<1>13. ASSUME NEW e \in Enrolments, UnenrollLead(e) PROVE SenderTypes'
  BY <1>0, <1>13 DEF UnenrollLead, Existing, listVars, senderVars, SenderTypes, SenderLabels, EnrolmentRowTypes
<1>14. ASSUME NEW l \in SequenceLeads, Unsubscribe(l) PROVE SenderTypes'
  BY <1>0, <1>14 DEF Unsubscribe, Existing, listVars, senderVars, SenderTypes, SenderLabels, EnrolmentRowTypes
<1>15. ASSUME NEW s \in Steps, AddStep(s) PROVE SenderTypes'
  BY <1>0, <1>15 DEF AddStep, enrolmentVars, senderVars, SenderTypes, SenderLabels, EnrolmentRowTypes
<1>16. ASSUME NEW s \in Steps, DeleteStep(s) PROVE SenderTypes'
  BY <1>0, <1>16 DEF DeleteStep, enrolmentVars, senderVars, SenderTypes, SenderLabels, EnrolmentRowTypes
<1>17. ASSUME DeleteSequence PROVE SenderTypes'
  BY <1>0, <1>17 DEF DeleteSequence, Existing, senderVars, SenderTypes, SenderLabels, EnrolmentRowTypes
<1>18. ASSUME SequenceTick PROVE SenderTypes'
  BY <1>0, <1>18 DEF SequenceTick, Lapsing, listVars, senderVars, SenderTypes, SenderLabels, EnrolmentRowTypes
<1>19. CASE UNCHANGED sequenceVars
  BY <1>0, <1>19 DEF sequenceVars, enrolmentVars, listVars, senderVars, SenderTypes, SenderLabels,
     EnrolmentRowTypes
<1> QED
  BY <1>1, <1>2, <1>3, <1>4, <1>5, <1>6, <1>7, <1>8, <1>9, <1>10, <1>11, <1>12, <1>13, <1>14, <1>15, <1>16,
     <1>17, <1>18, <1>19 DEF SequenceNext, SenderStep

\* Every step keeps a lease running until it lapses or is replaced.
LEMMA LeasesRunNext ==
  ASSUME SequenceInv, [SequenceNext]_sequenceVars
  PROVE  LeasesRun'
<1>0. EnrolmentRowTypes /\ FlagTypes /\ ListTypes /\ SenderTypes /\ LeasesRun /\ SequenceConstants
  BY SequenceConstants DEF SequenceInv, SequenceTypes
<1>1. ASSUME NEW p \in Senders, ReadDue(p) PROVE LeasesRun'
  BY <1>0, <1>1 DEF ReadDue, Due, enrolmentVars, listVars, LeasesRun, EnrolmentRowTypes, FlagTypes, ListTypes,
     SenderTypes
<1>2. ASSUME NEW p \in Senders, NEW e \in Enrolments, ClaimRow(p, e) PROVE LeasesRun'
  BY <1>0, <1>2 DEF ClaimRow, Written, Claimable, listVars, LeasesRun, EnrolmentRowTypes, FlagTypes, ListTypes,
     SenderTypes
<1>3. ASSUME NEW p \in Senders, NEW e \in Enrolments, ClaimedByAnother(p, e) PROVE LeasesRun'
  BY <1>0, <1>3 DEF ClaimedByAnother, Claimable, enrolmentVars, listVars, LeasesRun, EnrolmentRowTypes,
     FlagTypes,
     ListTypes, SenderTypes
<1>4. ASSUME NEW p \in Senders, BatchDone(p) PROVE LeasesRun'
  BY <1>0, <1>4 DEF BatchDone, Stop, enrolmentVars, listVars, LeasesRun, EnrolmentRowTypes, FlagTypes,
     ListTypes,
     SenderTypes
<1>5. ASSUME NEW p \in Senders, NoStepLeft(p) PROVE LeasesRun'
  BY <1>0, <1>5 DEF NoStepLeft, Existing, Written, NextRow, Close, listVars, LeasesRun, EnrolmentRowTypes,
     FlagTypes,
     ListTypes, SenderTypes
<1>6. ASSUME NEW p \in Senders, CannotBeSent(p) PROVE LeasesRun'
  BY <1>0, <1>6 DEF CannotBeSent, Existing, Written, NextRow, Close, StepLogged, listVars, LeasesRun,
     EnrolmentRowTypes, FlagTypes, ListTypes, SenderTypes
<1>7. ASSUME NEW p \in Senders, SendStep(p) PROVE LeasesRun'
  BY <1>0, <1>7 DEF SendStep, listVars, LeasesRun, EnrolmentRowTypes, FlagTypes, ListTypes, SenderTypes
<1>8. ASSUME NEW p \in Senders, Advance(p) PROVE LeasesRun'
  <2> DEFINE h == held[p]
  <2>1. h \in Enrolments /\ enrolment[h] # "none" /\ offered' = offered
    BY <1>8 DEF Advance, Existing, listVars
  <2>2. \A q \in Senders : fresh'[q] = fresh[q] \ {h}
    BY <1>8 DEF Advance, Close, Written
  <2>3. leased' = [leased EXCEPT ![h] = FALSE]
    BY <1>8 DEF Advance, Close
  <2>4. (due' = [due EXCEPT ![h] = Delay] \/ due' = [due EXCEPT ![h] = 0])
        /\ (enrolment' = enrolment \/ enrolment' = [enrolment EXCEPT ![h] = "COMPLETED"])
    BY <1>8 DEF Advance, Close
  <2> HIDE DEF h
  <2>5. ~leased'[h] /\ \A e \in Enrolments \ {h} : leased'[e] <=> leased[e]
    BY <1>0, <2>1, <2>3 DEF FlagTypes
  <2>6. /\ \A e \in Enrolments \ {h} : due'[e] = due[e]
        /\ \A e \in Enrolments : enrolment'[e] = enrolment[e] \/ (e = h /\ enrolment'[e] = "COMPLETED")
    BY <1>0, <2>1, <2>4 DEF EnrolmentRowTypes
  <2>7. ASSUME NEW q \in Senders, NEW e \in fresh'[q] PROVE due'[e] = 0 /\ enrolment'[e] # "none"
    <3>1. e \in fresh[q] /\ e # h /\ e \in Enrolments
      BY <1>0, <2>2, <2>7 DEF SenderTypes
    <3> QED
      BY <1>0, <2>6, <3>1 DEF LeasesRun
  <2>8. \A e \in Enrolments : leased'[e] => due'[e] >= 1 /\ enrolment'[e] # "none"
    BY <1>0, <2>5, <2>6 DEF LeasesRun
  <2>9. \A e \in Enrolments : enrolment'[e] = "ACTIVE" => offered'
    BY <1>0, <2>1, <2>6 DEF LeasesRun
  <2> QED
    BY <2>7, <2>8, <2>9 DEF LeasesRun
<1>9. ASSUME NEW p \in Senders, RowVanished(p) PROVE LeasesRun'
  BY <1>0, <1>9 DEF RowVanished, Existing, Stop, StepLogged, Dies, enrolmentVars, listVars, LeasesRun,
     EnrolmentRowTypes, FlagTypes, ListTypes, SenderTypes
<1>10. ASSUME NEW p \in Senders, CreateEnrolments(p) PROVE LeasesRun'
  BY <1>0, <1>10 DEF CreateEnrolments, Stop, listVars, LeasesRun, EnrolmentRowTypes, FlagTypes, ListTypes,
     SenderTypes
<1>11. ASSUME NEW p \in Senders, SenderDies(p) PROVE LeasesRun'
  BY <1>0, <1>11 DEF SenderDies, Stop, Dies, enrolmentVars, listVars, LeasesRun, EnrolmentRowTypes, FlagTypes,
     ListTypes, SenderTypes
<1>12. ASSUME NEW p \in Senders, NEW leads \in SUBSET SequenceLeads, StartEnrol(p, leads) PROVE LeasesRun'
  BY <1>0, <1>12 DEF StartEnrol, RowsLeft, enrolmentVars, listVars, LeasesRun, EnrolmentRowTypes, FlagTypes,
     ListTypes, SenderTypes
<1>13. ASSUME NEW e \in Enrolments, UnenrollLead(e) PROVE LeasesRun'
  BY <1>0, <1>13 DEF UnenrollLead, Existing, listVars, senderVars, LeasesRun, EnrolmentRowTypes, FlagTypes,
     ListTypes, SenderTypes
<1>14. ASSUME NEW l \in SequenceLeads, Unsubscribe(l) PROVE LeasesRun'
  BY <1>0, <1>14 DEF Unsubscribe, Existing, listVars, senderVars, LeasesRun, EnrolmentRowTypes, FlagTypes,
     ListTypes,
     SenderTypes
<1>15. ASSUME NEW s \in Steps, AddStep(s) PROVE LeasesRun'
  BY <1>0, <1>15 DEF AddStep, enrolmentVars, senderVars, LeasesRun, EnrolmentRowTypes, FlagTypes, ListTypes,
     SenderTypes
<1>16. ASSUME NEW s \in Steps, DeleteStep(s) PROVE LeasesRun'
  BY <1>0, <1>16 DEF DeleteStep, enrolmentVars, senderVars, LeasesRun, EnrolmentRowTypes, FlagTypes, ListTypes,
     SenderTypes
<1>17. ASSUME DeleteSequence PROVE LeasesRun'
  BY <1>0, <1>17 DEF DeleteSequence, Existing, senderVars, LeasesRun, EnrolmentRowTypes, FlagTypes, ListTypes,
     SenderTypes
<1>18. ASSUME SequenceTick PROVE LeasesRun'
  <2>1. UNCHANGED <<enrolment, fresh, offered>>
    BY <1>18 DEF SequenceTick, listVars, senderVars
  <2>2. \A e \in Enrolments : due'[e] = IF due[e] > 0 THEN due[e] - 1 ELSE 0
    BY <1>18 DEF SequenceTick
  <2>3. \A e \in Enrolments : leased'[e] => leased[e] /\ due[e] # 1
    BY <1>18 DEF SequenceTick, Lapsing
  <2>4. \A e \in Enrolments : due[e] \in Nat
    BY <1>0 DEF EnrolmentRowTypes
  <2>5. \A e \in Enrolments : leased'[e] => due'[e] >= 1 /\ enrolment'[e] # "none"
    BY <1>0, <2>1, <2>2, <2>3, <2>4 DEF LeasesRun
  <2>6. ASSUME NEW q \in Senders, NEW e \in fresh'[q] PROVE due'[e] = 0 /\ enrolment'[e] # "none"
    <3>1. e \in fresh[q] /\ e \in Enrolments
      BY <1>0, <2>1, <2>6 DEF SenderTypes
    <3>2. due[e] = 0 /\ enrolment[e] # "none"
      BY <1>0, <3>1 DEF LeasesRun
    <3> QED
      BY <2>1, <2>2, <3>1, <3>2
  <2> QED
    BY <1>0, <2>1, <2>5, <2>6 DEF LeasesRun
<1>19. CASE UNCHANGED sequenceVars
  BY <1>0, <1>19 DEF sequenceVars, enrolmentVars, listVars, senderVars, LeasesRun, EnrolmentRowTypes, FlagTypes,
     ListTypes, SenderTypes
<1> QED
  BY <1>1, <1>2, <1>3, <1>4, <1>5, <1>6, <1>7, <1>8, <1>9, <1>10, <1>11, <1>12, <1>13, <1>14, <1>15, <1>16,
     <1>17, <1>18, <1>19 DEF SequenceNext, SenderStep

\* What an invocation's step does to the holders of a row.
LEMMA HoldersKept ==
  ASSUME SenderTypes, NEW e \in Enrolments, held' = held
  PROVE  Holders(e)' = Holders(e)
BY DEF Holders

\* What a claim does.
LEMMA ClaimHolds ==
  ASSUME SequenceInv, NEW p \in Senders, NEW x \in Enrolments, ClaimRow(p, x), NEW e \in Enrolments
  PROVE  /\ \A q \in Senders \ {p} : held'[q] = held[q] /\ sender'[q] = sender[q] /\ at'[q] = at[q] /\ plan'[q] = plan[q]
         /\ held[p] = NoRow /\ held'[p] = x /\ sender'[p] = "claimed" /\ at'[p] = stepIdx[x] /\ plan'[p] = plan[p]
         /\ enrolment[x] = "ACTIVE" /\ ~leased[x] /\ leased'[x] /\ enrolment' = enrolment
         /\ UNCHANGED <<lapses, mails, optedOut, lateMails, stepIdx, listVars>>
         /\ e # x => (leased'[e] <=> leased[e])
<1>0. SenderTypes /\ EnrolmentRowTypes /\ FlagTypes /\ LeasesRun
  BY DEF SequenceInv, SequenceTypes
<1>1. /\ sender[p] = "loop" /\ enrolment[x] = "ACTIVE" /\ x \in fresh[p] /\ enrolment' = enrolment
      /\ held' = [held EXCEPT ![p] = x] /\ sender' = [sender EXCEPT ![p] = "claimed"]
      /\ at' = [at EXCEPT ![p] = stepIdx[x]] /\ plan' = plan /\ leased' = [leased EXCEPT ![x] = TRUE]
      /\ UNCHANGED <<lapses, mails, optedOut, lateMails, stepIdx, listVars>>
  BY DEF ClaimRow, Claimable
<1>2. /\ \A q \in Senders \ {p} : held'[q] = held[q] /\ sender'[q] = sender[q] /\ at'[q] = at[q] /\ plan'[q] = plan[q]
      /\ held[p] = NoRow /\ held'[p] = x /\ sender'[p] = "claimed" /\ at'[p] = stepIdx[x]
  BY <1>0, <1>1 DEF SenderTypes
<1>3. due[x] = 0
  BY <1>0, <1>1 DEF LeasesRun
<1>4. ~leased[x]
  BY <1>0, <1>3 DEF LeasesRun
<1>5. leased'[x] /\ (e # x => (leased'[e] <=> leased[e]))
  BY <1>0, <1>1 DEF FlagTypes
<1> QED
  BY <1>1, <1>2, <1>4, <1>5

\* An invocation that lets go, without writing the row.
LetsGo(p) ==
  /\ held'[p] = NoRow
  /\ \A q \in Senders \ {p} : held'[q] = held[q] /\ sender'[q] = sender[q] /\ at'[q] = at[q] /\ plan'[q] = plan[q]

\* An invocation that stops or goes on to its next row lets go of the one it held.
LEMMA StopLetsGo ==
  ASSUME SenderTypes, NEW p \in Senders, Stop(p) \/ NextRow(p)
  PROVE  LetsGo(p)
<1>1. CASE Stop(p)
  BY <1>1 DEF Stop, LetsGo, SenderTypes
<1>2. CASE NextRow(p)
  BY <1>2 DEF NextRow, LetsGo, SenderTypes
<1> QED
  BY <1>1, <1>2

\* What closing or advancing a row does to it: the one that does it lets go.
LEMMA WrittenBack ==
  ASSUME SequenceInv, NEW p \in Senders, NoStepLeft(p) \/ CannotBeSent(p) \/ Advance(p), NEW e \in Enrolments
  PROVE  /\ LetsGo(p) /\ held[p] \in Enrolments
         /\ UNCHANGED <<lapses, mails, optedOut, lateMails, listVars>>
         /\ enrolment'[e] = enrolment[e] \/ (e = held[p] /\ enrolment'[e] \in {"COMPLETED", "FAILED"})
         /\ e # held[p] => (leased'[e] <=> leased[e]) /\ stepIdx'[e] = stepIdx[e]
         /\ e = held[p] => \/ enrolment'[e] \in {"COMPLETED", "FAILED"}
                           \/ sender[p] = "sent" /\ stepIdx'[e] = at[p] + 1
<1>0. SenderTypes /\ EnrolmentRowTypes /\ FlagTypes
  BY DEF SequenceInv, SequenceTypes
<1>1. held[p] \in Enrolments
  BY DEF NoStepLeft, CannotBeSent, Advance, Existing
<1>2. NextRow(p) /\ UNCHANGED <<lapses, mails, optedOut, lateMails, listVars>>
  BY DEF NoStepLeft, CannotBeSent, Advance
<1>3. LetsGo(p)
  BY <1>0, <1>2, StopLetsGo
<1>4. leased' = [leased EXCEPT ![held[p]] = FALSE]
  BY DEF NoStepLeft, CannotBeSent, Advance, Close
<1>5. e # held[p] => (leased'[e] <=> leased[e])
  BY <1>0, <1>4 DEF FlagTypes
<1>6. \/ /\ enrolment' = [enrolment EXCEPT ![held[p]] = "COMPLETED"] \/ enrolment' = [enrolment EXCEPT ![held[p]] = "FAILED"]
         /\ \E k \in Nat : stepIdx' = [stepIdx EXCEPT ![held[p]] = k]
      \/ enrolment' = enrolment /\ sender[p] = "sent" /\ stepIdx' = [stepIdx EXCEPT ![held[p]] = at[p] + 1]
  <2>1. stepIdx[held[p]] \in Nat /\ at[p] + 1 \in Nat
    BY <1>0, <1>1 DEF EnrolmentRowTypes, SenderTypes
  <2> QED
    BY <2>1 DEF NoStepLeft, CannotBeSent, Advance, Close
<1> QED
  BY <1>0, <1>1, <1>2, <1>3, <1>5, <1>6 DEF EnrolmentRowTypes

-----------------------------------------------------------------------------
LEMMA IntervalSize ==
  ASSUME NEW a \in Int, NEW b \in Int, a <= b + 1
  PROVE  IsFiniteSet(a..b) /\ Cardinality(a..b) = b - a + 1
BY FS_Interval

\* The steps are numbered without gaps, so a listing has each at its number:
\* as many of the others come before it as there are smaller numbers.
LEMMA ListingNumbered ==
  ASSUME ListTypes, StepsNumbered, ~reordered, offered, NEW list \in Listings
  PROVE  \A j \in 1..Len(list) : position[list[j]] = j - 1
<1> DEFINE n == Cardinality(ExistingSteps)
<1> DEFINE f == [j \in 1..n |-> position[list[j]]]
<1>1. /\ n \in Nat /\ list \in [1..n -> ExistingSteps] /\ Len(list) = n
      /\ \A i, j \in 1..n : i # j => list[i] # list[j]
      /\ \A i, j \in 1..n : i < j => position[list[i]] <= position[list[j]]
  BY ListingIs
<1>2. /\ \A s, t \in ExistingSteps : position[s] = position[t] => s = t
      /\ \A s \in ExistingSteps : position[s] < n /\ position[s] \in Nat
  BY DEF StepsNumbered, ListTypes, ExistingSteps
<1> HIDE DEF n
<1>3. ASSUME NEW i \in 1..n PROVE f[i] \in 0..(n - 1) /\ f[i] = position[list[i]]
  <2>1. list[i] \in ExistingSteps
    BY <1>1
  <2> QED
    BY <1>1, <1>2, <2>1
<1>4. ASSUME NEW i \in 1..n, NEW j \in 1..n, i < j PROVE f[i] < f[j]
  <2>1. list[i] \in ExistingSteps /\ list[j] \in ExistingSteps /\ list[i] # list[j]
    BY <1>1, <1>4
  <2>2. f[i] # f[j] /\ f[i] <= f[j]
    BY <1>1, <1>2, <1>3, <1>4, <2>1
  <2> QED
    BY <1>1, <1>3, <2>2
<1> HIDE DEF f
<1>5. ASSUME NEW i \in 1..n PROVE f[i] = i - 1
  <2>1. i - 1 <= f[i]
    <3> DEFINE g == [j \in 1..(i - 1) |-> f[j]]
    <3>1. g \in [1..(i - 1) -> 0..(f[i] - 1)]
      <4>1. \A j \in 1..(i - 1) : f[j] \in 0..(f[i] - 1)
        BY <1>1, <1>3, <1>4
      <4> QED
        BY <4>1
    <3>2. \A a, b \in 1..(i - 1) : g[a] = g[b] => a = b
      <4>1. \A a, b \in 1..(i - 1) : a < b => f[a] < f[b] /\ f[a] \in Int /\ f[b] \in Int
        BY <1>1, <1>3, <1>4
      <4> QED
        BY <4>1
    <3>3. g \in Injection(1..(i - 1), 0..(f[i] - 1))
      BY <3>1, <3>2 DEF Injection, IsInjective
    <3>4. i - 1 \in Int /\ f[i] \in Int /\ f[i] - 1 \in Int /\ f[i] >= 0
      BY <1>1, <1>3
    <3>5. /\ Cardinality(1..(i - 1)) = (i - 1) - 1 + 1
          /\ IsFiniteSet(0..(f[i] - 1)) /\ Cardinality(0..(f[i] - 1)) = (f[i] - 1) - 0 + 1
      <4>1. n \in Int /\ i \in Int /\ i >= 1
        BY <1>1
      <4>2. 1 <= (i - 1) + 1 /\ 0 <= (f[i] - 1) + 1
        BY <3>4, <4>1
      <4>3. Cardinality(1..(i - 1)) = (i - 1) - 1 + 1
        BY <3>4, <4>2, IntervalSize
      <4>4. IsFiniteSet(0..(f[i] - 1)) /\ Cardinality(0..(f[i] - 1)) = (f[i] - 1) - 0 + 1
        <5>1. \A b \in Int : 0 <= b + 1 => IsFiniteSet(0..b) /\ Cardinality(0..b) = b - 0 + 1
          BY IntervalSize
        <5> QED
          BY <3>4, <4>2, <5>1
      <4> QED
        BY <4>3, <4>4
    <3>6. Cardinality(1..(i - 1)) <= Cardinality(0..(f[i] - 1))
      BY <3>3, <3>5, FS_Injection
    <3> QED
      BY <1>1, <1>3, <3>4, <3>5, <3>6
  <2>2. n - i <= n - 1 - f[i]
    <3> DEFINE g == [j \in (i + 1)..n |-> f[j]]
    <3>1. g \in [(i + 1)..n -> (f[i] + 1)..(n - 1)]
      <4>1. \A j \in (i + 1)..n : f[j] \in (f[i] + 1)..(n - 1)
        BY <1>1, <1>3, <1>4
      <4> QED
        BY <4>1
    <3>2. \A a, b \in (i + 1)..n : g[a] = g[b] => a = b
      <4>1. \A a, b \in (i + 1)..n : a < b => f[a] < f[b] /\ f[a] \in Int /\ f[b] \in Int
        BY <1>1, <1>3, <1>4
      <4> QED
        BY <4>1, <1>1
    <3>3. g \in Injection((i + 1)..n, (f[i] + 1)..(n - 1))
      BY <3>1, <3>2 DEF Injection, IsInjective
    <3>4. i + 1 \in Int /\ n \in Int /\ f[i] + 1 \in Int /\ n - 1 \in Int /\ f[i] <= n - 1 /\ i <= n
      BY <1>1, <1>3
    <3>5. /\ Cardinality((i + 1)..n) = n - (i + 1) + 1
          /\ IsFiniteSet((f[i] + 1)..(n - 1)) /\ Cardinality((f[i] + 1)..(n - 1)) = (n - 1) - (f[i] + 1) + 1
      <4>1. i + 1 <= n + 1 /\ f[i] + 1 <= (n - 1) + 1
        BY <1>1, <1>3, <3>4
      <4> QED
        BY <3>4, <4>1, IntervalSize
    <3>6. Cardinality((i + 1)..n) <= Cardinality((f[i] + 1)..(n - 1))
      BY <3>3, <3>5, FS_Injection
    <3> QED
      BY <1>1, <1>3, <3>4, <3>5, <3>6
  <2> QED
    BY <1>1, <1>3, <2>1, <2>2
<1> QED
  BY <1>1, <1>3, <1>5

\* An insert takes the next number; a delete may leave a gap, and is seen in reordered.
LEMMA StepsNumberedNext ==
  ASSUME SequenceInv, [SequenceNext]_sequenceVars
  PROVE  StepsNumbered'
<1>0. StepsNumbered /\ ListTypes
  BY DEF SequenceInv, SequenceTypes
<1>1. ASSUME UNCHANGED listVars PROVE StepsNumbered'
  BY <1>0, <1>1 DEF StepsNumbered, ExistingSteps, listVars
<1>2. ASSUME NEW s \in Steps, AddStep(s) PROVE StepsNumbered'
  <2>1. /\ position[s] = -1 /\ position' = [position EXCEPT ![s] = Cardinality(ExistingSteps)]
        /\ UNCHANGED <<offered, reordered>>
    BY <1>2 DEF AddStep, ExistingSteps
  <2>2. Cardinality(ExistingSteps) \in Nat /\ IsFiniteSet(ExistingSteps) /\ s \notin ExistingSteps
    BY <2>1, StepsCounted DEF ExistingSteps
  <2>3. \A t \in Steps : position'[t] = IF t = s THEN Cardinality(ExistingSteps) ELSE position[t]
    BY <1>0, <2>1 DEF ListTypes
  <2>4. ExistingSteps' = ExistingSteps \cup {s}
    BY <2>2, <2>3 DEF ExistingSteps
  <2>5. Cardinality(ExistingSteps') = Cardinality(ExistingSteps) + 1
    BY <2>2, <2>4, FS_AddElement
  <2>6. Cardinality(ExistingSteps)' = Cardinality(ExistingSteps) + 1
    BY <2>5
  <2> SUFFICES ASSUME ~reordered, offered
               PROVE  /\ \A t, u \in ExistingSteps' : position'[t] = position'[u] => t = u
                      /\ \A t \in ExistingSteps' : position'[t] < Cardinality(ExistingSteps)'
    BY <2>1 DEF StepsNumbered
  <2>7. /\ \A t, u \in ExistingSteps : position[t] = position[u] => t = u
        /\ \A t \in ExistingSteps : position[t] < Cardinality(ExistingSteps) /\ t \in Steps /\ position[t] \in Int
    BY <1>0 DEF StepsNumbered, ExistingSteps, ListTypes
  <2> QED
    BY <2>2, <2>3, <2>4, <2>6, <2>7
<1>3. ASSUME NEW s \in Steps, DeleteStep(s) PROVE StepsNumbered'
  BY <1>3 DEF DeleteStep, StepsNumbered
<1>4. ASSUME DeleteSequence PROVE StepsNumbered'
  BY <1>4 DEF DeleteSequence, StepsNumbered
<1>5. ASSUME NEW p \in Senders,
             \/ ReadDue(p) \/ SenderStep(p) \/ SenderDies(p) \/ \E leads \in SUBSET SequenceLeads : StartEnrol(p, leads)
      PROVE  UNCHANGED listVars
  BY <1>5 DEF ReadDue, SenderStep, ClaimRow, ClaimedByAnother, BatchDone, NoStepLeft, CannotBeSent, SendStep,
     Advance, RowVanished, CreateEnrolments, SenderDies, StartEnrol, Dies
<1>6. ASSUME SequenceTick \/ (\E e \in Enrolments : UnenrollLead(e)) \/ (\E l \in SequenceLeads : Unsubscribe(l))
      PROVE  UNCHANGED listVars
  BY <1>6 DEF SequenceTick, UnenrollLead, Unsubscribe
<1>7. UNCHANGED sequenceVars => UNCHANGED listVars
  BY DEF sequenceVars
<1> QED
  BY <1>1, <1>2, <1>3, <1>4, <1>5, <1>6, <1>7 DEF SequenceNext

\* A plan is listed when the steps are numbered, and a number does not change.
LEMMA PlansAgreeNext ==
  ASSUME SequenceInv, SenderTypes', [SequenceNext]_sequenceVars
  PROVE  PlansAgree'
<1>0. PlansAgree /\ StepsNumbered /\ ListTypes /\ SenderTypes
  BY DEF SequenceInv, SequenceTypes
<1>1. ASSUME UNCHANGED listVars, \A q \in Senders : plan'[q] = plan[q] \/ plan'[q] = <<>> PROVE PlansAgree'
  <2> SUFFICES ASSUME ~reordered, offered, NEW q \in Senders, NEW j \in 1..Len(plan'[q])
               PROVE  position[plan'[q][j]] = j - 1
    BY <1>1 DEF PlansAgree, listVars
  <2>1. plan'[q] = plan[q]
    BY <1>1
  <2> QED
    BY <1>0, <2>1 DEF PlansAgree
<1>2. ASSUME NEW s \in Steps, AddStep(s) PROVE PlansAgree'
  <2>1. /\ position[s] = -1 /\ UNCHANGED <<offered, reordered, plan>>
        /\ \A t \in Steps : t # s => position'[t] = position[t]
    BY <1>0, <1>2 DEF AddStep, senderVars, ListTypes
  <2> SUFFICES ASSUME ~reordered, offered, NEW q \in Senders, NEW j \in 1..Len(plan[q])
               PROVE  position'[plan[q][j]] = j - 1
    BY <2>1 DEF PlansAgree
  <2>2. position[plan[q][j]] = j - 1 /\ plan[q][j] \in Steps /\ j - 1 # -1
    BY <1>0 DEF PlansAgree, SenderTypes
  <2> QED
    BY <2>1, <2>2
<1>3. ASSUME NEW s \in Steps, DeleteStep(s) PROVE PlansAgree'
  BY <1>3 DEF DeleteStep, PlansAgree
<1>4. ASSUME DeleteSequence PROVE PlansAgree'
  BY <1>4 DEF DeleteSequence, PlansAgree
<1>5. ASSUME NEW p \in Senders, ReadDue(p) PROVE PlansAgree'
  <2>1. PICK list \in Listings : plan' = [plan EXCEPT ![p] = list]
    BY <1>5 DEF ReadDue
  <2>2. UNCHANGED <<position, offered, reordered>>
    BY <1>5 DEF ReadDue, listVars
  <2> SUFFICES ASSUME ~reordered, offered, NEW q \in Senders, NEW j \in 1..Len(plan'[q])
               PROVE  position[plan'[q][j]] = j - 1
    BY <2>2 DEF PlansAgree
  <2>3. CASE q = p
    <3>1. plan'[q] = list
      BY <1>0, <2>1, <2>3 DEF SenderTypes
    <3> QED
      BY <1>0, <3>1, ListingNumbered
  <2>4. CASE q # p
    BY <1>0, <2>1, <2>4 DEF SenderTypes, PlansAgree
  <2> QED
    BY <2>3, <2>4
<1>6. ASSUME NEW p \in Senders, SenderStep(p) \/ SenderDies(p) \/ \E leads \in SUBSET SequenceLeads : StartEnrol(p, leads)
      PROVE  UNCHANGED listVars /\ \A q \in Senders : plan'[q] = plan[q] \/ plan'[q] = <<>>
  <2>1. UNCHANGED listVars /\ (plan' = plan \/ plan' = [plan EXCEPT ![p] = <<>>])
    BY <1>6 DEF SenderStep, ClaimRow, ClaimedByAnother, BatchDone, NoStepLeft, CannotBeSent, SendStep,
       Advance, RowVanished, CreateEnrolments, SenderDies, StartEnrol, Dies, NextRow, Stop
  <2> QED
    BY <1>0, <2>1 DEF SenderTypes
<1>7. ASSUME \/ SequenceTick \/ (\E e \in Enrolments : UnenrollLead(e)) \/ (\E l \in SequenceLeads : Unsubscribe(l))
             \/ UNCHANGED sequenceVars
      PROVE  UNCHANGED listVars /\ plan' = plan
  BY <1>7 DEF SequenceTick, UnenrollLead, Unsubscribe, sequenceVars, senderVars
<1> QED
  BY <1>1, <1>2, <1>3, <1>4, <1>5, <1>6, <1>7 DEF SequenceNext

-----------------------------------------------------------------------------
\* A step concerns a row when it claims it, writes it back, mails it, or lets
\* its lease run out; any other leaves it and its holders as they were, or
\* takes them away.
QuietFor(e) ==
  /\ \A q \in Senders : held'[q] = e =>
       held[q] = e /\ at'[q] = at[q] /\ plan'[q] = plan[q] /\ sender'[q] = sender[q]
  /\ enrolment'[e] \in {"none", "ACTIVE"} => enrolment[e] \in {"none", "ACTIVE"}
  /\ leased'[e] <=> leased[e]
  /\ lapses'[e] = lapses[e] /\ mails'[e] = mails[e] /\ lateMails'[e] = lateMails[e] /\ stepIdx'[e] = stepIdx[e]

\* What concerns a row in the hand of an invocation.
WritesBack(p, e) == held[p] = e /\ (NoStepLeft(p) \/ CannotBeSent(p) \/ Advance(p))
Mails(p, e) == held[p] = e /\ SendStep(p)

\* What a send does: one mail at most, of one step of one row.
LEMMA SendStepEffect ==
  ASSUME SenderTypes, MailCounts, NEW p \in Senders, SendStep(p), NEW e \in Enrolments
  PROVE  /\ sender[p] = "claimed" /\ held[p] \in Enrolments /\ at[p] < Len(plan[p]) /\ plan[p][at[p] + 1] \in Steps
         /\ sender'[p] = "sent" /\ \A q \in Senders \ {p} : sender'[q] = sender[q]
         /\ UNCHANGED <<held, at, plan, enrolment, stepIdx, leased, lapses, optedOut, listVars>>
         /\ e # held[p] => mails'[e] = mails[e] /\ lateMails'[e] = lateMails[e]
         /\ e = held[p] =>
              /\ \A s \in Steps : s # plan[p][at[p] + 1] => mails'[e][s] = mails[e][s]
              /\ LET s == plan[p][at[p] + 1] IN mails'[e][s] = mails[e][s] \/ mails'[e][s] = mails[e][s] + 1
              /\ lateMails'[e] = lateMails[e] \/ (optedOut[e] /\ lateMails'[e] = lateMails[e] + 1)
<1> DEFINE h == held[p]
<1> DEFINE t == plan[p][at[p] + 1]
<1>1. /\ sender[p] = "claimed" /\ at[p] < Len(plan[p]) /\ sender' = [sender EXCEPT ![p] = "sent"]
      /\ UNCHANGED <<held, at, plan, enrolment, stepIdx, leased, lapses, optedOut, listVars>>
  BY DEF SendStep
<1>2. h \in Enrolments /\ t \in Steps
  BY <1>1, SequenceConstants DEF SenderTypes
<1>3. sender'[p] = "sent" /\ \A q \in Senders \ {p} : sender'[q] = sender[q]
  BY <1>1 DEF SenderTypes
<1>4. \/ mails' = [mails EXCEPT ![h][t] = @ + 1] /\ lateMails' = [lateMails EXCEPT ![h] = IF optedOut[h] THEN @ + 1 ELSE @]
      \/ mails' = mails /\ lateMails' = lateMails
  BY DEF SendStep
<1> HIDE DEF h, t
<1>5. e # h => mails'[e] = mails[e] /\ lateMails'[e] = lateMails[e]
  BY <1>2, <1>4 DEF MailCounts
<1>6. e = h => /\ \A s \in Steps : s # t => mails'[e][s] = mails[e][s]
               /\ mails'[e][t] = mails[e][t] \/ mails'[e][t] = mails[e][t] + 1
  BY <1>2, <1>4 DEF MailCounts
<1>7. e = h => lateMails'[e] = lateMails[e] \/ (optedOut[e] /\ lateMails'[e] = lateMails[e] + 1)
  BY <1>2, <1>4 DEF MailCounts
<1> QED
  BY <1>1, <1>2, <1>3, <1>5, <1>6, <1>7 DEF h, t

\* Every other step leaves the accounts of the row as they are, or lets go of it.
LEMMA QuietUnlessConcerned ==
  ASSUME SequenceInv, [SequenceNext]_sequenceVars, NEW e \in Enrolments
  PROVE  \/ QuietFor(e) \/ SequenceTick
         \/ \E p \in Senders : ClaimRow(p, e) \/ WritesBack(p, e) \/ Mails(p, e)
<1>0. SenderTypes /\ EnrolmentRowTypes /\ FlagTypes /\ MailCounts /\ NoRow \notin Enrolments
  BY SequenceConstants DEF SequenceInv, SequenceTypes
<1>1. ASSUME NEW p \in Senders, NEW x \in Enrolments, ClaimRow(p, x), x # e PROVE QuietFor(e)
  <2>1. /\ \A q \in Senders \ {p} : held'[q] = held[q] /\ sender'[q] = sender[q] /\ at'[q] = at[q] /\ plan'[q] = plan[q]
        /\ held'[p] = x /\ enrolment' = enrolment /\ (leased'[e] <=> leased[e])
        /\ UNCHANGED <<lapses, mails, lateMails, stepIdx>>
    BY <1>1, ClaimHolds
  <2> QED
    BY <1>1, <2>1 DEF QuietFor
<1>2. ASSUME NEW p \in Senders, NoStepLeft(p) \/ CannotBeSent(p) \/ Advance(p), held[p] # e PROVE QuietFor(e)
  BY <1>0, <1>2, WrittenBack DEF QuietFor, LetsGo
<1>3. ASSUME NEW p \in Senders, SendStep(p), held[p] # e PROVE QuietFor(e)
  BY <1>0, <1>3, SendStepEffect DEF QuietFor
<1>4. ASSUME NEW p \in Senders, LetsGo(p), UNCHANGED <<enrolment, stepIdx, leased, lapses, mails, lateMails>>
      PROVE  QuietFor(e)
  BY <1>0, <1>4 DEF QuietFor, LetsGo
<1>5. ASSUME NEW p \in Senders, BatchDone(p) \/ RowVanished(p) \/ SenderDies(p) PROVE QuietFor(e)
  <2>1. Stop(p) /\ UNCHANGED <<enrolment, stepIdx, leased, lapses, mails, lateMails>>
    BY <1>5 DEF BatchDone, RowVanished, SenderDies, Dies, enrolmentVars
  <2> QED
    BY <1>0, <1>4, <2>1, StopLetsGo
<1>6. ASSUME NEW p \in Senders, CreateEnrolments(p) PROVE QuietFor(e)
  <2>1. Stop(p) /\ UNCHANGED <<stepIdx, leased, lapses, mails, lateMails>>
    BY <1>6 DEF CreateEnrolments
  <2>2. enrolment'[e] = enrolment[e] \/ enrolment[e] = "none"
    BY <1>6 DEF CreateEnrolments
  <2>3. LetsGo(p)
    BY <1>0, <2>1, StopLetsGo
  <2> QED
    BY <1>0, <2>1, <2>2, <2>3 DEF QuietFor, LetsGo
<1>7. ASSUME NEW p \in Senders,
             \/ ReadDue(p) \/ (\E x \in Enrolments : ClaimedByAnother(p, x))
             \/ \E leads \in SUBSET SequenceLeads : StartEnrol(p, leads)
      PROVE  QuietFor(e)
  <2>1. /\ sender[p] \in {"idle", "loop"} /\ UNCHANGED <<held, at, enrolment, stepIdx, leased, lapses, mails, lateMails>>
        /\ sender' = sender \/ \E x \in SenderLabels : sender' = [sender EXCEPT ![p] = x]
        /\ plan' = plan \/ \E x \in Listings : plan' = [plan EXCEPT ![p] = x]
    BY <1>7 DEF ReadDue, ClaimedByAnother, StartEnrol, enrolmentVars, SenderLabels
  <2>2. held[p] # e
    BY <1>0, <2>1 DEF SenderTypes
  <2>3. \A q \in Senders \ {p} : sender'[q] = sender[q] /\ plan'[q] = plan[q]
    BY <1>0, <2>1 DEF SenderTypes
  <2> QED
    BY <2>1, <2>2, <2>3 DEF QuietFor
<1>8. ASSUME UNCHANGED <<senderVars, stepIdx, leased, lapses, mails, lateMails>>,
             enrolment'[e] \in {"none", "ACTIVE"} => enrolment[e] \in {"none", "ACTIVE"}
      PROVE  QuietFor(e)
  BY <1>8 DEF QuietFor, senderVars
<1>9. ASSUME \/ \E x \in Enrolments : UnenrollLead(x)
             \/ \E l \in SequenceLeads : Unsubscribe(l)
             \/ \E s \in Steps : AddStep(s) \/ DeleteStep(s)
             \/ DeleteSequence
             \/ UNCHANGED sequenceVars
      PROVE  QuietFor(e)
  <2>1. UNCHANGED <<senderVars, stepIdx, leased, lapses, mails, lateMails>>
    BY <1>9 DEF UnenrollLead, Unsubscribe, AddStep, DeleteStep, DeleteSequence, sequenceVars, enrolmentVars
  <2>2. enrolment'[e] \in {"none", "ACTIVE"} => enrolment[e] \in {"none", "ACTIVE"}
    BY <1>0, <1>9 DEF UnenrollLead, Unsubscribe, AddStep, DeleteStep, DeleteSequence, sequenceVars,
       enrolmentVars, EnrolmentRowTypes
  <2> QED
    BY <1>8, <2>1, <2>2
<1> QED
  BY <1>1, <1>2, <1>3, <1>5, <1>6, <1>7, <1>9 DEF SequenceNext, SenderStep, WritesBack, Mails

\* Time passes: a lease that lapses is counted.
LEMMA TickEffect ==
  ASSUME SequenceTick, EnrolmentRowTypes, NEW e \in Enrolments
  PROVE  /\ UNCHANGED <<senderVars, listVars, enrolment, stepIdx, mails, optedOut, lateMails>>
         /\ \/ lapses'[e] = lapses[e] + 1
            \/ lapses'[e] = lapses[e] /\ (leased'[e] <=> leased[e])
BY DEF SequenceTick, EnrolmentRowTypes

LEMMA OpenIs == ASSUME NEW e PROVE Open(e) \in {0, 1} /\ Open(e)' \in {0, 1}
BY DEF Open

\* A second holder needs a lapse.
LEMMA ClaimsPaidNext ==
  ASSUME SequenceInv, SequenceTypes', [SequenceNext]_sequenceVars
  PROVE  ClaimsPaid'
<1> SUFFICES ASSUME NEW e \in Enrolments
             PROVE  Cardinality(Holders(e)') + Open(e)' <= 1 + lapses'[e]
  BY DEF ClaimsPaid
<1>0. /\ SenderTypes /\ EnrolmentRowTypes /\ FlagTypes /\ MailCounts
      /\ Cardinality(Holders(e)) + Open(e) <= 1 + lapses[e] /\ lapses[e] \in Nat /\ lapses'[e] \in Nat
  BY DEF SequenceInv, SequenceTypes, ClaimsPaid, EnrolmentRowTypes
<1>1. /\ Holders(e) \in SUBSET Senders /\ Holders(e)' \in SUBSET Senders
      /\ Cardinality(Holders(e)) \in Nat /\ Cardinality(Holders(e)') \in Nat /\ IsFiniteSet(Senders)
  BY SendersCounted, SequenceConstants DEF Holders
<1>2. Open(e) \in {0, 1} /\ Open(e)' \in {0, 1}
  BY OpenIs
<1>3. CASE QuietFor(e)
  <2>1. Holders(e)' \in SUBSET Holders(e) /\ Open(e)' <= Open(e) /\ lapses'[e] = lapses[e]
    BY <1>3 DEF QuietFor, Holders, Open
  <2>2. Cardinality(Holders(e)') <= Cardinality(Holders(e))
    BY <1>1, <2>1, NoMore
  <2> QED
    BY <1>0, <1>1, <1>2, <2>1, <2>2
<1>4. ASSUME NEW p \in Senders, ClaimRow(p, e) PROVE Cardinality(Holders(e)') + Open(e)' <= 1 + lapses'[e]
  <2>1. /\ \A q \in Senders \ {p} : held'[q] = held[q]
        /\ enrolment[e] = "ACTIVE" /\ ~leased[e] /\ leased'[e] /\ lapses' = lapses
    BY <1>4, ClaimHolds
  <2>2. Holders(e)' \in SUBSET (Holders(e) \cup {p}) /\ Open(e) = 1 /\ Open(e)' = 0
    BY <2>1 DEF Holders, Open
  <2>3. Cardinality(Holders(e)') <= Cardinality(Holders(e)) + 1
    BY <1>1, <2>2, OneMore
  <2> QED
    BY <1>0, <1>1, <2>1, <2>2, <2>3
<1>5. ASSUME NEW p \in Senders, WritesBack(p, e) PROVE Cardinality(Holders(e)') + Open(e)' <= 1 + lapses'[e]
  <2>1. LetsGo(p) /\ lapses' = lapses /\ p \in Holders(e) /\ NoRow # e
    BY <1>5, WrittenBack, SequenceConstants DEF WritesBack, Holders
  <2>2. Holders(e)' \in SUBSET (Holders(e) \ {p})
    BY <2>1 DEF LetsGo, Holders
  <2>3. Cardinality(Holders(e)') + 1 <= Cardinality(Holders(e))
    BY <1>1, <2>1, <2>2, OneLess
  <2> QED
    BY <1>0, <1>1, <1>2, <2>1, <2>3
<1>6. ASSUME NEW p \in Senders, Mails(p, e) PROVE Cardinality(Holders(e)') + Open(e)' <= 1 + lapses'[e]
  <2>1. UNCHANGED <<held, enrolment, leased, lapses>>
    BY <1>0, <1>6, SendStepEffect DEF Mails
  <2>2. Holders(e)' = Holders(e) /\ Open(e)' = Open(e)
    BY <2>1 DEF Holders, Open
  <2> QED
    BY <1>0, <2>1, <2>2
<1>7. CASE SequenceTick
  <2>1. /\ held' = held /\ enrolment' = enrolment
        /\ lapses'[e] = lapses[e] + 1 \/ (lapses'[e] = lapses[e] /\ (leased'[e] <=> leased[e]))
    BY <1>0, <1>7, TickEffect DEF senderVars
  <2>2. Holders(e)' = Holders(e) /\ ((leased'[e] <=> leased[e]) => Open(e)' = Open(e))
    BY <2>1 DEF Holders, Open
  <2> QED
    BY <1>0, <1>1, <1>2, <2>1, <2>2
<1> QED
  BY <1>3, <1>4, <1>5, <1>6, <1>7, QuietUnlessConcerned

\* Who opted out is out of the queue, and only then is a mail late.
LateFlags ==
  \A e \in Enrolments :
    /\ ~optedOut[e] => lateMails[e] = 0
    /\ optedOut[e] => enrolment[e] \notin {"none", "ACTIVE"}

\* An opted-out row is never active again.
LEMMA LateFlagsNext ==
  ASSUME SequenceInv, SequenceTypes', [SequenceNext]_sequenceVars
  PROVE  LateFlags'
<1>0. EnrolmentRowTypes /\ FlagTypes /\ MailCounts /\ SenderTypes /\ LateFlags
  BY DEF SequenceInv, SequenceTypes, LatePaid, LateFlags
<1>1. ASSUME UNCHANGED optedOut, NEW e \in Enrolments,
             lateMails'[e] = lateMails[e] \/ optedOut[e],
             enrolment'[e] \in {"none", "ACTIVE"} => enrolment[e] \in {"none", "ACTIVE"}
      PROVE  (~optedOut'[e] => lateMails'[e] = 0) /\ (optedOut'[e] => enrolment'[e] \notin {"none", "ACTIVE"})
  BY <1>0, <1>1 DEF LateFlags
<1>2. ASSUME NEW p \in Senders, SendStep(p), NEW e \in Enrolments
      PROVE  /\ UNCHANGED optedOut
             /\ lateMails'[e] = lateMails[e] \/ optedOut[e]
             /\ enrolment'[e] \in {"none", "ACTIVE"} => enrolment[e] \in {"none", "ACTIVE"}
  BY <1>0, <1>2, SendStepEffect
<1>3. ASSUME NEW p \in Senders, NoStepLeft(p) \/ CannotBeSent(p) \/ Advance(p), NEW e \in Enrolments
      PROVE  /\ UNCHANGED optedOut
             /\ lateMails'[e] = lateMails[e] \/ optedOut[e]
             /\ enrolment'[e] \in {"none", "ACTIVE"} => enrolment[e] \in {"none", "ACTIVE"}
  BY <1>3, WrittenBack
<1>4. ASSUME NEW p \in Senders, CreateEnrolments(p), NEW e \in Enrolments
      PROVE  /\ UNCHANGED optedOut
             /\ lateMails'[e] = lateMails[e] \/ optedOut[e]
             /\ enrolment'[e] \in {"none", "ACTIVE"} => enrolment[e] \in {"none", "ACTIVE"}
  BY <1>4 DEF CreateEnrolments
<1>5. ASSUME NEW p \in Senders, NEW e \in Enrolments,
             \/ ReadDue(p) \/ (\E x \in Enrolments : ClaimRow(p, x) \/ ClaimedByAnother(p, x))
             \/ BatchDone(p) \/ RowVanished(p) \/ SenderDies(p)
             \/ \E leads \in SUBSET SequenceLeads : StartEnrol(p, leads)
      PROVE  UNCHANGED <<optedOut, lateMails, enrolment>>
  BY <1>5 DEF ReadDue, ClaimRow, ClaimedByAnother, BatchDone, RowVanished, SenderDies, Dies, StartEnrol,
     enrolmentVars
<1>6. ASSUME \/ \E s \in Steps : AddStep(s) \/ DeleteStep(s)
             \/ SequenceTick \/ UNCHANGED sequenceVars
      PROVE  UNCHANGED <<optedOut, lateMails, enrolment>>
  BY <1>6 DEF AddStep, DeleteStep, SequenceTick, sequenceVars, enrolmentVars
<1>7. ASSUME DeleteSequence, NEW e \in Enrolments
      PROVE  /\ UNCHANGED optedOut
             /\ lateMails'[e] = lateMails[e] \/ optedOut[e]
             /\ enrolment'[e] \in {"none", "ACTIVE"} => enrolment[e] \in {"none", "ACTIVE"}
  BY <1>7 DEF DeleteSequence
<1>8. ASSUME NEW x \in Enrolments, UnenrollLead(x) PROVE LateFlags'
  BY <1>0, <1>8 DEF UnenrollLead, LateFlags, EnrolmentRowTypes, FlagTypes
<1>9. ASSUME NEW l \in SequenceLeads, Unsubscribe(l) PROVE LateFlags'
  <2> DEFINE stopped == {e \in Enrolments : LeadOf[e] = l /\ enrolment[e] = "ACTIVE"}
  <2>1. /\ enrolment' = [e \in Enrolments |-> IF e \in stopped THEN "UNSUBSCRIBED" ELSE enrolment[e]]
        /\ optedOut' = [e \in Enrolments |-> optedOut[e] \/ e \in stopped] /\ lateMails' = lateMails
    BY <1>9 DEF Unsubscribe
  <2> HIDE DEF stopped
  <2> QED
    BY <1>0, <2>1 DEF LateFlags
<1>10. (\A e \in Enrolments : (~optedOut'[e] => lateMails'[e] = 0) /\ (optedOut'[e] => enrolment'[e] \notin {"none", "ACTIVE"}))
         => LateFlags'
  BY DEF LateFlags
<1>11. (\A e \in Enrolments :
          /\ UNCHANGED optedOut
          /\ lateMails'[e] = lateMails[e] \/ optedOut[e]
          /\ enrolment'[e] \in {"none", "ACTIVE"} => enrolment[e] \in {"none", "ACTIVE"}) => LateFlags'
  BY <1>1, <1>10
<1>12. UNCHANGED <<optedOut, lateMails, enrolment>> => LateFlags'
  BY <1>0 DEF LateFlags
<1> QED
  BY <1>2, <1>3, <1>4, <1>5, <1>6, <1>7, <1>8, <1>9, <1>11, <1>12 DEF SequenceNext, SenderStep

\* A late mail was claimed before, or needs a lapse.
LEMMA LatePaidNext ==
  ASSUME SequenceInv, SequenceTypes', [SequenceNext]_sequenceVars
  PROVE  LatePaid'
<1> SUFFICES ASSUME NEW e \in Enrolments
             PROVE  lateMails'[e] + Cardinality(Sending(e)') <= 1 + lapses'[e]
  BY LateFlagsNext DEF LatePaid, LateFlags
<1>0. /\ SenderTypes /\ EnrolmentRowTypes /\ FlagTypes /\ MailCounts /\ lateMails[e] \in Nat /\ lateMails'[e] \in Nat
      /\ lateMails[e] + Cardinality(Sending(e)) <= 1 + lapses[e] /\ lapses[e] \in Nat /\ lapses'[e] \in Nat
      /\ ~optedOut[e] => lateMails[e] = 0
      /\ optedOut[e] => enrolment[e] \notin {"none", "ACTIVE"}
  BY DEF SequenceInv, SequenceTypes, LatePaid, EnrolmentRowTypes, MailCounts
<1>1. /\ Sending(e) \in SUBSET Senders /\ Sending(e)' \in SUBSET Senders
      /\ Cardinality(Sending(e)) \in Nat /\ Cardinality(Sending(e)') \in Nat /\ IsFiniteSet(Senders)
      /\ Holders(e) \in SUBSET Senders /\ Holders(e)' \in SUBSET Senders
      /\ Cardinality(Holders(e)) \in Nat /\ Cardinality(Holders(e)') \in Nat
  BY SendersCounted, SequenceConstants DEF Holders, Sending
<1>2. ASSUME Sending(e)' \in SUBSET Sending(e), lateMails'[e] = lateMails[e], lapses'[e] >= lapses[e]
      PROVE  lateMails'[e] + Cardinality(Sending(e)') <= 1 + lapses'[e]
  <2>1. Cardinality(Sending(e)') <= Cardinality(Sending(e))
    BY <1>1, <1>2, NoMore
  <2> QED
    BY <1>0, <1>1, <1>2, <2>1
<1>3. CASE QuietFor(e)
  <2>1. Sending(e)' \in SUBSET Sending(e) /\ lateMails'[e] = lateMails[e] /\ lapses'[e] = lapses[e]
    BY <1>3 DEF QuietFor, Sending, Holders
  <2> QED
    BY <1>0, <1>2, <2>1
<1>4. ASSUME NEW p \in Senders, ClaimRow(p, e) PROVE lateMails'[e] + Cardinality(Sending(e)') <= 1 + lapses'[e]
  <2>1. enrolment[e] = "ACTIVE" /\ lateMails' = lateMails
    BY <1>4, ClaimHolds
  <2>2. lateMails'[e] = 0
    BY <1>0, <2>1
  <2>3. Cardinality(Sending(e)') <= Cardinality(Holders(e)')
    <3>1. Sending(e)' \in SUBSET Holders(e)'
      BY DEF Sending
    <3> QED
      BY <1>1, <3>1, NoMore
  <2>4. Cardinality(Holders(e)') + Open(e)' <= 1 + lapses'[e] /\ Open(e)' \in {0, 1}
    BY ClaimsPaidNext, OpenIs DEF ClaimsPaid
  <2> QED
    BY <1>0, <1>1, <2>2, <2>3, <2>4
<1>5. ASSUME NEW p \in Senders, WritesBack(p, e) PROVE lateMails'[e] + Cardinality(Sending(e)') <= 1 + lapses'[e]
  <2>1. LetsGo(p) /\ lapses' = lapses /\ lateMails' = lateMails /\ NoRow # e
    BY <1>5, WrittenBack, SequenceConstants DEF WritesBack
  <2>2. Sending(e)' \in SUBSET Sending(e)
    BY <2>1 DEF LetsGo, Holders, Sending
  <2> QED
    BY <1>0, <1>2, <2>1, <2>2
<1>6. ASSUME NEW p \in Senders, Mails(p, e) PROVE lateMails'[e] + Cardinality(Sending(e)') <= 1 + lapses'[e]
  <2>1. /\ sender[p] = "claimed" /\ sender'[p] = "sent" /\ \A q \in Senders \ {p} : sender'[q] = sender[q]
        /\ held' = held /\ lapses' = lapses /\ held[p] = e
        /\ lateMails'[e] = lateMails[e] \/ lateMails'[e] = lateMails[e] + 1
    BY <1>0, <1>6, SendStepEffect DEF Mails
  <2>2. p \in Sending(e) /\ Sending(e)' \in SUBSET (Sending(e) \ {p})
    BY <2>1 DEF Sending, Holders
  <2>3. Cardinality(Sending(e)') + 1 <= Cardinality(Sending(e))
    BY <1>1, <2>2, OneLess
  <2> QED
    BY <1>0, <1>1, <2>1, <2>3
<1>7. CASE SequenceTick
  <2>1. /\ held' = held /\ sender' = sender /\ lateMails' = lateMails
        /\ lapses'[e] = lapses[e] + 1 \/ lapses'[e] = lapses[e]
    BY <1>0, <1>7, TickEffect DEF senderVars
  <2>2. Sending(e)' \in SUBSET Sending(e)
    BY <2>1 DEF Sending, Holders
  <2> QED
    BY <1>0, <1>2, <2>1, <2>2
<1> QED
  BY <1>3, <1>4, <1>5, <1>6, <1>7, QuietUnlessConcerned

-----------------------------------------------------------------------------
\* Until a step is deleted, a step that an index has passed stays passed.
LEMMA PassedStays ==
  ASSUME SequenceInv, [SequenceNext]_sequenceVars
  PROVE  /\ ~reordered' => ~reordered
         /\ offered' => offered
         /\ ~reordered' /\ offered' => \A s \in Steps : position'[s] = position[s] \/ position[s] = -1
<1>0. ListTypes
  BY DEF SequenceInv, SequenceTypes
<1>1. ASSUME UNCHANGED listVars
      PROVE  UNCHANGED <<reordered, offered>> /\ \A s \in Steps : position'[s] = position[s]
  BY <1>1 DEF listVars
<1>2. ASSUME NEW s \in Steps, AddStep(s)
      PROVE  UNCHANGED <<reordered, offered>> /\ \A t \in Steps : position'[t] = position[t] \/ position[t] = -1
  BY <1>0, <1>2 DEF AddStep, ListTypes
<1>3. ASSUME NEW s \in Steps, DeleteStep(s) PROVE reordered' /\ offered' = offered
  BY <1>3 DEF DeleteStep
<1>4. ASSUME DeleteSequence PROVE ~offered' /\ offered /\ reordered' = reordered
  BY <1>4 DEF DeleteSequence
<1>5. ASSUME NEW p \in Senders,
             \/ ReadDue(p) \/ SenderStep(p) \/ SenderDies(p) \/ \E leads \in SUBSET SequenceLeads : StartEnrol(p, leads)
      PROVE  UNCHANGED listVars
  BY <1>5 DEF ReadDue, SenderStep, ClaimRow, ClaimedByAnother, BatchDone, NoStepLeft, CannotBeSent, SendStep,
     Advance, RowVanished, CreateEnrolments, SenderDies, StartEnrol, Dies
<1>6. ASSUME \/ SequenceTick \/ (\E e \in Enrolments : UnenrollLead(e)) \/ (\E l \in SequenceLeads : Unsubscribe(l))
             \/ UNCHANGED sequenceVars
      PROVE  UNCHANGED listVars
  BY <1>6 DEF SequenceTick, UnenrollLead, Unsubscribe, sequenceVars
<1> QED
  BY <1>1, <1>2, <1>3, <1>4, <1>5, <1>6 DEF SequenceNext

LEMMA AheadIsCounted ==
  ASSUME NEW e, NEW s
  PROVE  /\ Ahead(e, s) \in SUBSET Senders /\ Cardinality(Ahead(e, s)) \in Nat
         /\ Ahead(e, s)' \in SUBSET Senders /\ Cardinality(Ahead(e, s)') \in Nat
         /\ Room(e, s) \in {0, 1} /\ Room(e, s)' \in {0, 1} /\ IsFiniteSet(Senders)
BY SendersCounted, SequenceConstants DEF Ahead, Holders, Room

\* While the sequence exists: a claim takes the room of the row, a send takes its step, and
\* an advance gives back the room of the steps still to come.
LEMMA RepeatsPaidNext ==
  ASSUME SequenceInv, SequenceTypes', [SequenceNext]_sequenceVars
  PROVE  RepeatsPaid'
<1> SUFFICES ASSUME ~reordered', offered', NEW e \in Enrolments, NEW s \in Steps
             PROVE  mails'[e][s] + Cardinality(Ahead(e, s)') + Room(e, s)' <= 1 + lapses'[e]
  BY DEF RepeatsPaid
<1> DEFINE Goal == mails'[e][s] + Cardinality(Ahead(e, s)') + Room(e, s)' <= 1 + lapses'[e]
<1>0. /\ SenderTypes /\ EnrolmentRowTypes /\ FlagTypes /\ MailCounts /\ ListTypes /\ SenderTypes'
      /\ ~reordered /\ offered /\ PlansAgree
      /\ mails[e][s] \in Nat /\ mails'[e][s] \in Nat /\ lapses[e] \in Nat /\ lapses'[e] \in Nat
      /\ mails[e][s] + Cardinality(Ahead(e, s)) + Room(e, s) <= 1 + lapses[e]
  <2>1. ~reordered /\ offered
    BY PassedStays
  <2> QED
    BY <2>1 DEF SequenceInv, SequenceTypes, RepeatsPaid, EnrolmentRowTypes, MailCounts
<1>1. /\ Ahead(e, s) \in SUBSET Senders /\ Cardinality(Ahead(e, s)) \in Nat
      /\ Ahead(e, s)' \in SUBSET Senders /\ Cardinality(Ahead(e, s)') \in Nat
      /\ Room(e, s) \in {0, 1} /\ Room(e, s)' \in {0, 1} /\ IsFiniteSet(Senders)
  BY AheadIsCounted
<1>2. position'[s] = position[s] \/ position[s] = -1
  BY PassedStays
<1>3. CASE QuietFor(e)
  <2>1. ASSUME NEW q \in Ahead(e, s)' PROVE q \in Ahead(e, s)
    <3>1. q \in Senders /\ held'[q] = e /\ ~Passed(s, Reach(q))'
      BY <2>1 DEF Ahead, Holders
    <3>2. held[q] = e /\ Reach(q)' = Reach(q)
      BY <1>3, <3>1 DEF QuietFor, Reach
    <3>3. ~Passed(s, Reach(q))
      BY <1>2, <3>1, <3>2 DEF Passed
    <3> QED
      BY <3>1, <3>2, <3>3 DEF Ahead, Holders
  <2>2. Room(e, s)' <= Room(e, s)
    <3>1. Open(e)' = 1 => Open(e) = 1
      BY <1>3 DEF QuietFor, Open
    <3>2. stepIdx'[e] = stepIdx[e]
      BY <1>3 DEF QuietFor
    <3>3. ~Passed(s, stepIdx[e])' => ~Passed(s, stepIdx[e])
      BY <1>2, <3>2 DEF Passed
    <3> QED
      BY <3>1, <3>3 DEF Room
  <2>3. Cardinality(Ahead(e, s)') <= Cardinality(Ahead(e, s))
    <3>1. Ahead(e, s)' \in SUBSET Ahead(e, s)
      BY <2>1
    <3> QED
      BY <1>1, <3>1, NoMore
  <2>4. mails'[e][s] = mails[e][s] /\ lapses'[e] = lapses[e]
    BY <1>3 DEF QuietFor
  <2> QED
    BY <1>0, <1>1, <2>2, <2>3, <2>4
<1>4. ASSUME NEW p \in Senders, ClaimRow(p, e) PROVE Goal
  <2>1. /\ \A q \in Senders \ {p} : held'[q] = held[q] /\ sender'[q] = sender[q] /\ at'[q] = at[q]
        /\ sender'[p] = "claimed" /\ at'[p] = stepIdx[e]
        /\ enrolment[e] = "ACTIVE" /\ ~leased[e] /\ leased'[e] /\ UNCHANGED <<lapses, mails, stepIdx, position>>
    <3>1. /\ \A q \in Senders \ {p} : held'[q] = held[q] /\ sender'[q] = sender[q] /\ at'[q] = at[q]
          /\ sender'[p] = "claimed" /\ at'[p] = stepIdx[e]
          /\ enrolment[e] = "ACTIVE" /\ ~leased[e] /\ leased'[e] /\ UNCHANGED <<lapses, mails, stepIdx, listVars>>
      BY <1>4, ClaimHolds
    <3> QED
      BY <3>1 DEF listVars
  <2>2. \A q \in Ahead(e, s)' : q \in Ahead(e, s) \/ (q = p /\ ~Passed(s, stepIdx[e]))
    <3> SUFFICES ASSUME NEW q \in Senders, held'[q] = e, ~Passed(s, Reach(q))'
                 PROVE  q \in Ahead(e, s) \/ (q = p /\ ~Passed(s, stepIdx[e]))
      BY DEF Ahead, Holders
    <3>1. CASE q = p
      BY <2>1, <3>1 DEF Passed, Reach
    <3>2. CASE q # p
      BY <2>1, <3>2 DEF Passed, Reach, Ahead, Holders
    <3> QED
      BY <3>1, <3>2
  <2>3. Room(e, s)' = 0
    BY <2>1 DEF Room, Open
  <2>4. CASE Passed(s, stepIdx[e])
    <3>1. Ahead(e, s)' \in SUBSET Ahead(e, s)
      BY <2>2, <2>4
    <3>2. Cardinality(Ahead(e, s)') <= Cardinality(Ahead(e, s))
      BY <1>1, <3>1, NoMore
    <3> QED
      BY <1>0, <1>1, <2>1, <2>3, <3>2
  <2>5. CASE ~Passed(s, stepIdx[e])
    <3>1. Ahead(e, s)' \in SUBSET (Ahead(e, s) \cup {p}) /\ Room(e, s) = 1
      BY <2>1, <2>2, <2>5 DEF Room, Open
    <3>2. Cardinality(Ahead(e, s)') <= Cardinality(Ahead(e, s)) + 1
      BY <1>1, <3>1, OneMore
    <3> QED
      BY <1>0, <1>1, <2>1, <2>3, <3>1, <3>2
  <2> QED
    BY <2>4, <2>5
<1>5. ASSUME NEW p \in Senders, WritesBack(p, e) PROVE Goal
  <2>1. /\ LetsGo(p) /\ NoRow # e /\ held[p] = e /\ UNCHANGED <<lapses, mails, position>>
        /\ \/ enrolment'[e] \in {"COMPLETED", "FAILED"}
           \/ sender[p] = "sent" /\ stepIdx'[e] = at[p] + 1
    BY <1>5, WrittenBack, SequenceConstants DEF WritesBack, listVars
  <2>2. \A q \in Ahead(e, s)' : q \in Ahead(e, s) /\ q # p
    BY <2>1 DEF LetsGo, Ahead, Holders, Passed, Reach
  <2>3. Ahead(e, s)' \in SUBSET Ahead(e, s)
    BY <2>2
  <2>4. Cardinality(Ahead(e, s)') <= Cardinality(Ahead(e, s))
    BY <1>1, <2>3, NoMore
  <2>5. CASE Room(e, s)' = 0
    BY <1>0, <1>1, <2>1, <2>4, <2>5
  <2>6. CASE Room(e, s)' = 1
    <3>1. Open(e)' = 1 /\ ~Passed(s, stepIdx[e])'
      BY <2>6 DEF Room
    <3>2. enrolment'[e] \in {"none", "ACTIVE"}
      BY <3>1 DEF Open
    <3>3. ~Passed(s, Reach(p))
      BY <2>1, <3>1, <3>2 DEF Passed, Reach
    <3>4. p \in Ahead(e, s) /\ Ahead(e, s)' \in SUBSET (Ahead(e, s) \ {p})
      BY <2>1, <2>2, <3>3 DEF Ahead, Holders
    <3>5. Cardinality(Ahead(e, s)') + 1 <= Cardinality(Ahead(e, s))
      BY <1>1, <3>4, OneLess
    <3> QED
      BY <1>0, <1>1, <2>1, <2>6, <3>5
  <2> QED
    BY <1>1, <2>5, <2>6
<1>6. ASSUME NEW p \in Senders, Mails(p, e) PROVE Goal
  <2> DEFINE t == plan[p][at[p] + 1]
  <2>1. /\ sender[p] = "claimed" /\ held[p] = e /\ at[p] < Len(plan[p])
        /\ sender'[p] = "sent" /\ \A q \in Senders \ {p} : sender'[q] = sender[q]
        /\ UNCHANGED <<held, at, plan, enrolment, stepIdx, leased, lapses, position>>
        /\ s # t => mails'[e][s] = mails[e][s]
        /\ s = t => mails'[e][s] = mails[e][s] \/ mails'[e][s] = mails[e][s] + 1
    BY <1>0, <1>6, SendStepEffect DEF Mails, listVars
  <2>2. at[p] \in Nat /\ Len(plan[p]) \in Nat
    BY <1>0 DEF SenderTypes
  <2>3. s = t => position[s] = at[p]
    <3>1. at[p] + 1 \in 1..Len(plan[p])
      BY <2>1, <2>2
    <3>2. position[t] = (at[p] + 1) - 1
      BY <1>0, <3>1 DEF PlansAgree
    <3> QED
      BY <2>2, <3>2
  <2> HIDE DEF t
  <2>4. Room(e, s)' = Room(e, s)
    BY <2>1 DEF Room, Open, Passed
  <2>5. \A q \in Ahead(e, s)' : q \in Ahead(e, s) /\ (q = p => s # t)
    <3> SUFFICES ASSUME NEW q \in Senders, held[q] = e, ~Passed(s, Reach(q))'
                 PROVE  q \in Ahead(e, s) /\ (q = p => s # t)
      BY <2>1 DEF Ahead, Holders
    <3>1. CASE q = p
      <4>1. Reach(q)' = at[p] + 1 /\ Reach(q) = at[p]
        BY <2>1, <3>1 DEF Reach
      <4>2. ~(0 <= position[s] /\ position[s] < at[p] + 1)
        BY <2>1, <4>1 DEF Passed
      <4>3. position[s] \in Int
        BY <1>0 DEF ListTypes
      <4>4. ~Passed(s, Reach(q)) /\ s # t
        BY <2>2, <2>3, <4>1, <4>2, <4>3 DEF Passed
      <4> QED
        BY <4>4 DEF Ahead, Holders
    <3>2. CASE q # p
      BY <2>1, <3>2 DEF Passed, Reach, Ahead, Holders
    <3> QED
      BY <3>1, <3>2
  <2>6. CASE s # t
    <3>1. Ahead(e, s)' \in SUBSET Ahead(e, s)
      BY <2>5
    <3>2. Cardinality(Ahead(e, s)') <= Cardinality(Ahead(e, s))
      BY <1>1, <3>1, NoMore
    <3>3. mails'[e][s] = mails[e][s] /\ lapses'[e] = lapses[e]
      BY <2>1, <2>6
    <3> QED
      BY <1>0, <1>1, <2>4, <3>2, <3>3
  <2>7. CASE s = t
    <3>1. p \in Ahead(e, s)
      <4>1. Reach(p) = at[p] /\ ~Passed(s, at[p])
        BY <2>1, <2>2, <2>3, <2>7 DEF Reach, Passed
      <4> QED
        BY <2>1, <4>1 DEF Ahead, Holders
    <3>2. Ahead(e, s)' \in SUBSET (Ahead(e, s) \ {p})
      BY <2>5, <2>7
    <3>3. Cardinality(Ahead(e, s)') + 1 <= Cardinality(Ahead(e, s))
      BY <1>1, <3>1, <3>2, OneLess
    <3>4. mails'[e][s] <= mails[e][s] + 1 /\ lapses'[e] = lapses[e]
      BY <1>0, <2>1, <2>7
    <3> QED
      BY <1>0, <1>1, <2>4, <3>3, <3>4
  <2> QED
    BY <2>6, <2>7
<1>7. CASE SequenceTick
  <2>1. /\ UNCHANGED <<held, sender, at, enrolment, stepIdx, mails, position>>
        /\ lapses'[e] = lapses[e] + 1 \/ (lapses'[e] = lapses[e] /\ (leased'[e] <=> leased[e]))
    BY <1>0, <1>7, TickEffect DEF senderVars, listVars
  <2>2. Ahead(e, s)' = Ahead(e, s) /\ ((leased'[e] <=> leased[e]) => Room(e, s)' = Room(e, s))
    BY <2>1 DEF Ahead, Holders, Reach, Passed, Room, Open
  <2> QED
    BY <1>0, <1>1, <2>1, <2>2
<1> HIDE DEF Goal
<1> QED
  BY <1>3, <1>4, <1>5, <1>6, <1>7, QuietUnlessConcerned DEF Goal

\* When it does not, nothing is claimed any more.
LEMMA SendsPaidNext ==
  ASSUME SequenceInv, SequenceTypes', PlansAgree', RepeatsPaid', LeasesRun', [SequenceNext]_sequenceVars
  PROVE  SendsPaid'
<1> SUFFICES ASSUME ~reordered', NEW e \in Enrolments, NEW s \in Steps
             PROVE  mails'[e][s] + Cardinality(AboutTo(e, s)') <= 1 + lapses'[e]
  BY DEF SendsPaid
<1> DEFINE Goal == mails'[e][s] + Cardinality(AboutTo(e, s)') <= 1 + lapses'[e]
<1>0. /\ SenderTypes /\ EnrolmentRowTypes /\ FlagTypes /\ MailCounts /\ SenderTypes' /\ ~reordered
      /\ mails[e][s] \in Nat /\ mails'[e][s] \in Nat /\ lapses[e] \in Nat /\ lapses'[e] \in Nat
      /\ mails[e][s] + Cardinality(AboutTo(e, s)) <= 1 + lapses[e]
  <2>1. ~reordered
    BY PassedStays
  <2> QED
    BY <2>1 DEF SequenceInv, SequenceTypes, SendsPaid, EnrolmentRowTypes, MailCounts
<1>1. /\ AboutTo(e, s) \in SUBSET Senders /\ Cardinality(AboutTo(e, s)) \in Nat
      /\ AboutTo(e, s)' \in SUBSET Senders /\ Cardinality(AboutTo(e, s)') \in Nat /\ IsFiniteSet(Senders)
  BY SendersCounted, SequenceConstants DEF AboutTo, Sending, Holders
<1>2. ASSUME AboutTo(e, s)' \in SUBSET AboutTo(e, s), mails'[e][s] = mails[e][s], lapses'[e] >= lapses[e] PROVE Goal
  <2>1. Cardinality(AboutTo(e, s)') <= Cardinality(AboutTo(e, s))
    BY <1>1, <1>2, NoMore
  <2> QED
    BY <1>0, <1>1, <1>2, <2>1
<1>3. CASE QuietFor(e)
  <2>1. AboutTo(e, s)' \in SUBSET AboutTo(e, s) /\ mails'[e][s] = mails[e][s] /\ lapses'[e] = lapses[e]
    BY <1>3 DEF QuietFor, AboutTo, Sending, Holders
  <2> QED
    BY <1>0, <1>2, <2>1
<1>4. ASSUME NEW p \in Senders, ClaimRow(p, e) PROVE Goal
  <2>1. enrolment' = enrolment /\ enrolment[e] = "ACTIVE"
    BY <1>4, ClaimHolds
  <2>2. offered'
    BY <2>1 DEF LeasesRun
  <2>3. /\ mails'[e][s] + Cardinality(Ahead(e, s)') + Room(e, s)' <= 1 + lapses'[e]
        /\ Cardinality(Ahead(e, s)') \in Nat /\ Room(e, s)' \in {0, 1} /\ Ahead(e, s)' \in SUBSET Senders
    BY <2>2, AheadIsCounted DEF RepeatsPaid
  <2>4. ASSUME NEW q \in AboutTo(e, s)' PROVE q \in Ahead(e, s)'
    <3>1. /\ q \in Holders(e)' /\ sender'[q] = "claimed" /\ q \in Senders
          /\ at'[q] < Len(plan'[q]) /\ plan'[q][at'[q] + 1] = s
      BY <2>4 DEF AboutTo, Sending, Holders
    <3>2. at'[q] \in Nat /\ Len(plan'[q]) \in Nat
      BY <1>0, <3>1 DEF SenderTypes
    <3>3. position'[s] = (at'[q] + 1) - 1
      BY <2>2, <3>1, <3>2 DEF PlansAgree
    <3>4. ~Passed(s, Reach(q))'
      BY <3>1, <3>2, <3>3 DEF Passed, Reach
    <3> QED
      BY <3>1, <3>4 DEF Ahead
  <2>5. Cardinality(AboutTo(e, s)') <= Cardinality(Ahead(e, s)')
    <3>1. AboutTo(e, s)' \in SUBSET Ahead(e, s)'
      BY <2>4
    <3> QED
      BY <1>1, <2>3, <3>1, NoMore
  <2> QED
    BY <1>0, <1>1, <2>3, <2>5
<1>5. ASSUME NEW p \in Senders, WritesBack(p, e) PROVE Goal
  <2>1. LetsGo(p) /\ NoRow # e /\ UNCHANGED <<lapses, mails>>
    BY <1>5, WrittenBack, SequenceConstants DEF WritesBack
  <2>2. AboutTo(e, s)' \in SUBSET AboutTo(e, s)
    BY <2>1 DEF LetsGo, AboutTo, Sending, Holders
  <2> QED
    BY <1>0, <1>2, <2>1, <2>2
<1>6. ASSUME NEW p \in Senders, Mails(p, e) PROVE Goal
  <2> DEFINE t == plan[p][at[p] + 1]
  <2>1. /\ sender[p] = "claimed" /\ held[p] = e /\ at[p] < Len(plan[p])
        /\ sender'[p] = "sent" /\ \A q \in Senders \ {p} : sender'[q] = sender[q]
        /\ UNCHANGED <<held, at, plan, lapses>>
        /\ s # t => mails'[e][s] = mails[e][s]
        /\ s = t => mails'[e][s] = mails[e][s] \/ mails'[e][s] = mails[e][s] + 1
    BY <1>0, <1>6, SendStepEffect DEF Mails
  <2>2. \A q \in AboutTo(e, s)' : q \in AboutTo(e, s) /\ q # p
    BY <2>1 DEF AboutTo, Sending, Holders
  <2>3. CASE s # t
    <3>1. AboutTo(e, s)' \in SUBSET AboutTo(e, s)
      BY <2>2
    <3> QED
      BY <1>0, <1>2, <2>1, <2>3, <3>1
  <2>4. CASE s = t
    <3>1. p \in AboutTo(e, s) /\ AboutTo(e, s)' \in SUBSET (AboutTo(e, s) \ {p})
      BY <2>1, <2>2, <2>4 DEF AboutTo, Sending, Holders
    <3>2. Cardinality(AboutTo(e, s)') + 1 <= Cardinality(AboutTo(e, s))
      BY <1>1, <3>1, OneLess
    <3>3. mails'[e][s] <= mails[e][s] + 1 /\ lapses'[e] = lapses[e]
      BY <1>0, <2>1, <2>4
    <3> HIDE DEF t
    <3> QED
      BY <1>0, <1>1, <3>2, <3>3
  <2> QED
    BY <2>3, <2>4
<1>7. CASE SequenceTick
  <2>1. UNCHANGED <<held, sender, at, plan, mails>> /\ (lapses'[e] = lapses[e] + 1 \/ lapses'[e] = lapses[e])
    BY <1>0, <1>7, TickEffect DEF senderVars
  <2>2. AboutTo(e, s)' \in SUBSET AboutTo(e, s)
    BY <2>1 DEF AboutTo, Sending, Holders
  <2> QED
    BY <1>0, <1>2, <2>1, <2>2
<1> HIDE DEF Goal
<1> QED
  BY <1>3, <1>4, <1>5, <1>6, <1>7, QuietUnlessConcerned DEF Goal

-----------------------------------------------------------------------------
LEMMA SequenceInvInit == SequenceInit => SequenceInv
<1> SUFFICES ASSUME SequenceInit PROVE SequenceInv
  OBVIOUS
<1>1. EnrolmentRowTypes /\ MailCounts
  BY DEF SequenceInit, EnrolmentRowTypes, MailCounts, EnrolmentStatuses
<1>2. FlagTypes
  BY DEF SequenceInit, FlagTypes
<1>3. SenderTypes
  BY SequenceConstants DEF SequenceInit, SenderTypes, SenderLabels
<1> DEFINE Place(s) == CHOOSE i \in DOMAIN FirstSteps : FirstSteps[i] = s
<1>4. /\ FirstSteps \in Seq(Steps)
      /\ \A i, j \in DOMAIN FirstSteps : FirstSteps[i] = FirstSteps[j] => i = j
      /\ DOMAIN FirstSteps = 1..Len(FirstSteps) /\ Len(FirstSteps) \in Nat
  BY SequenceConstants
<1>5. ASSUME NEW s \in Steps
      PROVE  /\ \A i \in DOMAIN FirstSteps : FirstSteps[i] = s => position[s] = i - 1
             /\ (\A i \in DOMAIN FirstSteps : FirstSteps[i] # s) => position[s] = -1
  <2>1. position[s] = IF \E i \in DOMAIN FirstSteps : FirstSteps[i] = s THEN Place(s) - 1 ELSE -1
    BY DEF SequenceInit
  <2>2. \A i \in DOMAIN FirstSteps : FirstSteps[i] = s => Place(s) = i
    BY <1>4
  <2> HIDE DEF Place
  <2> QED
    BY <2>1, <2>2
<1>6. position \in [Steps -> Int]
  <2>1. \A s \in Steps : position[s] \in Int
    BY <1>4, <1>5
  <2> QED
    BY <2>1 DEF SequenceInit
<1>7. ListTypes
  BY <1>6 DEF SequenceInit, ListTypes
<1>8. StepsNumbered
  <2>1. \A s \in ExistingSteps : \E i \in 1..Len(FirstSteps) : FirstSteps[i] = s /\ position[s] = i - 1
    BY <1>4, <1>5 DEF ExistingSteps
  <2>2. \A s, t \in ExistingSteps : position[s] = position[t] => s = t
    BY <2>1
  <2>3. ASSUME NEW s \in ExistingSteps PROVE position[s] < Cardinality(ExistingSteps)
    <3>1. \A i \in 1..Len(FirstSteps) : FirstSteps[i] \in ExistingSteps
      BY <1>4, <1>5 DEF ExistingSteps
    <3>2. FirstSteps \in [1..Len(FirstSteps) -> ExistingSteps]
      BY <1>4, <3>1
    <3>3. FirstSteps \in Injection(1..Len(FirstSteps), ExistingSteps)
      BY <1>4, <3>2 DEF Injection, IsInjective
    <3>4. IsFiniteSet(ExistingSteps) /\ Cardinality(ExistingSteps) \in Nat
      BY StepsCounted DEF ExistingSteps
    <3>5. Cardinality(1..Len(FirstSteps)) <= Cardinality(ExistingSteps)
      BY <3>3, <3>4, FS_Injection
    <3>6. Cardinality(1..Len(FirstSteps)) = Len(FirstSteps) - 1 + 1
      <4>1. \A n \in Int : 1 <= n + 1 => Cardinality(1..n) = n - 1 + 1
        BY IntervalSize
      <4> QED
        BY <1>4, <4>1
    <3>7. PICK i \in 1..Len(FirstSteps) : position[s] = i - 1
      BY <2>1
    <3> QED
      BY <1>4, <3>4, <3>5, <3>6, <3>7
  <2> QED
    BY <2>2, <2>3 DEF StepsNumbered
<1>9. PlansAgree
  BY DEF SequenceInit, PlansAgree
<1>10. LeasesRun
  BY DEF SequenceInit, LeasesRun
<1>11. ASSUME NEW e \in Enrolments
       PROVE  /\ Cardinality(Holders(e)) = 0 /\ Holders(e) = {} /\ Sending(e) = {}
              /\ lapses[e] = 0 /\ lateMails[e] = 0 /\ ~optedOut[e]
              /\ \A s \in Steps : mails[e][s] = 0 /\ Ahead(e, s) = {} /\ AboutTo(e, s) = {}
  <2>1. Holders(e) = {}
    BY SequenceConstants DEF SequenceInit, Holders
  <2>2. Cardinality(Holders(e)) = 0
    BY <2>1, FS_EmptySet
  <2>3. Sending(e) = {} /\ \A s \in Steps : Ahead(e, s) = {} /\ AboutTo(e, s) = {}
    BY <2>1 DEF Sending, Ahead, AboutTo
  <2>4. lapses[e] = 0 /\ lateMails[e] = 0 /\ ~optedOut[e] /\ \A s \in Steps : mails[e][s] = 0
    BY DEF SequenceInit
  <2> QED
    BY <2>1, <2>2, <2>3, <2>4
<1>12. Cardinality({}) = 0
  BY FS_EmptySet
<1>13. ClaimsPaid
  <2>1. \A e \in Enrolments : Open(e) \in {0, 1}
    BY DEF Open
  <2> QED
    BY <1>11, <2>1 DEF ClaimsPaid
<1>14. LatePaid
  <2> SUFFICES ASSUME NEW e \in Enrolments
               PROVE  /\ ~optedOut[e] => lateMails[e] = 0
                      /\ optedOut[e] => enrolment[e] \notin {"none", "ACTIVE"}
                      /\ lateMails[e] + Cardinality(Sending(e)) <= 1 + lapses[e]
    BY DEF LatePaid
  <2>1. ~optedOut[e] /\ lateMails[e] = 0 /\ lapses[e] = 0
    BY <1>11
  <2>2. Cardinality(Sending(e)) = 0
    BY <1>11, <1>12
  <2> QED
    BY <2>1, <2>2
<1>15. RepeatsPaid
  <2>1. \A e \in Enrolments, s \in Steps : Room(e, s) \in {0, 1}
    BY DEF Room
  <2> QED
    BY <1>11, <1>12, <2>1 DEF RepeatsPaid
<1>16. SendsPaid
  BY <1>11, <1>12 DEF SendsPaid
<1> QED
  BY <1>1, <1>2, <1>3, <1>7, <1>8, <1>9, <1>10, <1>13, <1>14, <1>15, <1>16 DEF SequenceInv, SequenceTypes

\* Every step keeps the invariant of sequences.
LEMMA SequenceInvNext == SequenceInv /\ [SequenceNext]_sequenceVars => SequenceInv'
<1> SUFFICES ASSUME SequenceInv, [SequenceNext]_sequenceVars PROVE SequenceInv'
  OBVIOUS
<1>1. SequenceTypes'
  BY SequenceRowTypesNext, SequenceFlagTypesNext, SequenceMailTypesNext, SequenceListTypesNext,
     SequenceSenderTypesNext
  DEF SequenceTypes
<1>2. LeasesRun' /\ StepsNumbered' /\ PlansAgree'
  BY <1>1, LeasesRunNext, StepsNumberedNext, PlansAgreeNext DEF SequenceTypes
<1>3. ClaimsPaid' /\ LatePaid' /\ RepeatsPaid'
  BY <1>1, ClaimsPaidNext, LatePaidNext, RepeatsPaidNext
<1>4. SendsPaid'
  BY <1>1, <1>2, <1>3, SendsPaidNext
<1> QED
  BY <1>1, <1>2, <1>3, <1>4 DEF SequenceInv

\* The invariant gives what the runs check.
LEMMA SequencesAreSafe ==
  SequenceInv => SequenceTypeOK /\ HolderIsAlone /\ RepeatsNeedALapse /\ OptOutStopsTheRest
<1> SUFFICES ASSUME SequenceInv
             PROVE  SequenceTypeOK /\ HolderIsAlone /\ RepeatsNeedALapse /\ OptOutStopsTheRest
  OBVIOUS
<1>1. SequenceTypes /\ ClaimsPaid /\ LatePaid /\ SendsPaid
  BY DEF SequenceInv
<1>2. SequenceTypeOK
  BY <1>1 DEF SequenceTypes, EnrolmentRowTypes, FlagTypes, MailCounts, ListTypes, SenderTypes, SequenceTypeOK
<1>3. ASSUME NEW e \in Enrolments
      PROVE  /\ lapses[e] \in Nat /\ lateMails[e] \in Nat /\ Open(e) \in {0, 1}
             /\ Holders(e) \in SUBSET Senders /\ Cardinality(Holders(e)) \in Nat
             /\ Cardinality(Sending(e)) \in Nat
             /\ \A s \in Steps : mails[e][s] \in Nat /\ Cardinality(AboutTo(e, s)) \in Nat
  BY <1>1, SendersCounted DEF SequenceTypes, EnrolmentRowTypes, MailCounts, Open, Holders, Sending, AboutTo
<1>4. HolderIsAlone
  <2> SUFFICES ASSUME NEW p \in Senders, NEW q \in Senders, NEW e \in Enrolments,
                      p # q, held[p] = e, held[q] = e
               PROVE  lapses[e] > 0
    BY DEF HolderIsAlone
  <2>1. p \in Holders(e) /\ {q} \in SUBSET (Holders(e) \ {p}) /\ IsFiniteSet(Senders)
    BY SequenceConstants DEF Holders
  <2>2. Cardinality({q}) + 1 <= Cardinality(Holders(e)) /\ Cardinality({q}) = 1
    BY <1>3, <2>1, OneLess, FS_Singleton
  <2>3. Cardinality(Holders(e)) + Open(e) <= 1 + lapses[e]
    BY <1>1 DEF ClaimsPaid
  <2> QED
    BY <1>3, <2>2, <2>3
<1>5. RepeatsNeedALapse
  <2> SUFFICES ASSUME ~reordered, NEW e \in Enrolments, NEW s \in Steps
               PROVE  mails[e][s] <= 1 + lapses[e]
    BY DEF RepeatsNeedALapse
  <2>1. mails[e][s] + Cardinality(AboutTo(e, s)) <= 1 + lapses[e]
    BY <1>1 DEF SendsPaid
  <2> QED
    BY <1>3, <2>1
<1>6. OptOutStopsTheRest
  <2> SUFFICES ASSUME NEW e \in Enrolments PROVE lateMails[e] <= 1 + lapses[e]
    BY DEF OptOutStopsTheRest
  <2>1. lateMails[e] + Cardinality(Sending(e)) <= 1 + lapses[e]
    BY <1>1 DEF LatePaid
  <2> QED
    BY <1>3, <2>1
<1> QED
  BY <1>2, <1>4, <1>5, <1>6

-----------------------------------------------------------------------------
(* Campaigns: an attempt that is PENDING belongs to one invocation.        *)

\* The type invariant's parts: rows, history and invocations.
DraftTypes ==
  /\ campaign \in {"none", "DRAFT", "SENDING", "SENT", "deleted"} /\ wording \in Wordings \cup {"none"}
  /\ unfilled \in BOOLEAN /\ lateEdit \in BOOLEAN /\ deaths \in Nat

\* Subscribers, and those who never left.
PeopleTypes ==
  /\ subscriber \in [Subscribers -> {"none", "SUBSCRIBED", "UNSUBSCRIBED", "gone"}]
  /\ returns \in [Subscribers -> Nat] /\ loyal \subseteq Subscribers

\* Attempts and what was mailed.
DeliveryTypes ==
  /\ attempt \in [Subscribers -> AttemptStatuses]
  /\ mailed \in [Subscribers -> Nat] /\ unsure \in [Subscribers -> Nat] /\ failures \in [Subscribers -> Nat]

\* What an invocation has: a subscriber in hand exactly while it sends.
ClerkTypes ==
  /\ clerk \in [Clerks -> ClerkLabels] /\ copy \in [Clerks -> Wordings \cup {"none"}]
  /\ round \in [Clerks -> SUBSET Subscribers] /\ newcomers \in [Clerks -> SUBSET Subscribers]
  /\ target \in [Clerks -> Subscribers \cup {Nobody}]
  /\ \A p \in Clerks : target[p] # Nobody <=> clerk[p] \in {"send", "sent", "rejected"}

\* A count is read just before the campaign is finished.
CountTypes == count \in [Clerks -> BOOLEAN] /\ \A p \in Clerks : count[p] => clerk[p] = "finish"

\* All the types.
CampaignTypes == DraftTypes /\ PeopleTypes /\ DeliveryTypes /\ ClerkTypes

\* An attempt in somebody's hand is PENDING, or its row is gone for good.
PendingIsHeld ==
  \A p \in Clerks : target[p] # Nobody =>
    \/ attempt[target[p]] = "PENDING"
    \/ attempt[target[p]] = "none" /\ (campaign = "deleted" \/ subscriber[target[p]] = "gone")

\* A subscriber is in one hand at most.
HeldByOne ==
  \A p, q \in Clerks : target[p] = target[q] /\ target[p] # Nobody => p = q

\* Who is still to be sent to, or was refused, has had only unsure mails.
NotYetMailed ==
  /\ \A s \in Subscribers :
       attempt[s] \in {"none", "FAILED", "SKIPPED_UNSUBSCRIBED"} /\ campaign # "deleted" /\ subscriber[s] # "gone"
         => mailed[s] <= unsure[s]
  /\ \A p \in Clerks : clerk[p] \in {"send", "rejected"} => mailed[target[p]] <= unsure[target[p]]

\* What is recorded as sent, or about to be, was mailed.
SentWasMailed ==
  /\ \A s \in Subscribers : attempt[s] = "SENT" => mailed[s] > 0
  /\ \A p \in Clerks : clerk[p] = "sent" => mailed[target[p]] > 0

\* The statements of an invocation that has found the campaign started.
Started == {"batch", "claim", "send", "sent", "rejected", "count", "finish"}

\* Who works on a campaign has found it started, or its draft.
WorkIsStarted ==
  \A p \in Clerks :
    /\ clerk[p] \in Started => campaign \in {"SENDING", "SENT", "deleted"}
    /\ clerk[p] = "own" => campaign # "none"

\* The loyal are subscribed; who counted nobody left has seen them all reached.
LoyalAreReached ==
  /\ loyal \subseteq Subscribed
  /\ (campaign = "SENT" \/ (campaign # "deleted" /\ \E p \in Clerks : count[p]))
       => \A s \in loyal : attempt[s] = "SENT"

\* Without a late edit, what is being sent is worded.
WordedUnlessEdited ==
  ~lateEdit =>
    /\ ~unfilled
    /\ campaign \in {"SENDING", "SENT"} \/ (\E p \in Clerks : clerk[p] = "own") => wording = "ready"
    /\ \A p \in Clerks : clerk[p] \in Started \cup {"own"} => copy[p] = "ready"

\* The inductive invariant of campaigns.
CampaignInv ==
  /\ CampaignTypes /\ CountTypes /\ PendingIsHeld /\ HeldByOne /\ NotYetMailed /\ OneDelivery
  /\ SentWasMailed /\ WorkIsStarted /\ LoyalAreReached /\ WordedUnlessEdited

\* Every step keeps the types: one case per statement.
LEMMA CampaignDraftTypesNext ==
  ASSUME CampaignInv, [CampaignNext]_campaignVars
  PROVE  DraftTypes' /\ PeopleTypes'
<1>0. CampaignTypes /\ CampaignConstants
  BY CampaignConstants DEF CampaignInv
<1> USE DEF CampaignTypes
<1>1. ASSUME NEW p \in Clerks, StartCampaign(p) PROVE DraftTypes' /\ PeopleTypes'
  BY <1>0, <1>1 DEF StartCampaign, CampaignGoto, wordingVars, subscriberVars, deliveryVars, DraftTypes,
     PeopleTypes, Wordings, Subscribed
<1>2. ASSUME NEW p \in Clerks, OwnCampaign(p) PROVE DraftTypes' /\ PeopleTypes'
  BY <1>0, <1>2 DEF OwnCampaign, CampaignGoto, wordingVars, deliveryVars, DraftTypes, PeopleTypes, Wordings,
     Subscribed
<1>3. ASSUME NEW p \in Clerks, AlreadyOwned(p) PROVE DraftTypes' /\ PeopleTypes'
  BY <1>0, <1>3 DEF AlreadyOwned, Quit, Leave, wordingVars, subscriberVars, deliveryVars, DraftTypes,
     PeopleTypes, Wordings
<1>4. ASSUME NEW p \in Clerks, ReadBatch(p) PROVE DraftTypes' /\ PeopleTypes'
  BY <1>0, <1>4 DEF ReadBatch, CampaignGoto, wordingVars, subscriberVars, deliveryVars, DraftTypes,
     PeopleTypes, Wordings
<1>5. ASSUME NEW p \in Clerks, NEW s \in Subscribers, ClaimSubscriber(p, s) PROVE DraftTypes' /\ PeopleTypes'
  BY <1>0, <1>5 DEF ClaimSubscriber, CampaignGoto, wordingVars, subscriberVars, DraftTypes, PeopleTypes,
     Wordings
<1>6. ASSUME NEW p \in Clerks, NEW s \in Subscribers, AttemptedByAnother(p, s) PROVE DraftTypes' /\ PeopleTypes'
  BY <1>0, <1>6 DEF AttemptedByAnother, wordingVars, subscriberVars, deliveryVars, DraftTypes, PeopleTypes,
     Wordings
<1>7. ASSUME NEW p \in Clerks, TargetVanished(p) PROVE DraftTypes' /\ PeopleTypes'
  BY <1>0, <1>7 DEF TargetVanished, Quit, Leave, wordingVars, subscriberVars, deliveryVars, DraftTypes,
     PeopleTypes, Wordings
<1>8. ASSUME NEW p \in Clerks, SendCampaign(p) PROVE DraftTypes' /\ PeopleTypes'
  BY <1>0, <1>8 DEF SendCampaign, CampaignGoto, subscriberVars, DraftTypes, PeopleTypes, Wordings
<1>9. ASSUME NEW p \in Clerks, RecordAttempt(p) PROVE DraftTypes' /\ PeopleTypes'
  BY <1>0, <1>9 DEF RecordAttempt, CampaignGoto, wordingVars, subscriberVars, DraftTypes, PeopleTypes,
     Wordings
<1>10. ASSUME NEW p \in Clerks, RecordSkipped(p) PROVE DraftTypes' /\ PeopleTypes'
  BY <1>0, <1>10 DEF RecordSkipped, CampaignGoto, wordingVars, subscriberVars, DraftTypes, PeopleTypes,
     Wordings
<1>11. ASSUME NEW p \in Clerks, CountRemaining(p) PROVE DraftTypes' /\ PeopleTypes'
  BY <1>0, <1>11 DEF CountRemaining, CampaignGoto, wordingVars, subscriberVars, deliveryVars, DraftTypes,
     PeopleTypes, Wordings
<1>12. ASSUME NEW p \in Clerks, FinishRound(p) PROVE DraftTypes' /\ PeopleTypes'
  BY <1>0, <1>12 DEF FinishRound, Quit, Leave, wordingVars, subscriberVars, deliveryVars, DraftTypes,
     PeopleTypes, Wordings
<1>13. ASSUME NEW words \in Wordings, CreateCampaign(words) PROVE DraftTypes' /\ PeopleTypes'
  BY <1>0, <1>13 DEF CreateCampaign, subscriberVars, deliveryVars, clerkVars, DraftTypes, PeopleTypes,
     Wordings
<1>14. ASSUME NEW p \in Clerks, NEW words \in Wordings, StartUpdate(p, words) PROVE DraftTypes' /\ PeopleTypes'
  BY <1>0, <1>14 DEF StartUpdate, CampaignGoto, wordingVars, subscriberVars, deliveryVars, DraftTypes,
     PeopleTypes, Wordings
<1>15. ASSUME NEW p \in Clerks, UpdateCampaign(p) PROVE DraftTypes' /\ PeopleTypes'
  BY <1>0, <1>15 DEF UpdateCampaign, ClerkTypes, Quit, Leave, subscriberVars, deliveryVars, DraftTypes,
     PeopleTypes,
     Wordings
<1>16. ASSUME NEW p \in Clerks, StartDelete(p) PROVE DraftTypes' /\ PeopleTypes'
  BY <1>0, <1>16 DEF StartDelete, CampaignGoto, wordingVars, subscriberVars, deliveryVars, DraftTypes,
     PeopleTypes, Wordings
<1>17. ASSUME NEW p \in Clerks, DeleteCampaign(p) PROVE DraftTypes' /\ PeopleTypes'
  BY <1>0, <1>17 DEF DeleteCampaign, Quit, Leave, wordingVars, subscriberVars, DraftTypes, PeopleTypes,
     Wordings
<1>18. ASSUME NEW s \in Subscribers, Subscribe(s) PROVE DraftTypes' /\ PeopleTypes'
  BY <1>0, <1>18 DEF Subscribe, wordingVars, deliveryVars, clerkVars, DraftTypes, PeopleTypes, Wordings
<1>19. ASSUME NEW s \in Subscribers, UnsubscribeCustomer(s) PROVE DraftTypes' /\ PeopleTypes'
  BY <1>0, <1>19 DEF UnsubscribeCustomer, wordingVars, deliveryVars, clerkVars, DraftTypes, PeopleTypes,
     Wordings
<1>20. ASSUME NEW s \in Subscribers, DeleteSubscriber(s) PROVE DraftTypes' /\ PeopleTypes'
  BY <1>0, <1>20 DEF DeleteSubscriber, wordingVars, clerkVars, DraftTypes, PeopleTypes, Wordings
<1>21. ASSUME NEW p \in Clerks, NEW pasted \in SUBSET Subscribers, StartImport(p, pasted) PROVE DraftTypes' /\ PeopleTypes'
  BY <1>0, <1>21 DEF StartImport, CampaignGoto, wordingVars, subscriberVars, deliveryVars, DraftTypes,
     PeopleTypes, Wordings
<1>22. ASSUME NEW p \in Clerks, CreateSubscribers(p) PROVE DraftTypes' /\ PeopleTypes'
  BY <1>0, <1>22 DEF CreateSubscribers, Quit, Leave, wordingVars, deliveryVars, DraftTypes, PeopleTypes,
     Wordings
<1>23. ASSUME NEW p \in Clerks, ClerkDies(p) PROVE DraftTypes' /\ PeopleTypes'
  BY <1>0, <1>23 DEF ClerkDies, Quit, wordingVars, subscriberVars, deliveryVars, DraftTypes, PeopleTypes,
     Wordings
<1>24. CASE UNCHANGED campaignVars
  BY <1>0, <1>24 DEF campaignVars, wordingVars, subscriberVars, deliveryVars, clerkVars, DraftTypes,
     PeopleTypes, Wordings
<1> QED
  BY <1>1, <1>2, <1>3, <1>4, <1>5, <1>6, <1>7, <1>8, <1>9, <1>10, <1>11, <1>12, <1>13, <1>14, <1>15, <1>16,
     <1>17, <1>18, <1>19, <1>20, <1>21, <1>22, <1>23, <1>24 DEF CampaignNext, ClerkStep

LEMMA CampaignDeliveryTypesNext ==
  ASSUME CampaignInv, [CampaignNext]_campaignVars
  PROVE  DeliveryTypes'
<1>0. CampaignTypes /\ CampaignConstants
  BY CampaignConstants DEF CampaignInv
<1> USE DEF CampaignTypes
<1>1. ASSUME NEW p \in Clerks, StartCampaign(p) PROVE DeliveryTypes'
  BY <1>0, <1>1 DEF StartCampaign, CampaignGoto, wordingVars, subscriberVars, deliveryVars, DeliveryTypes,
     AttemptStatuses
<1>2. ASSUME NEW p \in Clerks, OwnCampaign(p) PROVE DeliveryTypes'
  BY <1>0, <1>2 DEF OwnCampaign, CampaignGoto, wordingVars, deliveryVars, DeliveryTypes, AttemptStatuses
<1>3. ASSUME NEW p \in Clerks, AlreadyOwned(p) PROVE DeliveryTypes'
  BY <1>0, <1>3 DEF AlreadyOwned, Quit, Leave, wordingVars, subscriberVars, deliveryVars, DeliveryTypes,
     AttemptStatuses
<1>4. ASSUME NEW p \in Clerks, ReadBatch(p) PROVE DeliveryTypes'
  BY <1>0, <1>4 DEF ReadBatch, CampaignGoto, wordingVars, subscriberVars, deliveryVars, DeliveryTypes,
     AttemptStatuses
<1>5. ASSUME NEW p \in Clerks, NEW s \in Subscribers, ClaimSubscriber(p, s) PROVE DeliveryTypes'
  BY <1>0, <1>5 DEF ClaimSubscriber, CampaignGoto, wordingVars, subscriberVars, DeliveryTypes, AttemptStatuses
<1>6. ASSUME NEW p \in Clerks, NEW s \in Subscribers, AttemptedByAnother(p, s) PROVE DeliveryTypes'
  BY <1>0, <1>6 DEF AttemptedByAnother, wordingVars, subscriberVars, deliveryVars, DeliveryTypes,
     AttemptStatuses
<1>7. ASSUME NEW p \in Clerks, TargetVanished(p) PROVE DeliveryTypes'
  BY <1>0, <1>7 DEF TargetVanished, Quit, Leave, wordingVars, subscriberVars, deliveryVars, DeliveryTypes,
     AttemptStatuses
<1>8. ASSUME NEW p \in Clerks, SendCampaign(p) PROVE DeliveryTypes'
  BY <1>0, <1>8 DEF SendCampaign, CampaignGoto, subscriberVars, DeliveryTypes, AttemptStatuses
<1>9. ASSUME NEW p \in Clerks, RecordAttempt(p) PROVE DeliveryTypes'
  BY <1>0, <1>9 DEF RecordAttempt, ClerkTypes, CampaignGoto, wordingVars, subscriberVars, DeliveryTypes,
     AttemptStatuses
<1>10. ASSUME NEW p \in Clerks, RecordSkipped(p) PROVE DeliveryTypes'
  BY <1>0, <1>10 DEF RecordSkipped, CampaignGoto, wordingVars, subscriberVars, DeliveryTypes, AttemptStatuses
<1>11. ASSUME NEW p \in Clerks, CountRemaining(p) PROVE DeliveryTypes'
  BY <1>0, <1>11 DEF CountRemaining, CampaignGoto, wordingVars, subscriberVars, deliveryVars, DeliveryTypes,
     AttemptStatuses
<1>12. ASSUME NEW p \in Clerks, FinishRound(p) PROVE DeliveryTypes'
  BY <1>0, <1>12 DEF FinishRound, Quit, Leave, wordingVars, subscriberVars, deliveryVars, DeliveryTypes,
     AttemptStatuses
<1>13. ASSUME NEW words \in Wordings, CreateCampaign(words) PROVE DeliveryTypes'
  BY <1>0, <1>13 DEF CreateCampaign, subscriberVars, deliveryVars, clerkVars, DeliveryTypes, AttemptStatuses
<1>14. ASSUME NEW p \in Clerks, NEW words \in Wordings, StartUpdate(p, words) PROVE DeliveryTypes'
  BY <1>0, <1>14 DEF StartUpdate, CampaignGoto, wordingVars, subscriberVars, deliveryVars, DeliveryTypes,
     AttemptStatuses
<1>15. ASSUME NEW p \in Clerks, UpdateCampaign(p) PROVE DeliveryTypes'
  BY <1>0, <1>15 DEF UpdateCampaign, Quit, Leave, subscriberVars, deliveryVars, DeliveryTypes, AttemptStatuses
<1>16. ASSUME NEW p \in Clerks, StartDelete(p) PROVE DeliveryTypes'
  BY <1>0, <1>16 DEF StartDelete, CampaignGoto, wordingVars, subscriberVars, deliveryVars, DeliveryTypes,
     AttemptStatuses
<1>17. ASSUME NEW p \in Clerks, DeleteCampaign(p) PROVE DeliveryTypes'
  BY <1>0, <1>17 DEF DeleteCampaign, Quit, Leave, wordingVars, subscriberVars, DeliveryTypes, AttemptStatuses
<1>18. ASSUME NEW s \in Subscribers, Subscribe(s) PROVE DeliveryTypes'
  BY <1>0, <1>18 DEF Subscribe, wordingVars, deliveryVars, clerkVars, DeliveryTypes, AttemptStatuses
<1>19. ASSUME NEW s \in Subscribers, UnsubscribeCustomer(s) PROVE DeliveryTypes'
  BY <1>0, <1>19 DEF UnsubscribeCustomer, wordingVars, deliveryVars, clerkVars, DeliveryTypes, AttemptStatuses
<1>20. ASSUME NEW s \in Subscribers, DeleteSubscriber(s) PROVE DeliveryTypes'
  BY <1>0, <1>20 DEF DeleteSubscriber, wordingVars, clerkVars, DeliveryTypes, AttemptStatuses
<1>21. ASSUME NEW p \in Clerks, NEW pasted \in SUBSET Subscribers, StartImport(p, pasted) PROVE DeliveryTypes'
  BY <1>0, <1>21 DEF StartImport, CampaignGoto, wordingVars, subscriberVars, deliveryVars, DeliveryTypes,
     AttemptStatuses
<1>22. ASSUME NEW p \in Clerks, CreateSubscribers(p) PROVE DeliveryTypes'
  BY <1>0, <1>22 DEF CreateSubscribers, Quit, Leave, wordingVars, deliveryVars, DeliveryTypes, AttemptStatuses
<1>23. ASSUME NEW p \in Clerks, ClerkDies(p) PROVE DeliveryTypes'
  BY <1>0, <1>23 DEF ClerkDies, Quit, wordingVars, subscriberVars, deliveryVars, DeliveryTypes,
     AttemptStatuses
<1>24. CASE UNCHANGED campaignVars
  BY <1>0, <1>24 DEF campaignVars, wordingVars, subscriberVars, deliveryVars, clerkVars, DeliveryTypes,
     AttemptStatuses
<1> QED
  BY <1>1, <1>2, <1>3, <1>4, <1>5, <1>6, <1>7, <1>8, <1>9, <1>10, <1>11, <1>12, <1>13, <1>14, <1>15, <1>16,
     <1>17, <1>18, <1>19, <1>20, <1>21, <1>22, <1>23, <1>24 DEF CampaignNext, ClerkStep

LEMMA CampaignClerkTypesNext ==
  ASSUME CampaignInv, [CampaignNext]_campaignVars
  PROVE  ClerkTypes'
<1>0. CampaignTypes /\ CampaignConstants
  BY CampaignConstants DEF CampaignInv
<1> USE DEF CampaignTypes
<1>1. ASSUME NEW p \in Clerks, StartCampaign(p) PROVE ClerkTypes'
  BY <1>0, <1>1 DEF StartCampaign, DraftTypes, CampaignGoto, wordingVars, subscriberVars, deliveryVars,
     ClerkTypes,
     ClerkLabels, Wordings, Subscribed
<1>2. ASSUME NEW p \in Clerks, OwnCampaign(p) PROVE ClerkTypes'
  BY <1>0, <1>2 DEF OwnCampaign, CampaignGoto, wordingVars, deliveryVars, ClerkTypes, ClerkLabels, Wordings,
     Subscribed
<1>3. ASSUME NEW p \in Clerks, AlreadyOwned(p) PROVE ClerkTypes'
  BY <1>0, <1>3 DEF AlreadyOwned, Quit, Leave, wordingVars, subscriberVars, deliveryVars, ClerkTypes,
     ClerkLabels, Wordings
<1>4. ASSUME NEW p \in Clerks, ReadBatch(p) PROVE ClerkTypes'
  BY <1>0, <1>4 DEF ReadBatch, CampaignGoto, wordingVars, subscriberVars, deliveryVars, ClerkTypes,
     ClerkLabels, Wordings, Subscribed, StillNeedsAttempt, NextBatch
<1>5. ASSUME NEW p \in Clerks, NEW s \in Subscribers, ClaimSubscriber(p, s) PROVE ClerkTypes'
  BY <1>0, <1>5 DEF ClaimSubscriber, CampaignGoto, wordingVars, subscriberVars, ClerkTypes, ClerkLabels,
     Wordings
<1>6. ASSUME NEW p \in Clerks, NEW s \in Subscribers, AttemptedByAnother(p, s) PROVE ClerkTypes'
  BY <1>0, <1>6 DEF AttemptedByAnother, wordingVars, subscriberVars, deliveryVars, ClerkTypes, ClerkLabels,
     Wordings
<1>7. ASSUME NEW p \in Clerks, TargetVanished(p) PROVE ClerkTypes'
  BY <1>0, <1>7 DEF TargetVanished, Quit, Leave, wordingVars, subscriberVars, deliveryVars, ClerkTypes,
     ClerkLabels, Wordings
<1>8. ASSUME NEW p \in Clerks, SendCampaign(p) PROVE ClerkTypes'
  BY <1>0, <1>8 DEF SendCampaign, CampaignGoto, subscriberVars, ClerkTypes, ClerkLabels, Wordings
<1>9. ASSUME NEW p \in Clerks, RecordAttempt(p) PROVE ClerkTypes'
  BY <1>0, <1>9 DEF RecordAttempt, CampaignGoto, wordingVars, subscriberVars, ClerkTypes, ClerkLabels,
     Wordings
<1>10. ASSUME NEW p \in Clerks, RecordSkipped(p) PROVE ClerkTypes'
  BY <1>0, <1>10 DEF RecordSkipped, CampaignGoto, wordingVars, subscriberVars, ClerkTypes, ClerkLabels,
     Wordings
<1>11. ASSUME NEW p \in Clerks, CountRemaining(p) PROVE ClerkTypes'
  BY <1>0, <1>11 DEF CountRemaining, CampaignGoto, wordingVars, subscriberVars, deliveryVars, ClerkTypes,
     ClerkLabels, Wordings, Subscribed, StillNeedsAttempt
<1>12. ASSUME NEW p \in Clerks, FinishRound(p) PROVE ClerkTypes'
  BY <1>0, <1>12 DEF FinishRound, Quit, Leave, wordingVars, subscriberVars, deliveryVars, ClerkTypes,
     ClerkLabels, Wordings
<1>13. ASSUME NEW words \in Wordings, CreateCampaign(words) PROVE ClerkTypes'
  BY <1>0, <1>13 DEF CreateCampaign, subscriberVars, deliveryVars, clerkVars, ClerkTypes, ClerkLabels,
     Wordings
<1>14. ASSUME NEW p \in Clerks, NEW words \in Wordings, StartUpdate(p, words) PROVE ClerkTypes'
  BY <1>0, <1>14 DEF StartUpdate, CampaignGoto, wordingVars, subscriberVars, deliveryVars, ClerkTypes,
     ClerkLabels, Wordings
<1>15. ASSUME NEW p \in Clerks, UpdateCampaign(p) PROVE ClerkTypes'
  BY <1>0, <1>15 DEF UpdateCampaign, Quit, Leave, subscriberVars, deliveryVars, ClerkTypes, ClerkLabels,
     Wordings
<1>16. ASSUME NEW p \in Clerks, StartDelete(p) PROVE ClerkTypes'
  BY <1>0, <1>16 DEF StartDelete, CampaignGoto, wordingVars, subscriberVars, deliveryVars, ClerkTypes,
     ClerkLabels, Wordings
<1>17. ASSUME NEW p \in Clerks, DeleteCampaign(p) PROVE ClerkTypes'
  BY <1>0, <1>17 DEF DeleteCampaign, Quit, Leave, wordingVars, subscriberVars, ClerkTypes, ClerkLabels,
     Wordings
<1>18. ASSUME NEW s \in Subscribers, Subscribe(s) PROVE ClerkTypes'
  BY <1>0, <1>18 DEF Subscribe, wordingVars, deliveryVars, clerkVars, ClerkTypes, ClerkLabels, Wordings
<1>19. ASSUME NEW s \in Subscribers, UnsubscribeCustomer(s) PROVE ClerkTypes'
  BY <1>0, <1>19 DEF UnsubscribeCustomer, wordingVars, deliveryVars, clerkVars, ClerkTypes, ClerkLabels,
     Wordings
<1>20. ASSUME NEW s \in Subscribers, DeleteSubscriber(s) PROVE ClerkTypes'
  BY <1>0, <1>20 DEF DeleteSubscriber, wordingVars, clerkVars, ClerkTypes, ClerkLabels, Wordings
<1>21. ASSUME NEW p \in Clerks, NEW pasted \in SUBSET Subscribers, StartImport(p, pasted) PROVE ClerkTypes'
  BY <1>0, <1>21 DEF StartImport, CampaignGoto, wordingVars, subscriberVars, deliveryVars, ClerkTypes,
     ClerkLabels, Wordings
<1>22. ASSUME NEW p \in Clerks, CreateSubscribers(p) PROVE ClerkTypes'
  BY <1>0, <1>22 DEF CreateSubscribers, Quit, Leave, wordingVars, deliveryVars, ClerkTypes, ClerkLabels,
     Wordings
<1>23. ASSUME NEW p \in Clerks, ClerkDies(p) PROVE ClerkTypes'
  BY <1>0, <1>23 DEF ClerkDies, Quit, wordingVars, subscriberVars, deliveryVars, ClerkTypes, ClerkLabels,
     Wordings
<1>24. CASE UNCHANGED campaignVars
  BY <1>0, <1>24 DEF campaignVars, wordingVars, subscriberVars, deliveryVars, clerkVars, ClerkTypes,
     ClerkLabels, Wordings
<1> QED
  BY <1>1, <1>2, <1>3, <1>4, <1>5, <1>6, <1>7, <1>8, <1>9, <1>10, <1>11, <1>12, <1>13, <1>14, <1>15, <1>16,
     <1>17, <1>18, <1>19, <1>20, <1>21, <1>22, <1>23, <1>24 DEF CampaignNext, ClerkStep

LEMMA CampaignCountTypesNext ==
  ASSUME CampaignInv, [CampaignNext]_campaignVars
  PROVE  CountTypes'
<1>0. ClerkTypes /\ CountTypes
  BY DEF CampaignInv, CampaignTypes
<1>1. ASSUME NEW p \in Clerks, StartCampaign(p) PROVE CountTypes'
  BY <1>0, <1>1 DEF StartCampaign, CampaignGoto, wordingVars, subscriberVars, deliveryVars, CountTypes,
     ClerkTypes
<1>2. ASSUME NEW p \in Clerks, OwnCampaign(p) PROVE CountTypes'
  BY <1>0, <1>2 DEF OwnCampaign, CampaignGoto, wordingVars, deliveryVars, CountTypes, ClerkTypes
<1>3. ASSUME NEW p \in Clerks, AlreadyOwned(p) PROVE CountTypes'
  BY <1>0, <1>3 DEF AlreadyOwned, Quit, Leave, wordingVars, subscriberVars, deliveryVars, CountTypes,
     ClerkTypes
<1>4. ASSUME NEW p \in Clerks, ReadBatch(p) PROVE CountTypes'
  BY <1>0, <1>4 DEF ReadBatch, CampaignGoto, wordingVars, subscriberVars, deliveryVars, CountTypes, ClerkTypes
<1>5. ASSUME NEW p \in Clerks, NEW s \in Subscribers, ClaimSubscriber(p, s) PROVE CountTypes'
  BY <1>0, <1>5 DEF ClaimSubscriber, CampaignGoto, wordingVars, subscriberVars, CountTypes, ClerkTypes
<1>6. ASSUME NEW p \in Clerks, NEW s \in Subscribers, AttemptedByAnother(p, s) PROVE CountTypes'
  BY <1>0, <1>6 DEF AttemptedByAnother, wordingVars, subscriberVars, deliveryVars, CountTypes, ClerkTypes
<1>7. ASSUME NEW p \in Clerks, TargetVanished(p) PROVE CountTypes'
  BY <1>0, <1>7 DEF TargetVanished, Quit, Leave, wordingVars, subscriberVars, deliveryVars, CountTypes,
     ClerkTypes
<1>8. ASSUME NEW p \in Clerks, SendCampaign(p) PROVE CountTypes'
  BY <1>0, <1>8 DEF SendCampaign, CampaignGoto, subscriberVars, CountTypes, ClerkTypes
<1>9. ASSUME NEW p \in Clerks, RecordAttempt(p) PROVE CountTypes'
  BY <1>0, <1>9 DEF RecordAttempt, CampaignGoto, wordingVars, subscriberVars, CountTypes, ClerkTypes
<1>10. ASSUME NEW p \in Clerks, RecordSkipped(p) PROVE CountTypes'
  BY <1>0, <1>10 DEF RecordSkipped, CampaignGoto, wordingVars, subscriberVars, CountTypes, ClerkTypes
<1>11. ASSUME NEW p \in Clerks, CountRemaining(p) PROVE CountTypes'
  BY <1>0, <1>11 DEF CountRemaining, CampaignGoto, wordingVars, subscriberVars, deliveryVars, CountTypes,
     ClerkTypes
<1>12. ASSUME NEW p \in Clerks, FinishRound(p) PROVE CountTypes'
  BY <1>0, <1>12 DEF FinishRound, Quit, Leave, wordingVars, subscriberVars, deliveryVars, CountTypes,
     ClerkTypes
<1>13. ASSUME NEW words \in Wordings, CreateCampaign(words) PROVE CountTypes'
  BY <1>0, <1>13 DEF CreateCampaign, subscriberVars, deliveryVars, clerkVars, CountTypes, ClerkTypes
<1>14. ASSUME NEW p \in Clerks, NEW words \in Wordings, StartUpdate(p, words) PROVE CountTypes'
  BY <1>0, <1>14 DEF StartUpdate, CampaignGoto, wordingVars, subscriberVars, deliveryVars, CountTypes,
     ClerkTypes
<1>15. ASSUME NEW p \in Clerks, UpdateCampaign(p) PROVE CountTypes'
  BY <1>0, <1>15 DEF UpdateCampaign, Quit, Leave, subscriberVars, deliveryVars, CountTypes, ClerkTypes
<1>16. ASSUME NEW p \in Clerks, StartDelete(p) PROVE CountTypes'
  BY <1>0, <1>16 DEF StartDelete, CampaignGoto, wordingVars, subscriberVars, deliveryVars, CountTypes,
     ClerkTypes
<1>17. ASSUME NEW p \in Clerks, DeleteCampaign(p) PROVE CountTypes'
  BY <1>0, <1>17 DEF DeleteCampaign, Quit, Leave, wordingVars, subscriberVars, CountTypes, ClerkTypes
<1>18. ASSUME NEW s \in Subscribers, Subscribe(s) PROVE CountTypes'
  BY <1>0, <1>18 DEF Subscribe, wordingVars, deliveryVars, clerkVars, CountTypes, ClerkTypes
<1>19. ASSUME NEW s \in Subscribers, UnsubscribeCustomer(s) PROVE CountTypes'
  BY <1>0, <1>19 DEF UnsubscribeCustomer, wordingVars, deliveryVars, clerkVars, CountTypes, ClerkTypes
<1>20. ASSUME NEW s \in Subscribers, DeleteSubscriber(s) PROVE CountTypes'
  BY <1>0, <1>20 DEF DeleteSubscriber, wordingVars, clerkVars, CountTypes, ClerkTypes
<1>21. ASSUME NEW p \in Clerks, NEW pasted \in SUBSET Subscribers, StartImport(p, pasted) PROVE CountTypes'
  BY <1>0, <1>21 DEF StartImport, CampaignGoto, wordingVars, subscriberVars, deliveryVars, CountTypes,
     ClerkTypes
<1>22. ASSUME NEW p \in Clerks, CreateSubscribers(p) PROVE CountTypes'
  BY <1>0, <1>22 DEF CreateSubscribers, Quit, Leave, wordingVars, deliveryVars, CountTypes, ClerkTypes
<1>23. ASSUME NEW p \in Clerks, ClerkDies(p) PROVE CountTypes'
  BY <1>0, <1>23 DEF ClerkDies, Quit, wordingVars, subscriberVars, deliveryVars, CountTypes, ClerkTypes
<1>24. CASE UNCHANGED campaignVars
  BY <1>0, <1>24 DEF campaignVars, wordingVars, subscriberVars, deliveryVars, clerkVars, CountTypes,
     ClerkTypes
<1> QED
  BY <1>1, <1>2, <1>3, <1>4, <1>5, <1>6, <1>7, <1>8, <1>9, <1>10, <1>11, <1>12, <1>13, <1>14, <1>15, <1>16,
     <1>17, <1>18, <1>19, <1>20, <1>21, <1>22, <1>23, <1>24 DEF CampaignNext, ClerkStep

\* A subscriber is claimed only when nobody holds it.
LEMMA CampaignHoldersNext ==
  ASSUME CampaignInv, [CampaignNext]_campaignVars
  PROVE  PendingIsHeld' /\ HeldByOne'
<1>0. DraftTypes /\ PeopleTypes /\ DeliveryTypes /\ ClerkTypes /\ PendingIsHeld /\ HeldByOne
  BY DEF CampaignInv, CampaignTypes
<1>1. ASSUME NEW p \in Clerks, StartCampaign(p) PROVE PendingIsHeld' /\ HeldByOne'
  BY <1>0, <1>1 DEF StartCampaign, CampaignGoto, wordingVars, subscriberVars, deliveryVars, DraftTypes,
     PeopleTypes, DeliveryTypes, ClerkTypes, PendingIsHeld, HeldByOne
<1>2. ASSUME NEW p \in Clerks, OwnCampaign(p) PROVE PendingIsHeld' /\ HeldByOne'
  BY <1>0, <1>2 DEF OwnCampaign, CampaignGoto, wordingVars, deliveryVars, DraftTypes, PeopleTypes,
     DeliveryTypes, ClerkTypes, PendingIsHeld, HeldByOne
<1>3. ASSUME NEW p \in Clerks, AlreadyOwned(p) PROVE PendingIsHeld' /\ HeldByOne'
  BY <1>0, <1>3 DEF AlreadyOwned, Quit, Leave, wordingVars, subscriberVars, deliveryVars, DraftTypes,
     PeopleTypes, DeliveryTypes, ClerkTypes, PendingIsHeld, HeldByOne
<1>4. ASSUME NEW p \in Clerks, ReadBatch(p) PROVE PendingIsHeld' /\ HeldByOne'
  BY <1>0, <1>4 DEF ReadBatch, CampaignGoto, wordingVars, subscriberVars, deliveryVars, DraftTypes,
     PeopleTypes, DeliveryTypes, ClerkTypes, PendingIsHeld, HeldByOne
<1>5. ASSUME NEW p \in Clerks, NEW s \in Subscribers, ClaimSubscriber(p, s) PROVE PendingIsHeld' /\ HeldByOne'
  BY <1>0, <1>5 DEF ClaimSubscriber, CampaignGoto, wordingVars, subscriberVars, DraftTypes, PeopleTypes,
     DeliveryTypes, ClerkTypes, PendingIsHeld, HeldByOne
<1>6. ASSUME NEW p \in Clerks, NEW s \in Subscribers, AttemptedByAnother(p, s) PROVE PendingIsHeld' /\ HeldByOne'
  BY <1>0, <1>6 DEF AttemptedByAnother, wordingVars, subscriberVars, deliveryVars, DraftTypes, PeopleTypes,
     DeliveryTypes, ClerkTypes, PendingIsHeld, HeldByOne
<1>7. ASSUME NEW p \in Clerks, TargetVanished(p) PROVE PendingIsHeld' /\ HeldByOne'
  BY <1>0, <1>7 DEF TargetVanished, Quit, Leave, wordingVars, subscriberVars, deliveryVars, DraftTypes,
     PeopleTypes, DeliveryTypes, ClerkTypes, PendingIsHeld, HeldByOne
<1>8. ASSUME NEW p \in Clerks, SendCampaign(p) PROVE PendingIsHeld' /\ HeldByOne'
  BY <1>0, <1>8 DEF SendCampaign, CampaignGoto, subscriberVars, DraftTypes, PeopleTypes, DeliveryTypes,
     ClerkTypes, PendingIsHeld, HeldByOne
<1>9. ASSUME NEW p \in Clerks, RecordAttempt(p) PROVE PendingIsHeld' /\ HeldByOne'
  BY <1>0, <1>9 DEF RecordAttempt, CampaignGoto, wordingVars, subscriberVars, DraftTypes, PeopleTypes,
     DeliveryTypes, ClerkTypes, PendingIsHeld, HeldByOne
<1>10. ASSUME NEW p \in Clerks, RecordSkipped(p) PROVE PendingIsHeld' /\ HeldByOne'
  BY <1>0, <1>10 DEF RecordSkipped, CampaignGoto, wordingVars, subscriberVars, DraftTypes, PeopleTypes,
     DeliveryTypes, ClerkTypes, PendingIsHeld, HeldByOne
<1>11. ASSUME NEW p \in Clerks, CountRemaining(p) PROVE PendingIsHeld' /\ HeldByOne'
  BY <1>0, <1>11 DEF CountRemaining, CampaignGoto, wordingVars, subscriberVars, deliveryVars, DraftTypes,
     PeopleTypes, DeliveryTypes, ClerkTypes, PendingIsHeld, HeldByOne
<1>12. ASSUME NEW p \in Clerks, FinishRound(p) PROVE PendingIsHeld' /\ HeldByOne'
  BY <1>0, <1>12 DEF FinishRound, Quit, Leave, wordingVars, subscriberVars, deliveryVars, DraftTypes,
     PeopleTypes, DeliveryTypes, ClerkTypes, PendingIsHeld, HeldByOne
<1>13. ASSUME NEW words \in Wordings, CreateCampaign(words) PROVE PendingIsHeld' /\ HeldByOne'
  BY <1>0, <1>13 DEF CreateCampaign, subscriberVars, deliveryVars, clerkVars, DraftTypes, PeopleTypes,
     DeliveryTypes, ClerkTypes, PendingIsHeld, HeldByOne
<1>14. ASSUME NEW p \in Clerks, NEW words \in Wordings, StartUpdate(p, words) PROVE PendingIsHeld' /\ HeldByOne'
  BY <1>0, <1>14 DEF StartUpdate, CampaignGoto, wordingVars, subscriberVars, deliveryVars, DraftTypes,
     PeopleTypes, DeliveryTypes, ClerkTypes, PendingIsHeld, HeldByOne
<1>15. ASSUME NEW p \in Clerks, UpdateCampaign(p) PROVE PendingIsHeld' /\ HeldByOne'
  BY <1>0, <1>15 DEF UpdateCampaign, Quit, Leave, subscriberVars, deliveryVars, DraftTypes, PeopleTypes,
     DeliveryTypes, ClerkTypes, PendingIsHeld, HeldByOne
<1>16. ASSUME NEW p \in Clerks, StartDelete(p) PROVE PendingIsHeld' /\ HeldByOne'
  BY <1>0, <1>16 DEF StartDelete, CampaignGoto, wordingVars, subscriberVars, deliveryVars, DraftTypes,
     PeopleTypes, DeliveryTypes, ClerkTypes, PendingIsHeld, HeldByOne
<1>17. ASSUME NEW p \in Clerks, DeleteCampaign(p) PROVE PendingIsHeld' /\ HeldByOne'
  BY <1>0, <1>17 DEF DeleteCampaign, Quit, Leave, wordingVars, subscriberVars, DraftTypes, PeopleTypes,
     DeliveryTypes, ClerkTypes, PendingIsHeld, HeldByOne
<1>18. ASSUME NEW s \in Subscribers, Subscribe(s) PROVE PendingIsHeld' /\ HeldByOne'
  BY <1>0, <1>18 DEF Subscribe, wordingVars, deliveryVars, clerkVars, DraftTypes, PeopleTypes,
     DeliveryTypes, ClerkTypes, PendingIsHeld, HeldByOne
<1>19. ASSUME NEW s \in Subscribers, UnsubscribeCustomer(s) PROVE PendingIsHeld' /\ HeldByOne'
  BY <1>0, <1>19 DEF UnsubscribeCustomer, wordingVars, deliveryVars, clerkVars, DraftTypes, PeopleTypes,
     DeliveryTypes, ClerkTypes, PendingIsHeld, HeldByOne
<1>20. ASSUME NEW s \in Subscribers, DeleteSubscriber(s) PROVE PendingIsHeld' /\ HeldByOne'
  BY <1>0, <1>20 DEF DeleteSubscriber, wordingVars, clerkVars, DraftTypes, PeopleTypes, DeliveryTypes,
     ClerkTypes, PendingIsHeld, HeldByOne
<1>21. ASSUME NEW p \in Clerks, NEW pasted \in SUBSET Subscribers, StartImport(p, pasted) PROVE PendingIsHeld' /\ HeldByOne'
  BY <1>0, <1>21 DEF StartImport, CampaignGoto, wordingVars, subscriberVars, deliveryVars, DraftTypes,
     PeopleTypes, DeliveryTypes, ClerkTypes, PendingIsHeld, HeldByOne
<1>22. ASSUME NEW p \in Clerks, CreateSubscribers(p) PROVE PendingIsHeld' /\ HeldByOne'
  BY <1>0, <1>22 DEF CreateSubscribers, Quit, Leave, wordingVars, deliveryVars, DraftTypes, PeopleTypes,
     DeliveryTypes, ClerkTypes, PendingIsHeld, HeldByOne
<1>23. ASSUME NEW p \in Clerks, ClerkDies(p) PROVE PendingIsHeld' /\ HeldByOne'
  BY <1>0, <1>23 DEF ClerkDies, Quit, wordingVars, subscriberVars, deliveryVars, DraftTypes, PeopleTypes,
     DeliveryTypes, ClerkTypes, PendingIsHeld, HeldByOne
<1>24. CASE UNCHANGED campaignVars
  BY <1>0, <1>24 DEF campaignVars, wordingVars, subscriberVars, deliveryVars, clerkVars, DraftTypes,
     PeopleTypes, DeliveryTypes, ClerkTypes, PendingIsHeld, HeldByOne
<1> QED
  BY <1>1, <1>2, <1>3, <1>4, <1>5, <1>6, <1>7, <1>8, <1>9, <1>10, <1>11, <1>12, <1>13, <1>14, <1>15, <1>16,
     <1>17, <1>18, <1>19, <1>20, <1>21, <1>22, <1>23, <1>24 DEF CampaignNext, ClerkStep

\* The one who holds a subscriber mails it once, and is told so unless it is unsure.
LEMMA CampaignUnsentNext ==
  ASSUME CampaignInv, [CampaignNext]_campaignVars
  PROVE  NotYetMailed' /\ OneDelivery'
<1>0. /\ DraftTypes /\ PeopleTypes /\ DeliveryTypes /\ ClerkTypes /\ PendingIsHeld /\ HeldByOne
      /\ NotYetMailed /\ OneDelivery
  BY DEF CampaignInv, CampaignTypes
<1>1. ASSUME NEW p \in Clerks, StartCampaign(p) PROVE NotYetMailed' /\ OneDelivery'
  BY <1>0, <1>1 DEF StartCampaign, CampaignGoto, wordingVars, subscriberVars, deliveryVars, DraftTypes,
     PeopleTypes, DeliveryTypes, ClerkTypes, PendingIsHeld, HeldByOne, NotYetMailed, OneDelivery
<1>2. ASSUME NEW p \in Clerks, OwnCampaign(p) PROVE NotYetMailed' /\ OneDelivery'
  BY <1>0, <1>2 DEF OwnCampaign, CampaignGoto, wordingVars, deliveryVars, DraftTypes, PeopleTypes,
     DeliveryTypes, ClerkTypes, PendingIsHeld, HeldByOne, NotYetMailed, OneDelivery
<1>3. ASSUME NEW p \in Clerks, AlreadyOwned(p) PROVE NotYetMailed' /\ OneDelivery'
  BY <1>0, <1>3 DEF AlreadyOwned, Quit, Leave, wordingVars, subscriberVars, deliveryVars, DraftTypes,
     PeopleTypes, DeliveryTypes, ClerkTypes, PendingIsHeld, HeldByOne, NotYetMailed, OneDelivery
<1>4. ASSUME NEW p \in Clerks, ReadBatch(p) PROVE NotYetMailed' /\ OneDelivery'
  BY <1>0, <1>4 DEF ReadBatch, CampaignGoto, wordingVars, subscriberVars, deliveryVars, DraftTypes,
     PeopleTypes, DeliveryTypes, ClerkTypes, PendingIsHeld, HeldByOne, NotYetMailed, OneDelivery
<1>5. ASSUME NEW p \in Clerks, NEW s \in Subscribers, ClaimSubscriber(p, s) PROVE NotYetMailed' /\ OneDelivery'
  BY <1>0, <1>5 DEF ClaimSubscriber, CampaignGoto, wordingVars, subscriberVars, DraftTypes, PeopleTypes,
     DeliveryTypes, ClerkTypes, PendingIsHeld, HeldByOne, NotYetMailed, OneDelivery
<1>6. ASSUME NEW p \in Clerks, NEW s \in Subscribers, AttemptedByAnother(p, s) PROVE NotYetMailed' /\ OneDelivery'
  BY <1>0, <1>6 DEF AttemptedByAnother, wordingVars, subscriberVars, deliveryVars, DraftTypes, PeopleTypes,
     DeliveryTypes, ClerkTypes, PendingIsHeld, HeldByOne, NotYetMailed, OneDelivery
<1>7. ASSUME NEW p \in Clerks, TargetVanished(p) PROVE NotYetMailed' /\ OneDelivery'
  BY <1>0, <1>7 DEF TargetVanished, Quit, Leave, wordingVars, subscriberVars, deliveryVars, DraftTypes,
     PeopleTypes, DeliveryTypes, ClerkTypes, PendingIsHeld, HeldByOne, NotYetMailed, OneDelivery
<1>8. ASSUME NEW p \in Clerks, SendCampaign(p) PROVE NotYetMailed' /\ OneDelivery'
  BY <1>0, <1>8 DEF SendCampaign, CampaignGoto, subscriberVars, DraftTypes, PeopleTypes, DeliveryTypes,
     ClerkTypes, PendingIsHeld, HeldByOne, NotYetMailed, OneDelivery
<1>9. ASSUME NEW p \in Clerks, RecordAttempt(p) PROVE NotYetMailed' /\ OneDelivery'
  BY <1>0, <1>9 DEF RecordAttempt, CampaignGoto, wordingVars, subscriberVars, DraftTypes, PeopleTypes,
     DeliveryTypes, ClerkTypes, PendingIsHeld, HeldByOne, NotYetMailed, OneDelivery
<1>10. ASSUME NEW p \in Clerks, RecordSkipped(p) PROVE NotYetMailed' /\ OneDelivery'
  BY <1>0, <1>10 DEF RecordSkipped, CampaignGoto, wordingVars, subscriberVars, DraftTypes, PeopleTypes,
     DeliveryTypes, ClerkTypes, PendingIsHeld, HeldByOne, NotYetMailed, OneDelivery
<1>11. ASSUME NEW p \in Clerks, CountRemaining(p) PROVE NotYetMailed' /\ OneDelivery'
  BY <1>0, <1>11 DEF CountRemaining, CampaignGoto, wordingVars, subscriberVars, deliveryVars, DraftTypes,
     PeopleTypes, DeliveryTypes, ClerkTypes, PendingIsHeld, HeldByOne, NotYetMailed, OneDelivery
<1>12. ASSUME NEW p \in Clerks, FinishRound(p) PROVE NotYetMailed' /\ OneDelivery'
  BY <1>0, <1>12 DEF FinishRound, Quit, Leave, wordingVars, subscriberVars, deliveryVars, DraftTypes,
     PeopleTypes, DeliveryTypes, ClerkTypes, PendingIsHeld, HeldByOne, NotYetMailed, OneDelivery
<1>13. ASSUME NEW words \in Wordings, CreateCampaign(words) PROVE NotYetMailed' /\ OneDelivery'
  BY <1>0, <1>13 DEF CreateCampaign, subscriberVars, deliveryVars, clerkVars, DraftTypes, PeopleTypes,
     DeliveryTypes, ClerkTypes, PendingIsHeld, HeldByOne, NotYetMailed, OneDelivery
<1>14. ASSUME NEW p \in Clerks, NEW words \in Wordings, StartUpdate(p, words) PROVE NotYetMailed' /\ OneDelivery'
  BY <1>0, <1>14 DEF StartUpdate, CampaignGoto, wordingVars, subscriberVars, deliveryVars, DraftTypes,
     PeopleTypes, DeliveryTypes, ClerkTypes, PendingIsHeld, HeldByOne, NotYetMailed, OneDelivery
<1>15. ASSUME NEW p \in Clerks, UpdateCampaign(p) PROVE NotYetMailed' /\ OneDelivery'
  BY <1>0, <1>15 DEF UpdateCampaign, Quit, Leave, subscriberVars, deliveryVars, DraftTypes, PeopleTypes,
     DeliveryTypes, ClerkTypes, PendingIsHeld, HeldByOne, NotYetMailed, OneDelivery
<1>16. ASSUME NEW p \in Clerks, StartDelete(p) PROVE NotYetMailed' /\ OneDelivery'
  BY <1>0, <1>16 DEF StartDelete, CampaignGoto, wordingVars, subscriberVars, deliveryVars, DraftTypes,
     PeopleTypes, DeliveryTypes, ClerkTypes, PendingIsHeld, HeldByOne, NotYetMailed, OneDelivery
<1>17. ASSUME NEW p \in Clerks, DeleteCampaign(p) PROVE NotYetMailed' /\ OneDelivery'
  BY <1>0, <1>17 DEF DeleteCampaign, Quit, Leave, wordingVars, subscriberVars, DraftTypes, PeopleTypes,
     DeliveryTypes, ClerkTypes, PendingIsHeld, HeldByOne, NotYetMailed, OneDelivery
<1>18. ASSUME NEW s \in Subscribers, Subscribe(s) PROVE NotYetMailed' /\ OneDelivery'
  BY <1>0, <1>18 DEF Subscribe, wordingVars, deliveryVars, clerkVars, DraftTypes, PeopleTypes,
     DeliveryTypes, ClerkTypes, PendingIsHeld, HeldByOne, NotYetMailed, OneDelivery
<1>19. ASSUME NEW s \in Subscribers, UnsubscribeCustomer(s) PROVE NotYetMailed' /\ OneDelivery'
  BY <1>0, <1>19 DEF UnsubscribeCustomer, wordingVars, deliveryVars, clerkVars, DraftTypes, PeopleTypes,
     DeliveryTypes, ClerkTypes, PendingIsHeld, HeldByOne, NotYetMailed, OneDelivery
<1>20. ASSUME NEW s \in Subscribers, DeleteSubscriber(s) PROVE NotYetMailed' /\ OneDelivery'
  BY <1>0, <1>20 DEF DeleteSubscriber, wordingVars, clerkVars, DraftTypes, PeopleTypes, DeliveryTypes,
     ClerkTypes, PendingIsHeld, HeldByOne, NotYetMailed, OneDelivery
<1>21. ASSUME NEW p \in Clerks, NEW pasted \in SUBSET Subscribers, StartImport(p, pasted) PROVE NotYetMailed' /\ OneDelivery'
  BY <1>0, <1>21 DEF StartImport, CampaignGoto, wordingVars, subscriberVars, deliveryVars, DraftTypes,
     PeopleTypes, DeliveryTypes, ClerkTypes, PendingIsHeld, HeldByOne, NotYetMailed, OneDelivery
<1>22. ASSUME NEW p \in Clerks, CreateSubscribers(p) PROVE NotYetMailed' /\ OneDelivery'
  BY <1>0, <1>22 DEF CreateSubscribers, Quit, Leave, wordingVars, deliveryVars, DraftTypes, PeopleTypes,
     DeliveryTypes, ClerkTypes, PendingIsHeld, HeldByOne, NotYetMailed, OneDelivery
<1>23. ASSUME NEW p \in Clerks, ClerkDies(p) PROVE NotYetMailed' /\ OneDelivery'
  BY <1>0, <1>23 DEF ClerkDies, Quit, wordingVars, subscriberVars, deliveryVars, DraftTypes, PeopleTypes,
     DeliveryTypes, ClerkTypes, PendingIsHeld, HeldByOne, NotYetMailed, OneDelivery
<1>24. CASE UNCHANGED campaignVars
  BY <1>0, <1>24 DEF campaignVars, wordingVars, subscriberVars, deliveryVars, clerkVars, DraftTypes,
     PeopleTypes, DeliveryTypes, ClerkTypes, PendingIsHeld, HeldByOne, NotYetMailed, OneDelivery
<1> QED
  BY <1>1, <1>2, <1>3, <1>4, <1>5, <1>6, <1>7, <1>8, <1>9, <1>10, <1>11, <1>12, <1>13, <1>14, <1>15, <1>16,
     <1>17, <1>18, <1>19, <1>20, <1>21, <1>22, <1>23, <1>24 DEF CampaignNext, ClerkStep

\* SENT is written after the mail.
LEMMA CampaignSentNext ==
  ASSUME CampaignInv, [CampaignNext]_campaignVars
  PROVE  SentWasMailed'
<1>0. DraftTypes /\ PeopleTypes /\ DeliveryTypes /\ ClerkTypes /\ PendingIsHeld /\ HeldByOne /\ SentWasMailed
  BY DEF CampaignInv, CampaignTypes
<1>1. ASSUME NEW p \in Clerks, StartCampaign(p) PROVE SentWasMailed'
  BY <1>0, <1>1 DEF StartCampaign, CampaignGoto, wordingVars, subscriberVars, deliveryVars, DraftTypes,
     PeopleTypes, DeliveryTypes, ClerkTypes, PendingIsHeld, HeldByOne, SentWasMailed
<1>2. ASSUME NEW p \in Clerks, OwnCampaign(p) PROVE SentWasMailed'
  BY <1>0, <1>2 DEF OwnCampaign, CampaignGoto, wordingVars, deliveryVars, DraftTypes, PeopleTypes,
     DeliveryTypes, ClerkTypes, PendingIsHeld, HeldByOne, SentWasMailed
<1>3. ASSUME NEW p \in Clerks, AlreadyOwned(p) PROVE SentWasMailed'
  BY <1>0, <1>3 DEF AlreadyOwned, Quit, Leave, wordingVars, subscriberVars, deliveryVars, DraftTypes,
     PeopleTypes, DeliveryTypes, ClerkTypes, PendingIsHeld, HeldByOne, SentWasMailed
<1>4. ASSUME NEW p \in Clerks, ReadBatch(p) PROVE SentWasMailed'
  BY <1>0, <1>4 DEF ReadBatch, CampaignGoto, wordingVars, subscriberVars, deliveryVars, DraftTypes,
     PeopleTypes, DeliveryTypes, ClerkTypes, PendingIsHeld, HeldByOne, SentWasMailed
<1>5. ASSUME NEW p \in Clerks, NEW s \in Subscribers, ClaimSubscriber(p, s) PROVE SentWasMailed'
  BY <1>0, <1>5 DEF ClaimSubscriber, CampaignGoto, wordingVars, subscriberVars, DraftTypes, PeopleTypes,
     DeliveryTypes, ClerkTypes, PendingIsHeld, HeldByOne, SentWasMailed
<1>6. ASSUME NEW p \in Clerks, NEW s \in Subscribers, AttemptedByAnother(p, s) PROVE SentWasMailed'
  BY <1>0, <1>6 DEF AttemptedByAnother, wordingVars, subscriberVars, deliveryVars, DraftTypes, PeopleTypes,
     DeliveryTypes, ClerkTypes, PendingIsHeld, HeldByOne, SentWasMailed
<1>7. ASSUME NEW p \in Clerks, TargetVanished(p) PROVE SentWasMailed'
  BY <1>0, <1>7 DEF TargetVanished, Quit, Leave, wordingVars, subscriberVars, deliveryVars, DraftTypes,
     PeopleTypes, DeliveryTypes, ClerkTypes, PendingIsHeld, HeldByOne, SentWasMailed
<1>8. ASSUME NEW p \in Clerks, SendCampaign(p) PROVE SentWasMailed'
  BY <1>0, <1>8 DEF SendCampaign, CampaignGoto, subscriberVars, DraftTypes, PeopleTypes, DeliveryTypes,
     ClerkTypes, PendingIsHeld, HeldByOne, SentWasMailed
<1>9. ASSUME NEW p \in Clerks, RecordAttempt(p) PROVE SentWasMailed'
  BY <1>0, <1>9 DEF RecordAttempt, CampaignGoto, wordingVars, subscriberVars, DraftTypes, PeopleTypes,
     DeliveryTypes, ClerkTypes, PendingIsHeld, HeldByOne, SentWasMailed
<1>10. ASSUME NEW p \in Clerks, RecordSkipped(p) PROVE SentWasMailed'
  BY <1>0, <1>10 DEF RecordSkipped, CampaignGoto, wordingVars, subscriberVars, DraftTypes, PeopleTypes,
     DeliveryTypes, ClerkTypes, PendingIsHeld, HeldByOne, SentWasMailed
<1>11. ASSUME NEW p \in Clerks, CountRemaining(p) PROVE SentWasMailed'
  BY <1>0, <1>11 DEF CountRemaining, CampaignGoto, wordingVars, subscriberVars, deliveryVars, DraftTypes,
     PeopleTypes, DeliveryTypes, ClerkTypes, PendingIsHeld, HeldByOne, SentWasMailed
<1>12. ASSUME NEW p \in Clerks, FinishRound(p) PROVE SentWasMailed'
  BY <1>0, <1>12 DEF FinishRound, Quit, Leave, wordingVars, subscriberVars, deliveryVars, DraftTypes,
     PeopleTypes, DeliveryTypes, ClerkTypes, PendingIsHeld, HeldByOne, SentWasMailed
<1>13. ASSUME NEW words \in Wordings, CreateCampaign(words) PROVE SentWasMailed'
  BY <1>0, <1>13 DEF CreateCampaign, subscriberVars, deliveryVars, clerkVars, DraftTypes, PeopleTypes,
     DeliveryTypes, ClerkTypes, PendingIsHeld, HeldByOne, SentWasMailed
<1>14. ASSUME NEW p \in Clerks, NEW words \in Wordings, StartUpdate(p, words) PROVE SentWasMailed'
  BY <1>0, <1>14 DEF StartUpdate, CampaignGoto, wordingVars, subscriberVars, deliveryVars, DraftTypes,
     PeopleTypes, DeliveryTypes, ClerkTypes, PendingIsHeld, HeldByOne, SentWasMailed
<1>15. ASSUME NEW p \in Clerks, UpdateCampaign(p) PROVE SentWasMailed'
  BY <1>0, <1>15 DEF UpdateCampaign, Quit, Leave, subscriberVars, deliveryVars, DraftTypes, PeopleTypes,
     DeliveryTypes, ClerkTypes, PendingIsHeld, HeldByOne, SentWasMailed
<1>16. ASSUME NEW p \in Clerks, StartDelete(p) PROVE SentWasMailed'
  BY <1>0, <1>16 DEF StartDelete, CampaignGoto, wordingVars, subscriberVars, deliveryVars, DraftTypes,
     PeopleTypes, DeliveryTypes, ClerkTypes, PendingIsHeld, HeldByOne, SentWasMailed
<1>17. ASSUME NEW p \in Clerks, DeleteCampaign(p) PROVE SentWasMailed'
  BY <1>0, <1>17 DEF DeleteCampaign, Quit, Leave, wordingVars, subscriberVars, DraftTypes, PeopleTypes,
     DeliveryTypes, ClerkTypes, PendingIsHeld, HeldByOne, SentWasMailed
<1>18. ASSUME NEW s \in Subscribers, Subscribe(s) PROVE SentWasMailed'
  BY <1>0, <1>18 DEF Subscribe, wordingVars, deliveryVars, clerkVars, DraftTypes, PeopleTypes,
     DeliveryTypes, ClerkTypes, PendingIsHeld, HeldByOne, SentWasMailed
<1>19. ASSUME NEW s \in Subscribers, UnsubscribeCustomer(s) PROVE SentWasMailed'
  BY <1>0, <1>19 DEF UnsubscribeCustomer, wordingVars, deliveryVars, clerkVars, DraftTypes, PeopleTypes,
     DeliveryTypes, ClerkTypes, PendingIsHeld, HeldByOne, SentWasMailed
<1>20. ASSUME NEW s \in Subscribers, DeleteSubscriber(s) PROVE SentWasMailed'
  BY <1>0, <1>20 DEF DeleteSubscriber, wordingVars, clerkVars, DraftTypes, PeopleTypes, DeliveryTypes,
     ClerkTypes, PendingIsHeld, HeldByOne, SentWasMailed
<1>21. ASSUME NEW p \in Clerks, NEW pasted \in SUBSET Subscribers, StartImport(p, pasted) PROVE SentWasMailed'
  BY <1>0, <1>21 DEF StartImport, CampaignGoto, wordingVars, subscriberVars, deliveryVars, DraftTypes,
     PeopleTypes, DeliveryTypes, ClerkTypes, PendingIsHeld, HeldByOne, SentWasMailed
<1>22. ASSUME NEW p \in Clerks, CreateSubscribers(p) PROVE SentWasMailed'
  BY <1>0, <1>22 DEF CreateSubscribers, Quit, Leave, wordingVars, deliveryVars, DraftTypes, PeopleTypes,
     DeliveryTypes, ClerkTypes, PendingIsHeld, HeldByOne, SentWasMailed
<1>23. ASSUME NEW p \in Clerks, ClerkDies(p) PROVE SentWasMailed'
  BY <1>0, <1>23 DEF ClerkDies, Quit, wordingVars, subscriberVars, deliveryVars, DraftTypes, PeopleTypes,
     DeliveryTypes, ClerkTypes, PendingIsHeld, HeldByOne, SentWasMailed
<1>24. CASE UNCHANGED campaignVars
  BY <1>0, <1>24 DEF campaignVars, wordingVars, subscriberVars, deliveryVars, clerkVars, DraftTypes,
     PeopleTypes, DeliveryTypes, ClerkTypes, PendingIsHeld, HeldByOne, SentWasMailed
<1> QED
  BY <1>1, <1>2, <1>3, <1>4, <1>5, <1>6, <1>7, <1>8, <1>9, <1>10, <1>11, <1>12, <1>13, <1>14, <1>15, <1>16,
     <1>17, <1>18, <1>19, <1>20, <1>21, <1>22, <1>23, <1>24 DEF CampaignNext, ClerkStep

\* A campaign that was started is never a draft again.
LEMMA CampaignStartedNext ==
  ASSUME CampaignInv, [CampaignNext]_campaignVars
  PROVE  WorkIsStarted'
<1>0. DraftTypes /\ ClerkTypes /\ WorkIsStarted
  BY DEF CampaignInv, CampaignTypes
<1>1. ASSUME NEW p \in Clerks, StartCampaign(p) PROVE WorkIsStarted'
  BY <1>0, <1>1 DEF StartCampaign, CampaignGoto, wordingVars, subscriberVars, deliveryVars, DraftTypes,
     ClerkTypes, WorkIsStarted, Started
<1>2. ASSUME NEW p \in Clerks, OwnCampaign(p) PROVE WorkIsStarted'
  BY <1>0, <1>2 DEF OwnCampaign, CampaignGoto, wordingVars, deliveryVars, DraftTypes, ClerkTypes,
     WorkIsStarted, Started
<1>3. ASSUME NEW p \in Clerks, AlreadyOwned(p) PROVE WorkIsStarted'
  BY <1>0, <1>3 DEF AlreadyOwned, Quit, Leave, wordingVars, subscriberVars, deliveryVars, DraftTypes,
     ClerkTypes, WorkIsStarted, Started
<1>4. ASSUME NEW p \in Clerks, ReadBatch(p) PROVE WorkIsStarted'
  BY <1>0, <1>4 DEF ReadBatch, CampaignGoto, wordingVars, subscriberVars, deliveryVars, DraftTypes,
     ClerkTypes, WorkIsStarted, Started
<1>5. ASSUME NEW p \in Clerks, NEW s \in Subscribers, ClaimSubscriber(p, s) PROVE WorkIsStarted'
  BY <1>0, <1>5 DEF ClaimSubscriber, CampaignGoto, wordingVars, subscriberVars, DraftTypes, ClerkTypes,
     WorkIsStarted, Started
<1>6. ASSUME NEW p \in Clerks, NEW s \in Subscribers, AttemptedByAnother(p, s) PROVE WorkIsStarted'
  BY <1>0, <1>6 DEF AttemptedByAnother, wordingVars, subscriberVars, deliveryVars, DraftTypes, ClerkTypes,
     WorkIsStarted, Started
<1>7. ASSUME NEW p \in Clerks, TargetVanished(p) PROVE WorkIsStarted'
  BY <1>0, <1>7 DEF TargetVanished, Quit, Leave, wordingVars, subscriberVars, deliveryVars, DraftTypes,
     ClerkTypes, WorkIsStarted, Started
<1>8. ASSUME NEW p \in Clerks, SendCampaign(p) PROVE WorkIsStarted'
  BY <1>0, <1>8 DEF SendCampaign, CampaignGoto, subscriberVars, DraftTypes, ClerkTypes, WorkIsStarted, Started
<1>9. ASSUME NEW p \in Clerks, RecordAttempt(p) PROVE WorkIsStarted'
  BY <1>0, <1>9 DEF RecordAttempt, CampaignGoto, wordingVars, subscriberVars, DraftTypes, ClerkTypes,
     WorkIsStarted, Started
<1>10. ASSUME NEW p \in Clerks, RecordSkipped(p) PROVE WorkIsStarted'
  BY <1>0, <1>10 DEF RecordSkipped, CampaignGoto, wordingVars, subscriberVars, DraftTypes, ClerkTypes,
     WorkIsStarted, Started
<1>11. ASSUME NEW p \in Clerks, CountRemaining(p) PROVE WorkIsStarted'
  BY <1>0, <1>11 DEF CountRemaining, CampaignGoto, wordingVars, subscriberVars, deliveryVars, DraftTypes,
     ClerkTypes, WorkIsStarted, Started
<1>12. ASSUME NEW p \in Clerks, FinishRound(p) PROVE WorkIsStarted'
  BY <1>0, <1>12 DEF FinishRound, Quit, Leave, wordingVars, subscriberVars, deliveryVars, DraftTypes,
     ClerkTypes, WorkIsStarted, Started
<1>13. ASSUME NEW words \in Wordings, CreateCampaign(words) PROVE WorkIsStarted'
  BY <1>0, <1>13 DEF CreateCampaign, subscriberVars, deliveryVars, clerkVars, DraftTypes, ClerkTypes,
     WorkIsStarted, Started
<1>14. ASSUME NEW p \in Clerks, NEW words \in Wordings, StartUpdate(p, words) PROVE WorkIsStarted'
  BY <1>0, <1>14 DEF StartUpdate, CampaignGoto, wordingVars, subscriberVars, deliveryVars, DraftTypes,
     ClerkTypes, WorkIsStarted, Started
<1>15. ASSUME NEW p \in Clerks, UpdateCampaign(p) PROVE WorkIsStarted'
  BY <1>0, <1>15 DEF UpdateCampaign, Quit, Leave, subscriberVars, deliveryVars, DraftTypes, ClerkTypes,
     WorkIsStarted, Started
<1>16. ASSUME NEW p \in Clerks, StartDelete(p) PROVE WorkIsStarted'
  BY <1>0, <1>16 DEF StartDelete, CampaignGoto, wordingVars, subscriberVars, deliveryVars, DraftTypes,
     ClerkTypes, WorkIsStarted, Started
<1>17. ASSUME NEW p \in Clerks, DeleteCampaign(p) PROVE WorkIsStarted'
  BY <1>0, <1>17 DEF DeleteCampaign, Quit, Leave, wordingVars, subscriberVars, DraftTypes, ClerkTypes,
     WorkIsStarted, Started
<1>18. ASSUME NEW s \in Subscribers, Subscribe(s) PROVE WorkIsStarted'
  BY <1>0, <1>18 DEF Subscribe, wordingVars, deliveryVars, clerkVars, DraftTypes, ClerkTypes, WorkIsStarted,
     Started
<1>19. ASSUME NEW s \in Subscribers, UnsubscribeCustomer(s) PROVE WorkIsStarted'
  BY <1>0, <1>19 DEF UnsubscribeCustomer, wordingVars, deliveryVars, clerkVars, DraftTypes, ClerkTypes,
     WorkIsStarted, Started
<1>20. ASSUME NEW s \in Subscribers, DeleteSubscriber(s) PROVE WorkIsStarted'
  BY <1>0, <1>20 DEF DeleteSubscriber, wordingVars, clerkVars, DraftTypes, ClerkTypes, WorkIsStarted, Started
<1>21. ASSUME NEW p \in Clerks, NEW pasted \in SUBSET Subscribers, StartImport(p, pasted) PROVE WorkIsStarted'
  BY <1>0, <1>21 DEF StartImport, CampaignGoto, wordingVars, subscriberVars, deliveryVars, DraftTypes,
     ClerkTypes, WorkIsStarted, Started
<1>22. ASSUME NEW p \in Clerks, CreateSubscribers(p) PROVE WorkIsStarted'
  BY <1>0, <1>22 DEF CreateSubscribers, Quit, Leave, wordingVars, deliveryVars, DraftTypes, ClerkTypes,
     WorkIsStarted, Started
<1>23. ASSUME NEW p \in Clerks, ClerkDies(p) PROVE WorkIsStarted'
  BY <1>0, <1>23 DEF ClerkDies, Quit, wordingVars, subscriberVars, deliveryVars, DraftTypes, ClerkTypes,
     WorkIsStarted, Started
<1>24. CASE UNCHANGED campaignVars
  BY <1>0, <1>24 DEF campaignVars, wordingVars, subscriberVars, deliveryVars, clerkVars, DraftTypes,
     ClerkTypes, WorkIsStarted, Started
<1> QED
  BY <1>1, <1>2, <1>3, <1>4, <1>5, <1>6, <1>7, <1>8, <1>9, <1>10, <1>11, <1>12, <1>13, <1>14, <1>15, <1>16,
     <1>17, <1>18, <1>19, <1>20, <1>21, <1>22, <1>23, <1>24 DEF CampaignNext, ClerkStep

\* A count of nobody left stays true of the loyal: whoever comes later is none of them.
LEMMA CampaignLoyalNext ==
  ASSUME CampaignInv, [CampaignNext]_campaignVars
  PROVE  LoyalAreReached'
<1>0. /\ DraftTypes /\ PeopleTypes /\ DeliveryTypes /\ ClerkTypes /\ CountTypes /\ PendingIsHeld
      /\ WorkIsStarted /\ LoyalAreReached
  BY DEF CampaignInv, CampaignTypes
<1>1. ASSUME NEW p \in Clerks, StartCampaign(p) PROVE LoyalAreReached'
  BY <1>0, <1>1 DEF StartCampaign, CampaignGoto, wordingVars, subscriberVars, deliveryVars, DraftTypes,
     PeopleTypes, DeliveryTypes, ClerkTypes, PendingIsHeld, WorkIsStarted, Started, CountTypes,
     LoyalAreReached, Subscribed
<1>2. ASSUME NEW p \in Clerks, OwnCampaign(p) PROVE LoyalAreReached'
  BY <1>0, <1>2 DEF OwnCampaign, CampaignGoto, wordingVars, deliveryVars, DraftTypes, PeopleTypes,
     DeliveryTypes, ClerkTypes, PendingIsHeld, WorkIsStarted, Started, CountTypes, LoyalAreReached,
     Subscribed
<1>3. ASSUME NEW p \in Clerks, AlreadyOwned(p) PROVE LoyalAreReached'
  BY <1>0, <1>3 DEF AlreadyOwned, Quit, Leave, wordingVars, subscriberVars, deliveryVars, DraftTypes,
     PeopleTypes, DeliveryTypes, ClerkTypes, PendingIsHeld, WorkIsStarted, Started, CountTypes,
     LoyalAreReached, Subscribed
<1>4. ASSUME NEW p \in Clerks, ReadBatch(p) PROVE LoyalAreReached'
  BY <1>0, <1>4 DEF ReadBatch, CampaignGoto, wordingVars, subscriberVars, deliveryVars, DraftTypes,
     PeopleTypes, DeliveryTypes, ClerkTypes, PendingIsHeld, WorkIsStarted, Started, CountTypes,
     LoyalAreReached, Subscribed
<1>5. ASSUME NEW p \in Clerks, NEW s \in Subscribers, ClaimSubscriber(p, s) PROVE LoyalAreReached'
  BY <1>0, <1>5 DEF ClaimSubscriber, CampaignGoto, wordingVars, subscriberVars, DraftTypes, PeopleTypes,
     DeliveryTypes, ClerkTypes, PendingIsHeld, WorkIsStarted, Started, CountTypes, LoyalAreReached,
     Subscribed
<1>6. ASSUME NEW p \in Clerks, NEW s \in Subscribers, AttemptedByAnother(p, s) PROVE LoyalAreReached'
  BY <1>0, <1>6 DEF AttemptedByAnother, wordingVars, subscriberVars, deliveryVars, DraftTypes, PeopleTypes,
     DeliveryTypes, ClerkTypes, PendingIsHeld, WorkIsStarted, Started, CountTypes, LoyalAreReached,
     Subscribed
<1>7. ASSUME NEW p \in Clerks, TargetVanished(p) PROVE LoyalAreReached'
  BY <1>0, <1>7 DEF TargetVanished, Quit, Leave, wordingVars, subscriberVars, deliveryVars, DraftTypes,
     PeopleTypes, DeliveryTypes, ClerkTypes, PendingIsHeld, WorkIsStarted, Started, CountTypes,
     LoyalAreReached, Subscribed
<1>8. ASSUME NEW p \in Clerks, SendCampaign(p) PROVE LoyalAreReached'
  BY <1>0, <1>8 DEF SendCampaign, CampaignGoto, subscriberVars, DraftTypes, PeopleTypes, DeliveryTypes,
     ClerkTypes, PendingIsHeld, WorkIsStarted, Started, CountTypes, LoyalAreReached, Subscribed
<1>9. ASSUME NEW p \in Clerks, RecordAttempt(p) PROVE LoyalAreReached'
  BY <1>0, <1>9 DEF RecordAttempt, CampaignGoto, wordingVars, subscriberVars, DraftTypes, PeopleTypes,
     DeliveryTypes, ClerkTypes, PendingIsHeld, WorkIsStarted, Started, CountTypes, LoyalAreReached,
     Subscribed
<1>10. ASSUME NEW p \in Clerks, RecordSkipped(p) PROVE LoyalAreReached'
  BY <1>0, <1>10 DEF RecordSkipped, CampaignGoto, wordingVars, subscriberVars, DraftTypes, PeopleTypes,
     DeliveryTypes, ClerkTypes, PendingIsHeld, WorkIsStarted, Started, CountTypes, LoyalAreReached,
     Subscribed
<1>11. ASSUME NEW p \in Clerks, CountRemaining(p) PROVE LoyalAreReached'
  BY <1>0, <1>11 DEF CountRemaining, CampaignGoto, wordingVars, subscriberVars, deliveryVars, DraftTypes,
     PeopleTypes, DeliveryTypes, ClerkTypes, PendingIsHeld, WorkIsStarted, Started, CountTypes,
     LoyalAreReached, Subscribed, StillNeedsAttempt
<1>12. ASSUME NEW p \in Clerks, FinishRound(p) PROVE LoyalAreReached'
  BY <1>0, <1>12 DEF FinishRound, Quit, Leave, wordingVars, subscriberVars, deliveryVars, DraftTypes,
     PeopleTypes, DeliveryTypes, ClerkTypes, PendingIsHeld, WorkIsStarted, Started, CountTypes,
     LoyalAreReached, Subscribed
<1>13. ASSUME NEW words \in Wordings, CreateCampaign(words) PROVE LoyalAreReached'
  BY <1>0, <1>13 DEF CreateCampaign, subscriberVars, deliveryVars, clerkVars, DraftTypes, PeopleTypes,
     DeliveryTypes, ClerkTypes, PendingIsHeld, WorkIsStarted, Started, CountTypes, LoyalAreReached,
     Subscribed
<1>14. ASSUME NEW p \in Clerks, NEW words \in Wordings, StartUpdate(p, words) PROVE LoyalAreReached'
  BY <1>0, <1>14 DEF StartUpdate, CampaignGoto, wordingVars, subscriberVars, deliveryVars, DraftTypes,
     PeopleTypes, DeliveryTypes, ClerkTypes, PendingIsHeld, WorkIsStarted, Started, CountTypes,
     LoyalAreReached, Subscribed
<1>15. ASSUME NEW p \in Clerks, UpdateCampaign(p) PROVE LoyalAreReached'
  BY <1>0, <1>15 DEF UpdateCampaign, Quit, Leave, subscriberVars, deliveryVars, DraftTypes, PeopleTypes,
     DeliveryTypes, ClerkTypes, PendingIsHeld, WorkIsStarted, Started, CountTypes, LoyalAreReached,
     Subscribed
<1>16. ASSUME NEW p \in Clerks, StartDelete(p) PROVE LoyalAreReached'
  BY <1>0, <1>16 DEF StartDelete, CampaignGoto, wordingVars, subscriberVars, deliveryVars, DraftTypes,
     PeopleTypes, DeliveryTypes, ClerkTypes, PendingIsHeld, WorkIsStarted, Started, CountTypes,
     LoyalAreReached, Subscribed
<1>17. ASSUME NEW p \in Clerks, DeleteCampaign(p) PROVE LoyalAreReached'
  BY <1>0, <1>17 DEF DeleteCampaign, Quit, Leave, wordingVars, subscriberVars, DraftTypes, PeopleTypes,
     DeliveryTypes, ClerkTypes, PendingIsHeld, WorkIsStarted, Started, CountTypes, LoyalAreReached,
     Subscribed
<1>18. ASSUME NEW s \in Subscribers, Subscribe(s) PROVE LoyalAreReached'
  BY <1>0, <1>18 DEF Subscribe, wordingVars, deliveryVars, clerkVars, DraftTypes, PeopleTypes,
     DeliveryTypes, ClerkTypes, PendingIsHeld, WorkIsStarted, Started, CountTypes, LoyalAreReached,
     Subscribed
<1>19. ASSUME NEW s \in Subscribers, UnsubscribeCustomer(s) PROVE LoyalAreReached'
  BY <1>0, <1>19 DEF UnsubscribeCustomer, wordingVars, deliveryVars, clerkVars, DraftTypes, PeopleTypes,
     DeliveryTypes, ClerkTypes, PendingIsHeld, WorkIsStarted, Started, CountTypes, LoyalAreReached,
     Subscribed
<1>20. ASSUME NEW s \in Subscribers, DeleteSubscriber(s) PROVE LoyalAreReached'
  BY <1>0, <1>20 DEF DeleteSubscriber, wordingVars, clerkVars, DraftTypes, PeopleTypes, DeliveryTypes,
     ClerkTypes, PendingIsHeld, WorkIsStarted, Started, CountTypes, LoyalAreReached, Subscribed
<1>21. ASSUME NEW p \in Clerks, NEW pasted \in SUBSET Subscribers, StartImport(p, pasted) PROVE LoyalAreReached'
  BY <1>0, <1>21 DEF StartImport, CampaignGoto, wordingVars, subscriberVars, deliveryVars, DraftTypes,
     PeopleTypes, DeliveryTypes, ClerkTypes, PendingIsHeld, WorkIsStarted, Started, CountTypes,
     LoyalAreReached, Subscribed
<1>22. ASSUME NEW p \in Clerks, CreateSubscribers(p) PROVE LoyalAreReached'
  BY <1>0, <1>22 DEF CreateSubscribers, Quit, Leave, wordingVars, deliveryVars, DraftTypes, PeopleTypes,
     DeliveryTypes, ClerkTypes, PendingIsHeld, WorkIsStarted, Started, CountTypes, LoyalAreReached,
     Subscribed
<1>23. ASSUME NEW p \in Clerks, ClerkDies(p) PROVE LoyalAreReached'
  BY <1>0, <1>23 DEF ClerkDies, Quit, wordingVars, subscriberVars, deliveryVars, DraftTypes, PeopleTypes,
     DeliveryTypes, ClerkTypes, PendingIsHeld, WorkIsStarted, Started, CountTypes, LoyalAreReached,
     Subscribed
<1>24. CASE UNCHANGED campaignVars
  BY <1>0, <1>24 DEF campaignVars, wordingVars, subscriberVars, deliveryVars, clerkVars, DraftTypes,
     PeopleTypes, DeliveryTypes, ClerkTypes, PendingIsHeld, WorkIsStarted, Started, CountTypes,
     LoyalAreReached, Subscribed
<1> QED
  BY <1>1, <1>2, <1>3, <1>4, <1>5, <1>6, <1>7, <1>8, <1>9, <1>10, <1>11, <1>12, <1>13, <1>14, <1>15, <1>16,
     <1>17, <1>18, <1>19, <1>20, <1>21, <1>22, <1>23, <1>24 DEF CampaignNext, ClerkStep

\* A placeholder comes in behind the check of a click only by a late edit.
LEMMA CampaignWordingNext ==
  ASSUME CampaignInv, [CampaignNext]_campaignVars
  PROVE  WordedUnlessEdited'
<1>0. DraftTypes /\ ClerkTypes /\ WorkIsStarted /\ WordedUnlessEdited
  BY DEF CampaignInv, CampaignTypes
<1>1. ASSUME NEW p \in Clerks, StartCampaign(p) PROVE WordedUnlessEdited'
  BY <1>0, <1>1 DEF StartCampaign, CampaignGoto, wordingVars, subscriberVars, deliveryVars, DraftTypes,
     ClerkTypes, WorkIsStarted, Started, WordedUnlessEdited, Wordings
<1>2. ASSUME NEW p \in Clerks, OwnCampaign(p) PROVE WordedUnlessEdited'
  BY <1>0, <1>2 DEF OwnCampaign, CampaignGoto, wordingVars, deliveryVars, DraftTypes, ClerkTypes,
     WorkIsStarted, Started, WordedUnlessEdited, Wordings
<1>3. ASSUME NEW p \in Clerks, AlreadyOwned(p) PROVE WordedUnlessEdited'
  BY <1>0, <1>3 DEF AlreadyOwned, Quit, Leave, wordingVars, subscriberVars, deliveryVars, DraftTypes,
     ClerkTypes, WorkIsStarted, Started, WordedUnlessEdited, Wordings
<1>4. ASSUME NEW p \in Clerks, ReadBatch(p) PROVE WordedUnlessEdited'
  BY <1>0, <1>4 DEF ReadBatch, CampaignGoto, wordingVars, subscriberVars, deliveryVars, DraftTypes,
     ClerkTypes, WorkIsStarted, Started, WordedUnlessEdited, Wordings
<1>5. ASSUME NEW p \in Clerks, NEW s \in Subscribers, ClaimSubscriber(p, s) PROVE WordedUnlessEdited'
  BY <1>0, <1>5 DEF ClaimSubscriber, CampaignGoto, wordingVars, subscriberVars, DraftTypes, ClerkTypes,
     WorkIsStarted, Started, WordedUnlessEdited, Wordings
<1>6. ASSUME NEW p \in Clerks, NEW s \in Subscribers, AttemptedByAnother(p, s) PROVE WordedUnlessEdited'
  BY <1>0, <1>6 DEF AttemptedByAnother, wordingVars, subscriberVars, deliveryVars, DraftTypes, ClerkTypes,
     WorkIsStarted, Started, WordedUnlessEdited, Wordings
<1>7. ASSUME NEW p \in Clerks, TargetVanished(p) PROVE WordedUnlessEdited'
  BY <1>0, <1>7 DEF TargetVanished, Quit, Leave, wordingVars, subscriberVars, deliveryVars, DraftTypes,
     ClerkTypes, WorkIsStarted, Started, WordedUnlessEdited, Wordings
<1>8. ASSUME NEW p \in Clerks, SendCampaign(p) PROVE WordedUnlessEdited'
  BY <1>0, <1>8 DEF SendCampaign, CampaignGoto, subscriberVars, DraftTypes, ClerkTypes, WorkIsStarted,
     Started, WordedUnlessEdited, Wordings
<1>9. ASSUME NEW p \in Clerks, RecordAttempt(p) PROVE WordedUnlessEdited'
  BY <1>0, <1>9 DEF RecordAttempt, CampaignGoto, wordingVars, subscriberVars, DraftTypes, ClerkTypes,
     WorkIsStarted, Started, WordedUnlessEdited, Wordings
<1>10. ASSUME NEW p \in Clerks, RecordSkipped(p) PROVE WordedUnlessEdited'
  BY <1>0, <1>10 DEF RecordSkipped, CampaignGoto, wordingVars, subscriberVars, DraftTypes, ClerkTypes,
     WorkIsStarted, Started, WordedUnlessEdited, Wordings
<1>11. ASSUME NEW p \in Clerks, CountRemaining(p) PROVE WordedUnlessEdited'
  BY <1>0, <1>11 DEF CountRemaining, CampaignGoto, wordingVars, subscriberVars, deliveryVars, DraftTypes,
     ClerkTypes, WorkIsStarted, Started, WordedUnlessEdited, Wordings
<1>12. ASSUME NEW p \in Clerks, FinishRound(p) PROVE WordedUnlessEdited'
  BY <1>0, <1>12 DEF FinishRound, Quit, Leave, wordingVars, subscriberVars, deliveryVars, DraftTypes,
     ClerkTypes, WorkIsStarted, Started, WordedUnlessEdited, Wordings
<1>13. ASSUME NEW words \in Wordings, CreateCampaign(words) PROVE WordedUnlessEdited'
  BY <1>0, <1>13 DEF CreateCampaign, subscriberVars, deliveryVars, clerkVars, DraftTypes, ClerkTypes,
     WorkIsStarted, Started, WordedUnlessEdited, Wordings
<1>14. ASSUME NEW p \in Clerks, NEW words \in Wordings, StartUpdate(p, words) PROVE WordedUnlessEdited'
  BY <1>0, <1>14 DEF StartUpdate, CampaignGoto, wordingVars, subscriberVars, deliveryVars, DraftTypes,
     ClerkTypes, WorkIsStarted, Started, WordedUnlessEdited, Wordings
<1>15. ASSUME NEW p \in Clerks, UpdateCampaign(p) PROVE WordedUnlessEdited'
  BY <1>0, <1>15 DEF UpdateCampaign, Quit, Leave, subscriberVars, deliveryVars, DraftTypes, ClerkTypes,
     WorkIsStarted, Started, WordedUnlessEdited, Wordings
<1>16. ASSUME NEW p \in Clerks, StartDelete(p) PROVE WordedUnlessEdited'
  BY <1>0, <1>16 DEF StartDelete, CampaignGoto, wordingVars, subscriberVars, deliveryVars, DraftTypes,
     ClerkTypes, WorkIsStarted, Started, WordedUnlessEdited, Wordings
<1>17. ASSUME NEW p \in Clerks, DeleteCampaign(p) PROVE WordedUnlessEdited'
  BY <1>0, <1>17 DEF DeleteCampaign, Quit, Leave, wordingVars, subscriberVars, DraftTypes, ClerkTypes,
     WorkIsStarted, Started, WordedUnlessEdited, Wordings
<1>18. ASSUME NEW s \in Subscribers, Subscribe(s) PROVE WordedUnlessEdited'
  BY <1>0, <1>18 DEF Subscribe, wordingVars, deliveryVars, clerkVars, DraftTypes, ClerkTypes, WorkIsStarted,
     Started, WordedUnlessEdited, Wordings
<1>19. ASSUME NEW s \in Subscribers, UnsubscribeCustomer(s) PROVE WordedUnlessEdited'
  BY <1>0, <1>19 DEF UnsubscribeCustomer, wordingVars, deliveryVars, clerkVars, DraftTypes, ClerkTypes,
     WorkIsStarted, Started, WordedUnlessEdited, Wordings
<1>20. ASSUME NEW s \in Subscribers, DeleteSubscriber(s) PROVE WordedUnlessEdited'
  BY <1>0, <1>20 DEF DeleteSubscriber, wordingVars, clerkVars, DraftTypes, ClerkTypes, WorkIsStarted,
     Started, WordedUnlessEdited, Wordings
<1>21. ASSUME NEW p \in Clerks, NEW pasted \in SUBSET Subscribers, StartImport(p, pasted) PROVE WordedUnlessEdited'
  BY <1>0, <1>21 DEF StartImport, CampaignGoto, wordingVars, subscriberVars, deliveryVars, DraftTypes,
     ClerkTypes, WorkIsStarted, Started, WordedUnlessEdited, Wordings
<1>22. ASSUME NEW p \in Clerks, CreateSubscribers(p) PROVE WordedUnlessEdited'
  BY <1>0, <1>22 DEF CreateSubscribers, Quit, Leave, wordingVars, deliveryVars, DraftTypes, ClerkTypes,
     WorkIsStarted, Started, WordedUnlessEdited, Wordings
<1>23. ASSUME NEW p \in Clerks, ClerkDies(p) PROVE WordedUnlessEdited'
  BY <1>0, <1>23 DEF ClerkDies, Quit, wordingVars, subscriberVars, deliveryVars, DraftTypes, ClerkTypes,
     WorkIsStarted, Started, WordedUnlessEdited, Wordings
<1>24. CASE UNCHANGED campaignVars
  BY <1>0, <1>24 DEF campaignVars, wordingVars, subscriberVars, deliveryVars, clerkVars, DraftTypes,
     ClerkTypes, WorkIsStarted, Started, WordedUnlessEdited, Wordings
<1> QED
  BY <1>1, <1>2, <1>3, <1>4, <1>5, <1>6, <1>7, <1>8, <1>9, <1>10, <1>11, <1>12, <1>13, <1>14, <1>15, <1>16,
     <1>17, <1>18, <1>19, <1>20, <1>21, <1>22, <1>23, <1>24 DEF CampaignNext, ClerkStep

LEMMA CampaignInvInit == CampaignInit => CampaignInv
<1> SUFFICES ASSUME CampaignInit PROVE CampaignInv
  OBVIOUS
<1> USE CampaignConstants
<1>1. DraftTypes /\ PeopleTypes
  BY DEF CampaignInit, DraftTypes, PeopleTypes, Wordings
<1>2. DeliveryTypes
  BY DEF CampaignInit, DeliveryTypes, AttemptStatuses
<1>3. ClerkTypes
  BY DEF CampaignInit, ClerkTypes, ClerkLabels, Wordings
<1>4. CountTypes
  BY DEF CampaignInit, CountTypes
<1>5. PendingIsHeld /\ HeldByOne /\ NotYetMailed /\ OneDelivery /\ SentWasMailed /\ WorkIsStarted
  BY DEF CampaignInit, PendingIsHeld, HeldByOne, NotYetMailed, OneDelivery, SentWasMailed, WorkIsStarted,
     Started
<1>6. LoyalAreReached
  BY DEF CampaignInit, LoyalAreReached, Subscribed
<1>7. WordedUnlessEdited
  BY DEF CampaignInit, WordedUnlessEdited, Started
<1> QED
  BY <1>1, <1>2, <1>3, <1>4, <1>5, <1>6, <1>7 DEF CampaignInv, CampaignTypes

\* Every step keeps the invariant of campaigns.
LEMMA CampaignInvNext == CampaignInv /\ [CampaignNext]_campaignVars => CampaignInv'
<1> SUFFICES ASSUME CampaignInv, [CampaignNext]_campaignVars PROVE CampaignInv'
  OBVIOUS
<1> QED
  BY CampaignDraftTypesNext, CampaignDeliveryTypesNext, CampaignClerkTypesNext, CampaignCountTypesNext,
     CampaignHoldersNext, CampaignUnsentNext, CampaignSentNext, CampaignStartedNext, CampaignLoyalNext,
     CampaignWordingNext
  DEF CampaignInv, CampaignTypes

\* The invariant gives what the runs check.
LEMMA CampaignIsSafe ==
  CampaignInv => CampaignTypeOK /\ OneDelivery /\ SentReachedTheLoyal /\ PlaceholderNeedsLateEdit
<1> SUFFICES ASSUME CampaignInv
             PROVE  CampaignTypeOK /\ OneDelivery /\ SentReachedTheLoyal /\ PlaceholderNeedsLateEdit
  OBVIOUS
<1>1. CampaignTypeOK
  BY DEF CampaignInv, CampaignTypes, DraftTypes, PeopleTypes, DeliveryTypes, ClerkTypes, CountTypes,
     CampaignTypeOK
<1>2. SentReachedTheLoyal
  BY DEF CampaignInv, CampaignTypes, PeopleTypes, LoyalAreReached, SentWasMailed, SentReachedTheLoyal
<1>3. OneDelivery /\ PlaceholderNeedsLateEdit
  BY DEF CampaignInv, WordedUnlessEdited, PlaceholderNeedsLateEdit
<1> QED
  BY <1>1, <1>2, <1>3

-----------------------------------------------------------------------------
(* Task reminders: one claim per cycle, and what a claim stands for.       *)

\* A task that was never created is blank, and nobody has it in hand.
UncreatedIsBlank ==
  \A t \in Tasks : task[t] = "none" => ~notified[t] /\ \A p \in Desks : onTask[p] # t

\* The reminder that may still be claimed in the present cycle.
MayBeClaimed(t) == IF task[t] # "none" /\ ~notified[t] THEN 1 ELSE 0

\* What was reminded, is being reminded and may still be claimed, together,
\* stays within the cycles.
RemindersLeft ==
  \A t \in Tasks : reminders[t] + Cardinality(Reminding(t)) + MayBeClaimed(t) <= cycles[t]

\* The inductive invariant of reminders.
ReminderInv == ReminderTypeOK /\ UncreatedIsBlank /\ RemindersLeft /\ NotifiedMeansTold

LEMMA ReminderInvInit == ReminderInit => ReminderInv
<1> SUFFICES ASSUME ReminderInit PROVE ReminderInv
  OBVIOUS
<1> USE TaskConstants
<1>1. ReminderTypeOK
  BY DEF ReminderInit, ReminderTypeOK, Undated
<1>2. UncreatedIsBlank /\ NotifiedMeansTold
  BY DEF ReminderInit, UncreatedIsBlank, NotifiedMeansTold, Rows
<1>3. ASSUME NEW t \in Tasks PROVE reminders[t] + Cardinality(Reminding(t)) + MayBeClaimed(t) <= cycles[t]
  <2>1. Reminding(t) = {}
    BY DEF ReminderInit, Reminding
  <2>2. reminders[t] = 0 /\ cycles[t] = 0 /\ MayBeClaimed(t) = 0
    BY DEF ReminderInit, MayBeClaimed
  <2> QED
    BY <2>1, <2>2, FS_EmptySet
<1> QED
  BY <1>1, <1>2, <1>3 DEF ReminderInv, RemindersLeft

\* The type invariant's two halves: the rows and their story, and the desks.
TaskRowTypes ==
  /\ task \in [Tasks -> {"none", "PENDING", "COMPLETED", "deleted"}]
  /\ dueAt \in [Tasks -> Nat \cup {NoDate}] /\ assignee \in [Tasks -> Agents \cup {Unassigned}]
  /\ notified \in [Tasks -> BOOLEAN] /\ hour \in Nat
  /\ cycles \in [Tasks -> Nat] /\ reminders \in [Tasks -> Nat]
  /\ told \in [Tasks -> BOOLEAN] /\ spoiled \in [Tasks -> BOOLEAN] /\ kills \in Nat

\* What a request has: a task in hand exactly while it works on it.
DeskTypes ==
  /\ desk \in [Desks -> {"idle", "update", "complete", "reopen", "scan", "remind"}]
  /\ dueList \in [Desks -> SUBSET Tasks]
  /\ readDue \in [Desks -> [Tasks -> Nat \cup {NoDate}]]
  /\ onTask \in [Desks -> Tasks \cup {NoTask}]
  /\ formDue \in [Desks -> Nat \cup {NoDate}] /\ formReset \in [Desks -> BOOLEAN]
  /\ \A p \in Desks : onTask[p] # NoTask <=> desk[p] \in {"update", "complete", "reopen", "remind"}

\* A request that ends has nothing in hand.
LEMMA HomeTypes ==
  ASSUME DeskTypes, NEW p \in Desks, Home(p)
  PROVE  DeskTypes'
<1>1. /\ desk' = [desk EXCEPT ![p] = "idle"] /\ onTask' = [onTask EXCEPT ![p] = NoTask]
      /\ dueList' \in [Desks -> SUBSET Tasks] /\ formDue' \in [Desks -> Nat \cup {NoDate}]
  BY DEF DeskTypes, Home
<1>2. formReset' \in [Desks -> BOOLEAN]
  BY DEF DeskTypes, Home
<1>3. readDue' \in [Desks -> [Tasks -> Nat \cup {NoDate}]]
  <2>1. Undated \in [Tasks -> Nat \cup {NoDate}] /\ readDue' = [readDue EXCEPT ![p] = Undated]
    BY DEF Undated, Home
  <2> QED
    BY <2>1 DEF DeskTypes
<1> QED
  BY <1>1, <1>2, <1>3 DEF DeskTypes

LEMMA DeskTypesNext ==
  ASSUME DeskTypes, TaskRowTypes, [ReminderNext]_reminderVars
  PROVE  DeskTypes'
<1>1. CASE UNCHANGED deskVars
  BY <1>1 DEF deskVars, DeskTypes
<1>2. ASSUME NEW p \in Desks, ReadReminders(p) \/ (\E t \in Tasks : SkipReminder(p, t)) PROVE DeskTypes'
  <2>1. RemindersDue \subseteq Tasks
    BY DEF RemindersDue
  <2>2. /\ dueList' \in [Desks -> SUBSET Tasks] /\ UNCHANGED <<onTask, formDue, formReset>>
        /\ desk' = desk \/ (desk[p] = "idle" /\ desk' = [desk EXCEPT ![p] = "scan"])
    BY <1>2, <2>1 DEF DeskTypes, ReadReminders, SkipReminder
  <2>3. readDue' \in [Desks -> [Tasks -> Nat \cup {NoDate}]]
    <3> DEFINE asRead == [t \in Tasks |-> IF t \in RemindersDue THEN dueAt[t] ELSE NoDate]
    <3>1. asRead \in [Tasks -> Nat \cup {NoDate}]
      BY DEF TaskRowTypes
    <3>2. readDue' = readDue \/ readDue' = [readDue EXCEPT ![p] = asRead]
      BY <1>2 DEF ReadReminders, SkipReminder
    <3> HIDE DEF asRead
    <3> QED
      BY <3>1, <3>2 DEF DeskTypes
  <2> QED
    BY <2>2, <2>3 DEF DeskTypes
<1>3. ASSUME NEW p \in Desks, NEW t \in Tasks, ReadForToggle(p, t) PROVE DeskTypes'
  BY <1>3, TaskConstants DEF DeskTypes, ReadForToggle
<1>4. ASSUME NEW p \in Desks, NEW t \in Tasks, ClaimReminder(p, t) PROVE DeskTypes'
  BY <1>4, TaskConstants DEF DeskTypes, ClaimReminder
<1>5. ASSUME NEW p \in Desks, CreateReminder(p) PROVE DeskTypes'
  BY <1>5, TaskConstants DEF DeskTypes, CreateReminder
<1>6. ASSUME NEW p \in Desks, NEW t \in Tasks, NEW date \in DueHours \cup {NoDate}, ReadForUpdate(p, t, date)
      PROVE  DeskTypes'
  <2>1. formReset' \in [Desks -> BOOLEAN]
    BY <1>6 DEF DeskTypes, ReadForUpdate
  <2>2. formDue' \in [Desks -> Nat \cup {NoDate}]
    BY <1>6, TaskConstants DEF DeskTypes, ReadForUpdate
  <2>3. /\ desk' = [desk EXCEPT ![p] = "update"] /\ onTask' = [onTask EXCEPT ![p] = t]
        /\ dueList' = dueList /\ readDue' = readDue
    BY <1>6 DEF ReadForUpdate
  <2> QED
    BY <2>1, <2>2, <2>3, TaskConstants DEF DeskTypes
<1>7. ASSUME NEW p \in Desks,
             \/ \E who \in Agents \cup {Unassigned} : UpdateTask(p, who)
             \/ CompleteTask(p) \/ ReopenTask(p) \/ ScanDone(p) \/ TaskVanished(p) \/ DeskDies(p)
      PROVE  DeskTypes'
  BY <1>7, HomeTypes DEF UpdateTask, CompleteTask, ReopenTask, ScanDone, TaskVanished, DeskDies
<1>8. ASSUME NEW t \in Tasks,
             \/ \E date \in DueHours \cup {NoDate}, who \in Agents : CreateTask(t, date, who)
             \/ \E who \in Agents : ReassignTask(t, who)
             \/ DeleteTask(t)
      PROVE  UNCHANGED deskVars
  BY <1>8 DEF CreateTask, ReassignTask, DeleteTask
<1> QED
  BY <1>1, <1>2, <1>3, <1>4, <1>5, <1>6, <1>7, <1>8
  DEF ReminderNext, DeskStep, HourPasses, reminderVars

LEMMA TaskRowTypesNext ==
  ASSUME DeskTypes, TaskRowTypes, [ReminderNext]_reminderVars
  PROVE  TaskRowTypes'
<1> DEFINE Facts == <<task, dueAt, assignee, notified, hour, cycles, reminders, told, spoiled, kills>>
<1>0. UNCHANGED Facts => TaskRowTypes'
  BY DEF TaskRowTypes
<1>1. ASSUME NEW p \in Desks,
             \/ ReadReminders(p) \/ ScanDone(p) \/ TaskVanished(p)
             \/ \E t \in Tasks : SkipReminder(p, t) \/ ReadForToggle(p, t)
             \/ \E t \in Tasks, date \in DueHours \cup {NoDate} : ReadForUpdate(p, t, date)
      PROVE  UNCHANGED Facts
  BY <1>1 DEF ReadReminders, ScanDone, TaskVanished, SkipReminder, ReadForToggle, ReadForUpdate,
              taskVars, storyVars
<1>2. ASSUME NEW p \in Desks, NEW who \in Agents \cup {Unassigned}, UpdateTask(p, who) PROVE TaskRowTypes'
  <2> DEFINE t == onTask[p]
  <2>1. t \in Tasks /\ formDue[p] \in Nat \cup {NoDate} /\ formReset[p] \in BOOLEAN
    BY <1>2 DEF UpdateTask, Rows, DeskTypes
  <2>2. /\ dueAt' = [dueAt EXCEPT ![t] = formDue[p]] /\ assignee' = [assignee EXCEPT ![t] = who]
        /\ UNCHANGED <<task, hour, reminders, kills>>
    BY <1>2 DEF UpdateTask
  <2>3. notified' = [notified EXCEPT ![t] = @ /\ ~formReset[p]]
    BY <1>2 DEF UpdateTask
  <2>4. notified' \in [Tasks -> BOOLEAN]
    BY <2>1, <2>3 DEF TaskRowTypes
  <2>5. told' \in [Tasks -> BOOLEAN] /\ spoiled' \in [Tasks -> BOOLEAN]
    BY <1>2, <2>1 DEF UpdateTask, TaskRowTypes, Opens
  <2>6. cycles' \in [Tasks -> Nat]
    BY <1>2, <2>1 DEF UpdateTask, TaskRowTypes, Opens
  <2> HIDE DEF t
  <2> QED
    BY <2>1, <2>2, <2>4, <2>5, <2>6 DEF TaskRowTypes
<1>3. ASSUME NEW p \in Desks, CompleteTask(p) PROVE TaskRowTypes'
  BY <1>3 DEF CompleteTask, TaskRowTypes, storyVars
<1>4. ASSUME NEW p \in Desks, ReopenTask(p) PROVE TaskRowTypes'
  <2>1. task' \in [Tasks -> {"none", "PENDING", "COMPLETED", "deleted"}] /\ cycles' \in [Tasks -> Nat]
    <3>1. cycles' = [cycles EXCEPT ![onTask[p]] = cycles[onTask[p]] + 1] /\ onTask[p] \in Tasks
      BY <1>4 DEF ReopenTask, Opens, Rows
    <3>2. task' = [task EXCEPT ![onTask[p]] = "PENDING"]
      BY <1>4 DEF ReopenTask
    <3> QED
      BY <3>1, <3>2 DEF TaskRowTypes
  <2>2. notified' \in [Tasks -> BOOLEAN]
    BY <1>4 DEF ReopenTask, TaskRowTypes
  <2>3. told' \in [Tasks -> BOOLEAN] /\ spoiled' \in [Tasks -> BOOLEAN]
    BY <1>4 DEF ReopenTask, Opens, TaskRowTypes
  <2>4. UNCHANGED <<dueAt, assignee, reminders, kills, hour>>
    BY <1>4 DEF ReopenTask
  <2> QED
    BY <2>1, <2>2, <2>3, <2>4 DEF TaskRowTypes
<1>5. ASSUME NEW p \in Desks, NEW t \in Tasks, ClaimReminder(p, t) PROVE TaskRowTypes'
  <2>1. notified' \in [Tasks -> BOOLEAN]
    BY <1>5 DEF ClaimReminder, TaskRowTypes
  <2>2. UNCHANGED <<task, dueAt, assignee, hour, cycles, reminders, told, kills>>
    BY <1>5 DEF ClaimReminder
  <2>3. spoiled' \in [Tasks -> BOOLEAN]
    BY <1>5 DEF ClaimReminder, TaskRowTypes
  <2> QED
    BY <2>1, <2>2, <2>3 DEF TaskRowTypes
<1>6. ASSUME NEW p \in Desks, CreateReminder(p) PROVE TaskRowTypes'
  <2>1. told' \in [Tasks -> BOOLEAN]
    BY <1>6 DEF CreateReminder, TaskRowTypes
  <2>2. reminders' \in [Tasks -> Nat]
    <3>1. onTask[p] \in Tasks /\ reminders' = [reminders EXCEPT ![onTask[p]] = reminders[onTask[p]] + 1]
      BY <1>6 DEF CreateReminder, Rows
    <3> QED
      BY <3>1 DEF TaskRowTypes
  <2>3. UNCHANGED <<task, dueAt, assignee, notified, hour, cycles, spoiled, kills>>
    BY <1>6 DEF CreateReminder, taskVars
  <2> QED
    BY <2>1, <2>2, <2>3 DEF TaskRowTypes
<1>7. ASSUME NEW p \in Desks, DeskDies(p) PROVE TaskRowTypes'
  <2>1. spoiled' \in [Tasks -> BOOLEAN]
    BY <1>7 DEF DeskDies, TaskRowTypes
  <2>2. kills' = kills + 1 /\ UNCHANGED <<task, dueAt, assignee, notified, hour, cycles, reminders, told>>
    BY <1>7 DEF DeskDies, taskVars
  <2> QED
    BY <2>1, <2>2 DEF TaskRowTypes
<1>8. ASSUME NEW t \in Tasks, NEW date \in DueHours \cup {NoDate}, NEW who \in Agents, CreateTask(t, date, who)
      PROVE  TaskRowTypes'
  <2>1. told' \in [Tasks -> BOOLEAN] /\ spoiled' \in [Tasks -> BOOLEAN]
    BY <1>8 DEF CreateTask, Opens, TaskRowTypes
  <2>2. /\ task' \in [Tasks -> {"none", "PENDING", "COMPLETED", "deleted"}] /\ cycles' \in [Tasks -> Nat]
        /\ dueAt' \in [Tasks -> Nat \cup {NoDate}] /\ assignee' \in [Tasks -> Agents \cup {Unassigned}]
    BY <1>8, TaskConstants DEF CreateTask, Opens, TaskRowTypes
  <2>3. UNCHANGED <<notified, hour, reminders, kills>>
    BY <1>8 DEF CreateTask, deskVars
  <2> QED
    BY <2>1, <2>2, <2>3 DEF TaskRowTypes
<1>9. ASSUME NEW t \in Tasks, (\E who \in Agents : ReassignTask(t, who)) \/ DeleteTask(t) PROVE TaskRowTypes'
  BY <1>9 DEF ReassignTask, DeleteTask, TaskRowTypes, storyVars, deskVars
<1>10. CASE HourPasses
  BY <1>10 DEF HourPasses, TaskRowTypes, taskVars, storyVars, deskVars
<1>11. UNCHANGED reminderVars => UNCHANGED Facts
  BY DEF reminderVars, taskVars, storyVars, deskVars
<1> HIDE DEF Facts, TaskRowTypes, DeskTypes
<1> QED
  BY <1>0, <1>1, <1>2, <1>3, <1>4, <1>5, <1>6, <1>7, <1>8, <1>9, <1>10, <1>11
  DEF ReminderNext, DeskStep

LEMMA ReminderTypeNext ==
  ASSUME ReminderTypeOK, [ReminderNext]_reminderVars
  PROVE  ReminderTypeOK'
<1>1. DeskTypes /\ TaskRowTypes
  BY DEF ReminderTypeOK, DeskTypes, TaskRowTypes
<1>2. DeskTypes' /\ TaskRowTypes'
  BY <1>1, DeskTypesNext, TaskRowTypesNext
<1> QED
  BY <1>2 DEF ReminderTypeOK, DeskTypes, TaskRowTypes

-----------------------------------------------------------------------------
\* Whoever goes home has nothing in hand; the others keep what they have.
LEMMA HomeAndOthers ==
  ASSUME DeskTypes, NEW p \in Desks, Home(p), NEW t \in Tasks
  PROVE  /\ Reminding(t)' = Reminding(t) \ {p}
         /\ \A q \in Desks : onTask'[q] = t => onTask[q] = t
BY TaskConstants DEF Home, DeskTypes, Reminding

\* Who is in hand of somebody was created.
LEMMA UncreatedNext ==
  ASSUME ReminderInv, [ReminderNext]_reminderVars
  PROVE  UncreatedIsBlank'
<1>0. DeskTypes /\ TaskRowTypes /\ UncreatedIsBlank
  BY DEF ReminderInv, ReminderTypeOK, DeskTypes, TaskRowTypes
<1> SUFFICES ASSUME NEW t \in Tasks, task'[t] = "none"
             PROVE  ~(notified'[t]) /\ \A q \in Desks : onTask'[q] # t
  BY DEF UncreatedIsBlank
<1>1. task[t] = "none" /\ (notified'[t] => notified[t])
  <2>1. CASE UNCHANGED taskVars
    BY <2>1, <1>0 DEF taskVars, UncreatedIsBlank
  <2>2. ASSUME NEW p \in Desks, NEW who, UpdateTask(p, who) PROVE task' = task /\ (notified'[t] => notified[t])
    BY <2>2, <1>0 DEF UpdateTask, TaskRowTypes
  <2>3. ASSUME NEW p \in Desks, CompleteTask(p) \/ ReopenTask(p)
        PROVE  task[t] = "none" /\ (notified'[t] => notified[t])
    BY <2>3, <1>0 DEF CompleteTask, ReopenTask, TaskRowTypes, Rows
  <2>4. ASSUME NEW p \in Desks, NEW s \in Tasks, ClaimReminder(p, s)
        PROVE  task[t] = "none" /\ (notified'[t] => notified[t])
    BY <2>4, <1>0 DEF ClaimReminder, TaskRowTypes, Remindable, Rows
  <2>5. ASSUME NEW s \in Tasks, NEW date, NEW who, CreateTask(s, date, who)
        PROVE  task[t] = "none" /\ (notified'[t] => notified[t])
    BY <2>5, <1>0 DEF CreateTask, TaskRowTypes
  <2>6. ASSUME NEW s \in Tasks, (\E who \in Agents : ReassignTask(s, who)) \/ DeleteTask(s)
        PROVE  task[t] = "none" /\ (notified'[t] => notified[t])
    BY <2>6, <1>0 DEF ReassignTask, DeleteTask, TaskRowTypes
  <2>7. ASSUME NEW p \in Desks,
               \/ ReadReminders(p) \/ CreateReminder(p) \/ ScanDone(p) \/ TaskVanished(p) \/ DeskDies(p)
               \/ \E s \in Tasks : SkipReminder(p, s) \/ ReadForToggle(p, s)
               \/ \E s \in Tasks, date \in DueHours \cup {NoDate} : ReadForUpdate(p, s, date)
        PROVE  UNCHANGED taskVars
    BY <2>7 DEF ReadReminders, CreateReminder, ScanDone, TaskVanished, DeskDies, SkipReminder,
                ReadForToggle, ReadForUpdate
  <2> QED
    BY <2>1, <2>2, <2>3, <2>4, <2>5, <2>6, <2>7 DEF ReminderNext, DeskStep, HourPasses, reminderVars
<1>2. \A q \in Desks : onTask[q] # t
  BY <1>0, <1>1 DEF UncreatedIsBlank
<1>3. \A q \in Desks : onTask'[q] # t
  <2>1. CASE UNCHANGED onTask
    BY <1>2, <2>1
  <2>2. ASSUME NEW p \in Desks, Home(p) PROVE \A q \in Desks : onTask'[q] # t
    BY <1>0, <1>2, <2>2, HomeAndOthers
  <2>3. ASSUME NEW p \in Desks, NEW s \in Tasks,
               \/ ReadForToggle(p, s) \/ ClaimReminder(p, s)
               \/ \E date \in DueHours \cup {NoDate} : ReadForUpdate(p, s, date)
        PROVE  \A q \in Desks : onTask'[q] # t
    <3>1. s # t /\ onTask' = [onTask EXCEPT ![p] = s]
      BY <1>1, <2>3 DEF ReadForToggle, ClaimReminder, ReadForUpdate, Remindable, Rows
    <3> QED
      BY <1>0, <1>2, <3>1 DEF DeskTypes
  <2>4. ASSUME NEW p \in Desks, CreateReminder(p) PROVE \A q \in Desks : onTask'[q] # t
    BY <1>0, <1>2, <2>4, TaskConstants DEF CreateReminder, DeskTypes
  <2>5. ASSUME NEW p \in Desks,
               \/ \E who \in Agents \cup {Unassigned} : UpdateTask(p, who)
               \/ CompleteTask(p) \/ ReopenTask(p) \/ ScanDone(p) \/ TaskVanished(p) \/ DeskDies(p)
        PROVE  Home(p)
    BY <2>5 DEF UpdateTask, CompleteTask, ReopenTask, ScanDone, TaskVanished, DeskDies
  <2>6. ASSUME NEW s \in Tasks,
               \/ \E date \in DueHours \cup {NoDate}, who \in Agents : CreateTask(s, date, who)
               \/ \E who \in Agents : ReassignTask(s, who)
               \/ DeleteTask(s)
        PROVE  UNCHANGED onTask
    BY <2>6 DEF CreateTask, ReassignTask, DeleteTask, deskVars
  <2>7. ASSUME NEW p \in Desks, ReadReminders(p) \/ \E s \in Tasks : SkipReminder(p, s)
        PROVE  UNCHANGED onTask
    BY <2>7 DEF ReadReminders, SkipReminder
  <2> QED
    BY <2>1, <2>2, <2>3, <2>4, <2>5, <2>6, <2>7
    DEF ReminderNext, DeskStep, HourPasses, reminderVars, deskVars
<1> QED
  BY <1>0, <1>1, <1>3 DEF UncreatedIsBlank

\* The counts of a step that claims nothing and may open a cycle.
LEMMA CountsStand ==
  ASSUME TaskRowTypes, TaskRowTypes', NEW t \in Tasks,
         reminders[t] + Cardinality(Reminding(t)) + MayBeClaimed(t) <= cycles[t],
         reminders'[t] = reminders[t], Reminding(t)' \subseteq Reminding(t),
         \/ cycles'[t] = cycles[t] + 1
         \/ cycles'[t] = cycles[t] /\ task'[t] # "none" /\ notified'[t] = notified[t] /\ task[t] # "none"
         \/ cycles'[t] = cycles[t] /\ task'[t] = task[t] /\ notified'[t] = notified[t]
  PROVE  reminders'[t] + Cardinality(Reminding(t)') + MayBeClaimed(t)' <= cycles'[t]
<1>1. /\ Cardinality(Reminding(t)) \in Nat /\ Cardinality(Reminding(t)') \in Nat
      /\ Cardinality(Reminding(t)') <= Cardinality(Reminding(t))
  BY TaskConstants, Counted, NoMore DEF Reminding
<1>2. MayBeClaimed(t) \in {0, 1} /\ MayBeClaimed(t)' \in {0, 1}
  BY DEF MayBeClaimed
<1>3. cycles'[t] = cycles[t] + 1 \/ (cycles'[t] = cycles[t] /\ MayBeClaimed(t)' = MayBeClaimed(t))
  BY DEF MayBeClaimed
<1>4. reminders[t] \in Nat /\ cycles[t] \in Nat
  BY DEF TaskRowTypes
<1> QED
  BY <1>1, <1>2, <1>3, <1>4

\* A claim takes the reminder of its cycle, and a new due date brings one more.
LEMMA RemindersLeftNext ==
  ASSUME ReminderInv, [ReminderNext]_reminderVars
  PROVE  RemindersLeft'
<1>0. DeskTypes /\ TaskRowTypes /\ UncreatedIsBlank /\ RemindersLeft
  BY DEF ReminderInv, ReminderTypeOK, DeskTypes, TaskRowTypes
<1>00. TaskRowTypes'
  BY <1>0, TaskRowTypesNext
<1> SUFFICES ASSUME NEW t \in Tasks
             PROVE  reminders'[t] + Cardinality(Reminding(t)') + MayBeClaimed(t)' <= cycles'[t]
  BY DEF RemindersLeft
<1> DEFINE Left == reminders'[t] + Cardinality(Reminding(t)') + MayBeClaimed(t)' <= cycles'[t]
<1>a. reminders[t] + Cardinality(Reminding(t)) + MayBeClaimed(t) <= cycles[t]
  BY <1>0 DEF RemindersLeft
<1>b. ASSUME reminders'[t] = reminders[t], Reminding(t)' \subseteq Reminding(t),
             \/ cycles'[t] = cycles[t] + 1
             \/ cycles'[t] = cycles[t] /\ task'[t] # "none" /\ notified'[t] = notified[t] /\ task[t] # "none"
             \/ cycles'[t] = cycles[t] /\ task'[t] = task[t] /\ notified'[t] = notified[t]
      PROVE  Left
  BY <1>0, <1>00, <1>a, <1>b, CountsStand
<1>c. ASSUME NEW p \in Desks, Home(p) PROVE Reminding(t)' \subseteq Reminding(t)
  BY <1>0, <1>c, HomeAndOthers
<1>1. CASE UNCHANGED <<taskVars, storyVars>> /\ Reminding(t)' \subseteq Reminding(t)
  BY <1>1, <1>b DEF taskVars, storyVars
<1>2. ASSUME NEW p \in Desks, NEW who, UpdateTask(p, who) PROVE Left
  <2> DEFINE s == onTask[p]
  <2>1. task' = task /\ reminders' = reminders /\ Home(p) /\ formReset[p] \in BOOLEAN
    BY <1>0, <1>2 DEF UpdateTask, DeskTypes
  <2>2. CASE formReset[p]
    <3>1. cycles'[t] = cycles[t] + 1 \/ (cycles'[t] = cycles[t] /\ notified'[t] = notified[t])
      BY <1>0, <1>2, <2>2 DEF UpdateTask, TaskRowTypes, Opens
    <3> QED
      BY <1>b, <1>c, <2>1, <3>1
  <2>3. CASE ~formReset[p]
    <3>1. cycles' = cycles /\ notified'[t] = notified[t]
      BY <1>0, <1>2, <2>3 DEF UpdateTask, TaskRowTypes
    <3> QED
      BY <1>b, <1>c, <2>1, <3>1
  <2> QED
    BY <2>2, <2>3
<1>3. ASSUME NEW p \in Desks, CompleteTask(p) PROVE Left
  <2>1. Home(p) /\ UNCHANGED <<notified, cycles, reminders>>
    BY <1>3 DEF CompleteTask, storyVars
  <2>2. task'[t] = task[t] \/ (task'[t] # "none" /\ task[t] # "none")
    BY <1>0, <1>3 DEF CompleteTask, TaskRowTypes, Rows
  <2> QED
    BY <1>b, <1>c, <2>1, <2>2
<1>4. ASSUME NEW p \in Desks, ReopenTask(p) PROVE Left
  <2>1. Home(p) /\ reminders' = reminders
    BY <1>4 DEF ReopenTask
  <2>2. cycles'[t] = cycles[t] + 1 \/ (cycles'[t] = cycles[t] /\ notified'[t] = notified[t] /\ task'[t] = task[t])
    BY <1>0, <1>4 DEF ReopenTask, TaskRowTypes, Opens
  <2> QED
    BY <1>b, <1>c, <2>1, <2>2
<1>5. ASSUME NEW p \in Desks, NEW s \in Tasks, ClaimReminder(p, s) PROVE Left
  <2>1. UNCHANGED <<task, cycles, reminders>> /\ desk[p] = "scan" /\ task[s] # "none" /\ ~notified[s]
    BY <1>5 DEF ClaimReminder, storyVars, Remindable, Rows
  <2>2. notified' = [notified EXCEPT ![s] = TRUE]
    BY <1>5 DEF ClaimReminder
  <2>3. Reminding(t)' \subseteq Reminding(t) \cup (IF t = s THEN {p} ELSE {})
    BY <1>0, <1>5 DEF ClaimReminder, Reminding, DeskTypes
  <2>4. CASE t # s
    <3>1. notified'[t] = notified[t] /\ Reminding(t)' \subseteq Reminding(t)
      BY <1>0, <2>2, <2>3, <2>4 DEF TaskRowTypes
    <3> QED
      BY <1>b, <2>1, <3>1
  <2>5. CASE t = s
    <3>1. Cardinality(Reminding(t)') \in Nat /\ Cardinality(Reminding(t)') <= Cardinality(Reminding(t)) + 1
      <4>1. Reminding(t) \in SUBSET Desks /\ Reminding(t)' \in SUBSET (Reminding(t) \cup {p})
        BY <2>3, <2>5 DEF Reminding
      <4> QED
        BY <4>1, OneMore, TaskConstants
    <3>2. MayBeClaimed(t) = 1 /\ MayBeClaimed(t)' = 0
      BY <1>0, <2>1, <2>2, <2>5 DEF MayBeClaimed, TaskRowTypes
    <3>3. Cardinality(Reminding(t)) \in Nat /\ reminders[t] \in Nat /\ cycles[t] \in Nat
      BY <1>0, TaskConstants, Counted DEF TaskRowTypes, Reminding
    <3> QED
      BY <1>a, <2>1, <3>1, <3>2, <3>3
  <2> QED
    BY <2>4, <2>5
<1>6. ASSUME NEW p \in Desks, CreateReminder(p) PROVE Left
  <2> DEFINE s == onTask[p]
  <2>1. /\ UNCHANGED <<task, notified, cycles>> /\ desk[p] = "remind" /\ s \in Tasks
        /\ reminders' = [reminders EXCEPT ![s] = reminders[s] + 1]
    BY <1>6 DEF CreateReminder, taskVars, Rows
  <2>2. Reminding(t)' = Reminding(t) \ {p} /\ (t = s => p \in Reminding(t))
    BY <1>0, <1>6, TaskConstants DEF CreateReminder, Reminding, DeskTypes
  <2>3. CASE t # s
    <3>1. reminders'[t] = reminders[t]
      BY <1>0, <2>1, <2>3 DEF TaskRowTypes
    <3> QED
      BY <1>b, <2>1, <2>2, <3>1
  <2>4. CASE t = s
    <3>1. Cardinality(Reminding(t)') \in Nat /\ Cardinality(Reminding(t)') + 1 <= Cardinality(Reminding(t))
      <4>1. Reminding(t) \in SUBSET Desks /\ p \in Reminding(t) /\ Reminding(t)' \in SUBSET (Reminding(t) \ {p})
        BY <2>2, <2>4 DEF Reminding
      <4> QED
        BY <4>1, OneLess, TaskConstants
    <3>2. MayBeClaimed(t)' = MayBeClaimed(t) /\ MayBeClaimed(t) \in {0, 1}
      BY <2>1 DEF MayBeClaimed
    <3>3. Cardinality(Reminding(t)) \in Nat /\ reminders[t] \in Nat /\ cycles[t] \in Nat
      BY <1>0, TaskConstants, Counted DEF TaskRowTypes, Reminding
    <3>4. reminders'[t] = reminders[t] + 1 /\ cycles' = cycles
      BY <1>0, <2>1, <2>4 DEF TaskRowTypes
    <3> QED
      BY <1>a, <3>1, <3>2, <3>3, <3>4
  <2> QED
    BY <2>3, <2>4
<1>7. ASSUME NEW s \in Tasks, NEW date, NEW who, CreateTask(s, date, who) PROVE Left
  <2>1. UNCHANGED <<notified, reminders>> /\ Reminding(t)' = Reminding(t)
    BY <1>7 DEF CreateTask, deskVars, Reminding
  <2>2. cycles'[t] = cycles[t] + 1 \/ (cycles'[t] = cycles[t] /\ task'[t] = task[t])
    BY <1>0, <1>7 DEF CreateTask, Opens, TaskRowTypes
  <2> QED
    BY <1>b, <2>1, <2>2
<1>8. ASSUME NEW s \in Tasks, (\E who \in Agents : ReassignTask(s, who)) \/ DeleteTask(s) PROVE Left
  <2>1. UNCHANGED <<notified, reminders, cycles>> /\ Reminding(t)' = Reminding(t)
    BY <1>8 DEF ReassignTask, DeleteTask, deskVars, storyVars, Reminding
  <2>2. task'[t] = task[t] \/ (task'[t] # "none" /\ task[t] # "none")
    BY <1>0, <1>8 DEF ReassignTask, DeleteTask, TaskRowTypes, Rows
  <2> QED
    BY <1>b, <2>1, <2>2
<1>9. ASSUME NEW p \in Desks, ScanDone(p) \/ TaskVanished(p) PROVE Left
  BY <1>1, <1>9, <1>c DEF ScanDone, TaskVanished
<1>10. ASSUME NEW p \in Desks, DeskDies(p) PROVE Left
  BY <1>b, <1>c, <1>10 DEF DeskDies, taskVars
<1>11. ASSUME NEW p \in Desks,
              \/ ReadReminders(p)
              \/ \E s \in Tasks : SkipReminder(p, s) \/ ReadForToggle(p, s)
              \/ \E s \in Tasks, date \in DueHours \cup {NoDate} : ReadForUpdate(p, s, date)
       PROVE  UNCHANGED <<taskVars, storyVars>> /\ Reminding(t)' \subseteq Reminding(t)
  <2>1. UNCHANGED <<taskVars, storyVars>>
    BY <1>11 DEF ReadReminders, SkipReminder, ReadForToggle, ReadForUpdate
  <2>2. Reminding(t)' \subseteq Reminding(t)
    BY <1>0, <1>11 DEF ReadReminders, SkipReminder, ReadForToggle, ReadForUpdate, Reminding, DeskTypes
  <2> QED
    BY <2>1, <2>2
<1>12. UNCHANGED reminderVars \/ HourPasses => UNCHANGED <<taskVars, storyVars>> /\ Reminding(t)' \subseteq Reminding(t)
  BY DEF reminderVars, HourPasses, deskVars, Reminding
<1> HIDE DEF Left
<1> QED
  BY <1>1, <1>2, <1>3, <1>4, <1>5, <1>6, <1>7, <1>8, <1>9, <1>10, <1>11, <1>12
  DEF ReminderNext, DeskStep, Left

\* What a claim stands for: nobody drops it but by dying, or on a deleted task.
LEMMA NotifiedMeansToldNext ==
  ASSUME ReminderInv, [ReminderNext]_reminderVars
  PROVE  NotifiedMeansTold'
<1>0. DeskTypes /\ TaskRowTypes /\ UncreatedIsBlank /\ NotifiedMeansTold
  BY DEF ReminderInv, ReminderTypeOK, DeskTypes, TaskRowTypes
<1> SUFFICES ASSUME NEW t \in Tasks, t \in Rows', notified'[t]
             PROVE  told'[t] \/ InTime(t)' # {} \/ spoiled'[t]
  BY DEF NotifiedMeansTold, Rows
<1> DEFINE Meant == told'[t] \/ InTime(t)' # {} \/ spoiled'[t]
<1>a. t \in Rows /\ notified[t] => told[t] \/ InTime(t) # {} \/ spoiled[t]
  BY <1>0 DEF NotifiedMeansTold
<1>b. ASSUME t \in Rows, notified[t], told[t] => told'[t], InTime(t) # {} => InTime(t)' # {}, spoiled[t] => spoiled'[t]
      PROVE  Meant
  BY <1>a, <1>b
<1>c. ASSUME NEW p \in Desks, desk[p] # "remind" \/ onTask[p] # t, Home(p), dueAt'[t] = dueAt[t]
      PROVE  InTime(t)' = InTime(t)
  <2>1. \A q \in Desks \ {p} : desk'[q] = desk[q] /\ onTask'[q] = onTask[q] /\ readDue'[q] = readDue[q]
    BY <1>0, <1>c DEF Home, DeskTypes
  <2>2. p \notin InTime(t) /\ p \notin InTime(t)'
    BY <1>0, <1>c DEF Home, DeskTypes, InTime, Reminding
  <2> QED
    BY <1>c, <2>1, <2>2 DEF InTime, Reminding
<1>2. ASSUME NEW p \in Desks, NEW who, UpdateTask(p, who) PROVE Meant
  <2>1. task' = task /\ desk[p] = "update" /\ Home(p) /\ formReset[p] \in BOOLEAN /\ onTask[p] \in Tasks
    BY <1>0, <1>2 DEF UpdateTask, DeskTypes, Rows
  <2>2. t \in Rows /\ (dueAt'[t] = dueAt[t] => InTime(t)' = InTime(t))
    BY <1>c, <2>1 DEF Rows
  <2>3. notified[t] /\ (t = onTask[p] => ~formReset[p])
    BY <1>0, <1>2, <2>1 DEF UpdateTask, TaskRowTypes
  <2>6. dueAt' = [dueAt EXCEPT ![onTask[p]] = formDue[p]] /\ dueAt \in [Tasks -> Nat \cup {NoDate}]
    BY <1>0, <1>2 DEF UpdateTask, TaskRowTypes
  <2>4. CASE formReset[p]
    <3>1. told'[t] = told[t] /\ spoiled'[t] = spoiled[t] /\ dueAt'[t] = dueAt[t]
      BY <1>0, <1>2, <2>1, <2>3, <2>4, <2>6 DEF UpdateTask, TaskRowTypes, Opens
    <3> QED
      BY <1>b, <2>2, <2>3, <3>1
  <2>5. CASE ~formReset[p]
    <3>1. /\ told' = [told EXCEPT ![onTask[p]] = @ /\ ~(formDue[p] # dueAt[onTask[p]])]
          /\ spoiled' = [spoiled EXCEPT ![onTask[p]] = @ \/ (formDue[p] # dueAt[onTask[p]])]
      BY <1>2, <2>5 DEF UpdateTask
    <3>2. told[t] => told'[t] \/ spoiled'[t]
      BY <1>0, <2>1, <3>1 DEF TaskRowTypes
    <3>3. spoiled[t] => spoiled'[t]
      BY <1>0, <2>1, <3>1 DEF TaskRowTypes
    <3>4. dueAt'[t] = dueAt[t] \/ spoiled'[t]
      BY <1>0, <2>1, <2>6, <3>1 DEF TaskRowTypes
    <3> QED
      BY <1>a, <2>2, <2>3, <3>2, <3>3, <3>4
  <2> QED
    BY <2>4, <2>5
<1>3. ASSUME NEW p \in Desks, CompleteTask(p) PROVE Meant
  <2>1. Home(p) /\ desk[p] # "remind" /\ UNCHANGED <<notified, told, spoiled, dueAt>>
    BY <1>3 DEF CompleteTask, storyVars
  <2>2. t \in Rows
    BY <1>0, <1>3 DEF CompleteTask, TaskRowTypes, Rows
  <2> QED
    BY <1>b, <1>c, <2>1, <2>2
<1>4. ASSUME NEW p \in Desks, ReopenTask(p) PROVE Meant
  <2>1. Home(p) /\ desk[p] # "remind" /\ dueAt' = dueAt
    BY <1>4 DEF ReopenTask
  <2>2. onTask[p] # t
    BY <1>0, <1>4 DEF ReopenTask, TaskRowTypes
  <2>3. notified[t] /\ t \in Rows /\ told'[t] = told[t] /\ spoiled'[t] = spoiled[t]
    BY <1>0, <1>4, <2>2 DEF ReopenTask, TaskRowTypes, Opens, Rows
  <2> QED
    BY <1>b, <1>c, <2>1, <2>3
<1>5. ASSUME NEW p \in Desks, NEW s \in Tasks, ClaimReminder(p, s) PROVE Meant
  <2>1. UNCHANGED <<task, told, dueAt, readDue>> /\ desk[p] = "scan"
    BY <1>5 DEF ClaimReminder
  <2>2. CASE t = s
    <3>1. p \in Reminding(t)'
      BY <1>0, <1>5, <2>2 DEF ClaimReminder, Reminding, DeskTypes
    <3>2. readDue[p][t] = dueAt[t] \/ spoiled'[t]
      BY <1>0, <1>5, <2>2 DEF ClaimReminder, TaskRowTypes
    <3> QED
      BY <2>1, <3>1, <3>2 DEF InTime
  <2>3. CASE t # s
    <3>1. notified[t] /\ t \in Rows /\ Reminding(t)' = Reminding(t)
      BY <1>0, <1>5, <2>1, <2>3 DEF ClaimReminder, Reminding, DeskTypes, TaskRowTypes, Rows
    <3>2. spoiled'[t] = spoiled[t] /\ InTime(t)' = InTime(t)
      BY <1>0, <1>5, <2>1, <2>3, <3>1 DEF ClaimReminder, TaskRowTypes, InTime
    <3> QED
      BY <1>b, <2>1, <3>1, <3>2
  <2> QED
    BY <2>2, <2>3
<1>6. ASSUME NEW p \in Desks, CreateReminder(p) PROVE Meant
  <2>1. /\ UNCHANGED <<task, notified, spoiled, dueAt, readDue>> /\ onTask[p] \in Tasks
        /\ told' = [told EXCEPT ![onTask[p]] = @ \/ readDue[p][onTask[p]] = dueAt[onTask[p]]]
    BY <1>6 DEF CreateReminder, taskVars, Rows
  <2>2. CASE t = onTask[p]
    <3>1. told'[t] = (told[t] \/ readDue[p][t] = dueAt[t]) /\ t \in Rows /\ notified[t]
      BY <1>0, <2>1, <2>2 DEF TaskRowTypes, Rows
    <3>2. \A q \in Desks \ {p} : desk'[q] = desk[q] /\ onTask'[q] = onTask[q]
      BY <1>0, <1>6 DEF CreateReminder, DeskTypes
    <3>3. readDue[p][t] # dueAt[t] => InTime(t) \subseteq InTime(t)'
      BY <2>1, <3>2 DEF InTime, Reminding
    <3> QED
      BY <1>a, <2>1, <3>1, <3>3
  <2>3. CASE t # onTask[p]
    <3>1. told'[t] = told[t] /\ t \in Rows /\ notified[t]
      BY <1>0, <2>1, <2>3 DEF TaskRowTypes, Rows
    <3>2. Reminding(t)' = Reminding(t)
      BY <1>0, <1>6, <2>3, TaskConstants DEF CreateReminder, Reminding, DeskTypes
    <3>3. InTime(t)' = InTime(t)
      BY <2>1, <3>2 DEF InTime
    <3> QED
      BY <1>b, <2>1, <3>1, <3>3
  <2> QED
    BY <2>2, <2>3
<1>7. ASSUME NEW s \in Tasks, NEW date, NEW who, CreateTask(s, date, who) PROVE Meant
  <2>1. notified' = notified /\ UNCHANGED deskVars /\ task[s] = "none"
    BY <1>7 DEF CreateTask
  <2>2. t # s
    BY <1>0, <2>1 DEF UncreatedIsBlank
  <2>3. told'[t] = told[t] /\ spoiled'[t] = spoiled[t] /\ dueAt'[t] = dueAt[t] /\ t \in Rows
    BY <1>0, <1>7, <2>2 DEF CreateTask, Opens, TaskRowTypes, Rows
  <2>4. InTime(t)' = InTime(t)
    BY <2>1, <2>3 DEF deskVars, InTime, Reminding
  <2> QED
    BY <1>b, <2>1, <2>3, <2>4
<1>8. ASSUME NEW s \in Tasks, (\E who \in Agents : ReassignTask(s, who)) \/ DeleteTask(s) PROVE Meant
  <2>1. UNCHANGED <<notified, told, spoiled>> /\ InTime(t)' = InTime(t)
    BY <1>8 DEF ReassignTask, DeleteTask, deskVars, storyVars, InTime, Reminding
  <2>2. t \in Rows
    BY <1>0, <1>8 DEF ReassignTask, DeleteTask, TaskRowTypes, Rows
  <2> QED
    BY <1>b, <2>1, <2>2
<1>9. ASSUME NEW p \in Desks, ScanDone(p) \/ TaskVanished(p) PROVE Meant
  <2>1. UNCHANGED <<task, notified, told, spoiled, dueAt>> /\ Home(p)
    BY <1>9 DEF ScanDone, TaskVanished, taskVars, storyVars
  <2>2. t \in Rows
    BY <2>1 DEF Rows
  <2>3. desk[p] # "remind" \/ onTask[p] # t
    BY <1>9, <2>2 DEF ScanDone, TaskVanished
  <2> QED
    BY <1>b, <1>c, <2>1, <2>2, <2>3
<1>10. ASSUME NEW p \in Desks, DeskDies(p) PROVE Meant
  <2>1. UNCHANGED <<task, notified, told, dueAt>> /\ Home(p) /\ t \in Rows
    BY <1>10 DEF DeskDies, taskVars, Rows
  <2>2. CASE desk[p] = "remind" /\ onTask[p] = t
    <3>1. spoiled'[t] = TRUE
      BY <1>0, <1>10, <2>2 DEF DeskDies, TaskRowTypes
    <3> QED
      BY <3>1
  <2>3. CASE ~(desk[p] = "remind" /\ onTask[p] = t)
    <3>1. spoiled'[t] = spoiled[t]
      BY <1>0, <1>10, <2>3 DEF DeskDies, TaskRowTypes
    <3> QED
      BY <1>b, <1>c, <2>1, <2>3, <3>1
  <2> QED
    BY <2>2, <2>3
<1>11. ASSUME NEW p \in Desks,
              \/ ReadReminders(p)
              \/ \E s \in Tasks : SkipReminder(p, s) \/ ReadForToggle(p, s)
              \/ \E s \in Tasks, date \in DueHours \cup {NoDate} : ReadForUpdate(p, s, date)
       PROVE  Meant
  <2>1. UNCHANGED <<taskVars, storyVars>>
    BY <1>11 DEF ReadReminders, SkipReminder, ReadForToggle, ReadForUpdate
  <2>3. Reminding(t)' = Reminding(t)
    BY <1>0, <1>11 DEF ReadReminders, SkipReminder, ReadForToggle, ReadForUpdate, Reminding, DeskTypes
  <2>4. \A q \in Reminding(t) : readDue'[q] = readDue[q]
    BY <1>0, <1>11 DEF ReadReminders, SkipReminder, ReadForToggle, ReadForUpdate, Reminding, DeskTypes
  <2>2. InTime(t)' = InTime(t)
    BY <2>1, <2>3, <2>4 DEF InTime, taskVars
  <2> QED
    BY <1>b, <2>1, <2>2 DEF taskVars, storyVars, Rows
<1>12. CASE UNCHANGED reminderVars \/ HourPasses
  <2>1. UNCHANGED <<taskVars, storyVars>> /\ InTime(t)' = InTime(t)
    BY <1>12 DEF reminderVars, HourPasses, deskVars, taskVars, InTime, Reminding
  <2> QED
    BY <1>b, <2>1 DEF taskVars, storyVars, Rows
<1> HIDE DEF Meant
<1> QED
  BY <1>2, <1>3, <1>4, <1>5, <1>6, <1>7, <1>8, <1>9, <1>10, <1>11, <1>12
  DEF ReminderNext, DeskStep, Meant

\* Every step keeps the invariant of reminders.
LEMMA ReminderInvNext == ReminderInv /\ [ReminderNext]_reminderVars => ReminderInv'
<1> SUFFICES ASSUME ReminderInv, [ReminderNext]_reminderVars PROVE ReminderInv'
  OBVIOUS
<1>1. ReminderTypeOK'
  BY ReminderTypeNext DEF ReminderInv
<1> QED
  BY <1>1, UncreatedNext, RemindersLeftNext, NotifiedMeansToldNext DEF ReminderInv

\* The invariant gives what the runs check.
LEMMA RemindersAreSafe == ReminderInv => ReminderTypeOK /\ OneReminderPerCycle /\ NotifiedMeansTold
<1> SUFFICES ASSUME ReminderInv, NEW t \in Tasks
             PROVE  reminders[t] + Cardinality(Reminding(t)) <= cycles[t]
  BY DEF ReminderInv, OneReminderPerCycle
<1>1. /\ Cardinality(Reminding(t)) \in Nat /\ MayBeClaimed(t) \in {0, 1}
      /\ reminders[t] \in Nat /\ cycles[t] \in Nat
  BY TaskConstants, Counted DEF Reminding, MayBeClaimed, ReminderInv, ReminderTypeOK
<1>2. reminders[t] + Cardinality(Reminding(t)) + MayBeClaimed(t) <= cycles[t]
  BY DEF ReminderInv, RemindersLeft
<1> QED
  BY <1>1, <1>2

-----------------------------------------------------------------------------
(* Website inquiries: the two advisory locks, and what they keep apart.    *)

\* The type invariant's parts: the table, the requests and the locks.
InquiryTypes ==
  /\ inquiry \in [InquiryRows -> {"none", "unread", "read", "deleted"}]
  /\ message \in [InquiryRows -> Messages \cup {NoMessage}]
  /\ alerts \in [InquiryRows -> Nat]

\* Which rows count as recent.
RecentTypes == recent \in [InquiryRows -> BOOLEAN]

\* What the requests have in hand.
VisitTypes ==
  /\ visit \in [Visits -> VisitLabels] /\ typed \in [Visits -> Messages \cup {NoMessage}]
  /\ created \in [Visits -> InquiryRows \cup {NoInquiry}]
  /\ missing \in [Visits -> SUBSET InquiryRows] /\ aborts \in Nat

\* Each lock has at most one holder, who is within its transaction.
LockTypes ==
  /\ textLock \in [Messages -> SUBSET Visits] /\ catchUpLock \in SUBSET Visits
  /\ \A v \in Visits, m \in Messages : v \in textLock[m] <=> visit[v] \in {"look", "create"} /\ typed[v] = m
  /\ \A v \in Visits : v \in catchUpLock <=> visit[v] \in {"missing", "tell"}
  /\ \A m \in Messages : \A v, w \in textLock[m] : v = w
  /\ \A v, w \in catchUpLock : v = w

\* What a request has in hand it has in hand only while it needs it.
HandsFit ==
  \A v \in Visits :
    /\ visit[v] \in {"lock", "look", "create"} => typed[v] \in Messages
    /\ created[v] # NoInquiry => visit[v] = "notify" /\ created[v] \notin ExternalRows
    /\ missing[v] # {} => visit[v] = "tell"

\* A row that is not there has no notifications, and nobody has it in hand.
AbsentIsQuiet ==
  \A i \in InquiryRows : inquiry[i] = "none" =>
    alerts[i] = 0 /\ \A v \in Visits : created[v] # i /\ i \notin missing[v]

\* A row was created by one request.
CreatedByOne ==
  \A v, w \in Visits : created[v] = created[w] /\ created[v] # NoInquiry => v = w

\* A request about to write its inquiry found no copy, and none can come.
WriterIsFirst ==
  \A v \in Visits : visit[v] = "create" => ~SameRecently(typed[v])

\* The notification a request or a poll is about to create.
ToNotify(i) == IF \E v \in Visits : created[v] = i THEN 1 ELSE 0
ToTell(i)   == IF \E v \in Visits : i \in missing[v] THEN 1 ELSE 0

\* The creator tells once, one poll at most tells again, and of a row from outside only a poll.
AlertsLeft ==
  \A i \in InquiryRows :
    alerts[i] + ToNotify(i) + ToTell(i) <= IF i \in ExternalRows THEN 1 ELSE 2

\* The inductive invariant of inquiries.
InboxInv ==
  /\ InquiryTypes /\ RecentTypes /\ VisitTypes /\ LockTypes
  /\ HandsFit /\ AbsentIsQuiet /\ CreatedByOne /\ WriterIsFirst /\ OneCopyPerWindow /\ AlertsLeft

LEMMA InboxInvInit == InboxInit => InboxInv
<1> SUFFICES ASSUME InboxInit PROVE InboxInv
  OBVIOUS
<1> USE InquiryConstants
<1>1. InquiryTypes /\ VisitTypes
  BY DEF InboxInit, InquiryTypes, VisitTypes, VisitLabels
<1>2. RecentTypes
  BY DEF InboxInit, RecentTypes
<1>3. LockTypes
  BY DEF InboxInit, LockTypes
<1>4. HandsFit /\ AbsentIsQuiet /\ CreatedByOne /\ WriterIsFirst
  BY DEF InboxInit, HandsFit, AbsentIsQuiet, CreatedByOne, WriterIsFirst
<1>5. OneCopyPerWindow
  BY DEF InboxInit, OneCopyPerWindow, Inbox
<1>6. AlertsLeft
  <2>1. ASSUME NEW i \in InquiryRows PROVE alerts[i] = 0 /\ ToNotify(i) = 0 /\ ToTell(i) = 0
    BY DEF InboxInit, ToNotify, ToTell
  <2> QED
    BY <2>1 DEF AlertsLeft
<1> QED
  BY <1>1, <1>2, <1>3, <1>4, <1>5, <1>6 DEF InboxInv

\* What leaving does: the one who leaves has nothing in hand and no lock.
LEMMA DepartClears ==
  ASSUME VisitTypes, LockTypes, HandsFit, NEW v \in Visits, Depart(v), aborts' \in Nat
  PROVE  /\ VisitTypes' /\ LockTypes' /\ HandsFit'
         /\ visit'[v] = "idle" /\ created'[v] = NoInquiry /\ missing'[v] = {}
         /\ \A w \in Visits \ {v} : /\ visit'[w] = visit[w] /\ typed'[w] = typed[w]
                                    /\ created'[w] = created[w] /\ missing'[w] = missing[w]
<1>1. /\ visit' = [visit EXCEPT ![v] = "idle"] /\ typed' = [typed EXCEPT ![v] = NoMessage]
      /\ created' = [created EXCEPT ![v] = NoInquiry] /\ missing' = [missing EXCEPT ![v] = {}]
  BY DEF Depart, VisitGoto
<1>2. VisitTypes'
  BY <1>1 DEF VisitTypes, VisitLabels
<1>3. /\ visit'[v] = "idle" /\ created'[v] = NoInquiry /\ missing'[v] = {} /\ typed'[v] = NoMessage
      /\ \A w \in Visits \ {v} : /\ visit'[w] = visit[w] /\ typed'[w] = typed[w]
                                 /\ created'[w] = created[w] /\ missing'[w] = missing[w]
  BY <1>1 DEF VisitTypes
<1>4. HandsFit'
  BY <1>3 DEF HandsFit
<1>5. \A m \in Messages : textLock'[m] = textLock[m] \ {v}
  BY DEF Depart, LockTypes
<1>6. /\ textLock' \in [Messages -> SUBSET Visits] /\ catchUpLock' = catchUpLock \ {v}
  BY DEF Depart, LockTypes
<1>7. LockTypes'
  BY <1>3, <1>5, <1>6 DEF LockTypes
<1> QED
  BY <1>2, <1>3, <1>4, <1>7

LEMMA InboxTypesNext ==
  ASSUME InboxInv, [InboxNext]_inboxVars
  PROVE  InquiryTypes' /\ RecentTypes'
<1> USE DEF InboxInv
<1>1. ASSUME NEW i \in InquiryRows, NEW m \in Messages \cup {NoMessage}, Arrive(i, m), UNCHANGED alerts
      PROVE  InquiryTypes' /\ RecentTypes'
  <2>1. RecentTypes'
    BY <1>1 DEF Arrive, RecentTypes
  <2> QED
    BY <1>1, <2>1 DEF Arrive, InquiryTypes
<1>2. ASSUME UNCHANGED inquiryVars, alerts' \in [InquiryRows -> Nat] PROVE InquiryTypes' /\ RecentTypes'
  BY <1>2 DEF inquiryVars, InquiryTypes, RecentTypes
<1>3. alerts \in [InquiryRows -> Nat]
  BY DEF InquiryTypes
<1>4. ASSUME NEW v \in Visits, CreateInquiry(v, created'[v]) \/ \E i \in InquiryRows : CreateInquiry(v, i)
      PROVE  \E i \in InquiryRows, m \in Messages \cup {NoMessage} : Arrive(i, m) /\ UNCHANGED alerts
  BY <1>4 DEF CreateInquiry, FreeRows, VisitTypes
<1>5. ASSUME NEW v \in Visits, NotifyNewInquiry(v) PROVE UNCHANGED inquiryVars /\ alerts' \in [InquiryRows -> Nat]
  BY <1>3, <1>5 DEF NotifyNewInquiry, Inbox
<1>6. ASSUME NEW v \in Visits, TellAdmins(v) PROVE UNCHANGED inquiryVars /\ alerts' \in [InquiryRows -> Nat]
  <2>1. \A i \in InquiryRows : (IF i \in missing[v] THEN alerts[i] + 1 ELSE alerts[i]) \in Nat
    BY <1>3
  <2> QED
    BY <1>3, <1>6, <2>1 DEF TellAdmins
<1>7. ASSUME NEW v \in Visits,
             \/ LockText(v) \/ LookForCopy(v) \/ FindMissing(v) \/ TryCatchUp(v) \/ VisitDies(v)
             \/ \E m \in Messages : Submit(v, m)
      PROVE  UNCHANGED inquiryVars /\ UNCHANGED alerts
  BY <1>7 DEF LockText, LookForCopy, FindMissing, TryCatchUp, VisitDies, Submit
<1>8. ASSUME NEW i \in InquiryRows, InsertExternally(i) PROVE InquiryTypes' /\ RecentTypes'
  BY <1>1, <1>8 DEF InsertExternally
<1>9. ASSUME NEW i \in InquiryRows, MarkInquiryRead(i) PROVE InquiryTypes' /\ RecentTypes'
  BY <1>9 DEF MarkInquiryRead, InquiryTypes, RecentTypes
<1>10. ASSUME NEW i \in InquiryRows, DeleteInquiry(i) PROVE InquiryTypes' /\ RecentTypes'
  BY <1>10 DEF DeleteInquiry, InquiryTypes, RecentTypes
<1>11. ASSUME NEW i \in InquiryRows, WindowPasses(i) PROVE InquiryTypes' /\ RecentTypes'
  <2>1. RecentTypes'
    BY <1>11 DEF WindowPasses, RecentTypes
  <2> QED
    BY <1>11, <2>1 DEF WindowPasses, InquiryTypes
<1>12. UNCHANGED inboxVars => UNCHANGED inquiryVars /\ UNCHANGED alerts
  BY DEF inboxVars
<1> HIDE DEF InboxInv
<1> QED
  BY <1>1, <1>2, <1>3, <1>4, <1>5, <1>6, <1>7, <1>8, <1>9, <1>10, <1>11, <1>12 DEF InboxNext, VisitStep

\* Every step keeps the requests within their transactions.
LEMMA VisitsNext ==
  ASSUME InboxInv, [InboxNext]_inboxVars
  PROVE  VisitTypes' /\ LockTypes' /\ HandsFit'
<1> DEFINE Goal == VisitTypes' /\ LockTypes' /\ HandsFit'
<1>0. VisitTypes /\ LockTypes /\ HandsFit /\ aborts \in Nat
  BY DEF InboxInv, VisitTypes
<1> USE InquiryConstants
<1>1. CASE UNCHANGED <<lockVars, visitVars>>
  BY <1>0, <1>1 DEF lockVars, visitVars, VisitTypes, LockTypes, HandsFit
<1>2. ASSUME NEW v \in Visits, Depart(v), aborts' \in Nat PROVE Goal
  BY <1>0, <1>2, DepartClears
<1>3. ASSUME NEW v \in Visits, NEW m \in Messages, Submit(v, m) PROVE Goal
  <2>1. VisitTypes' /\ HandsFit'
    BY <1>0, <1>3 DEF Submit, VisitGoto, VisitTypes, VisitLabels, HandsFit
  <2>2. LockTypes'
    BY <1>0, <1>3 DEF Submit, VisitGoto, VisitTypes, LockTypes, lockVars
  <2> QED
    BY <2>1, <2>2
<1>4. ASSUME NEW v \in Visits, LockText(v) PROVE Goal
  <2>1. VisitTypes' /\ HandsFit'
    BY <1>0, <1>4 DEF LockText, VisitGoto, VisitTypes, VisitLabels, HandsFit
  <2>2. LockTypes'
    BY <1>0, <1>4 DEF LockText, VisitGoto, VisitTypes, LockTypes, HandsFit
  <2> QED
    BY <2>1, <2>2
<1>5. ASSUME NEW v \in Visits, LookForCopy(v), ~Depart(v) PROVE Goal
  <2>1. /\ visit[v] = "look" /\ VisitGoto(v, "create")
        /\ UNCHANGED <<textLock, catchUpLock, typed, created, missing, aborts>>
    BY <1>5 DEF LookForCopy, lockVars
  <2>2. VisitTypes' /\ HandsFit'
    BY <1>0, <2>1 DEF VisitGoto, VisitTypes, VisitLabels, HandsFit
  <2>3. LockTypes'
    BY <1>0, <2>1 DEF VisitGoto, VisitTypes, LockTypes
  <2> QED
    BY <2>2, <2>3
<1>6. ASSUME NEW v \in Visits, NEW i \in InquiryRows, CreateInquiry(v, i) PROVE Goal
  <2>1. VisitTypes' /\ HandsFit'
    BY <1>0, <1>6 DEF CreateInquiry, FreeRows, VisitGoto, VisitTypes, VisitLabels, HandsFit
  <2>2. LockTypes'
    <3>1. typed[v] \in Messages /\ v \in textLock[typed[v]]
      BY <1>0, <1>6 DEF CreateInquiry, HandsFit, LockTypes
    <3>2. /\ visit' = [visit EXCEPT ![v] = "notify"] /\ UNCHANGED <<typed, catchUpLock>>
          /\ textLock' = [textLock EXCEPT ![typed[v]] = {}] /\ visit[v] = "create"
      BY <1>6 DEF CreateInquiry, VisitGoto
    <3>3. \A w \in Visits \ {v}, m \in Messages : w \in textLock'[m] <=> w \in textLock[m]
      BY <1>0, <3>1, <3>2 DEF LockTypes
    <3>4. \A m \in Messages : v \notin textLock'[m]
      BY <1>0, <3>1, <3>2 DEF LockTypes
    <3>5. \A w \in Visits \ {v} : visit'[w] = visit[w]
      BY <1>0, <3>2 DEF VisitTypes
    <3>6. visit'[v] = "notify"
      BY <1>0, <3>2 DEF VisitTypes
    <3>7. textLock' \in [Messages -> SUBSET Visits]
      BY <1>0, <3>2 DEF LockTypes
    <3>8. \A w \in Visits, m \in Messages : w \in textLock'[m] <=> visit'[w] \in {"look", "create"} /\ typed'[w] = m
      BY <1>0, <3>2, <3>3, <3>4, <3>5, <3>6 DEF LockTypes
    <3>9. \A m \in Messages : \A u, w \in textLock'[m] : u = w
      BY <1>0, <3>3, <3>4, <3>7 DEF LockTypes
    <3>10. \A w \in Visits : w \in catchUpLock' <=> visit'[w] \in {"missing", "tell"}
      BY <1>0, <3>2, <3>5, <3>6 DEF LockTypes
    <3> QED
      BY <1>0, <3>2, <3>7, <3>8, <3>9, <3>10 DEF LockTypes
  <2> QED
    BY <2>1, <2>2
<1>7. ASSUME NEW v \in Visits, TryCatchUp(v) PROVE Goal
  <2>1. VisitTypes' /\ HandsFit'
    BY <1>0, <1>7 DEF TryCatchUp, VisitGoto, VisitTypes, VisitLabels, HandsFit
  <2>2. LockTypes'
    BY <1>0, <1>7 DEF TryCatchUp, VisitGoto, VisitTypes, LockTypes
  <2> QED
    BY <2>1, <2>2
<1>8. ASSUME NEW v \in Visits, FindMissing(v), ~Depart(v) PROVE Goal
  <2>1. /\ visit[v] = "missing" /\ VisitGoto(v, "tell") /\ missing' = [missing EXCEPT ![v] = OldestSilent]
        /\ UNCHANGED <<textLock, catchUpLock, typed, created, aborts>>
    BY <1>8 DEF FindMissing, lockVars
  <2>2. OldestSilent \subseteq InquiryRows
    BY DEF OldestSilent, Silent
  <2> HIDE DEF OldestSilent
  <2>3. VisitTypes' /\ HandsFit'
    BY <1>0, <2>1, <2>2 DEF VisitGoto, VisitTypes, VisitLabels, HandsFit
  <2>4. LockTypes'
    BY <1>0, <2>1 DEF VisitGoto, VisitTypes, LockTypes
  <2> QED
    BY <2>3, <2>4
<1>9. ASSUME NEW v \in Visits, NotifyNewInquiry(v) \/ TellAdmins(v) PROVE Depart(v) /\ aborts' = aborts
  BY <1>9 DEF NotifyNewInquiry, TellAdmins
<1>10. ASSUME NEW v \in Visits, LookForCopy(v) \/ FindMissing(v) PROVE aborts' = aborts
  BY <1>10 DEF LookForCopy, FindMissing
<1>11. ASSUME NEW v \in Visits, VisitDies(v) PROVE Depart(v) /\ aborts' = aborts + 1
  BY <1>11 DEF VisitDies
<1>12. ASSUME NEW i \in InquiryRows, MarkInquiryRead(i) \/ DeleteInquiry(i) \/ WindowPasses(i) \/ InsertExternally(i)
       PROVE  UNCHANGED <<lockVars, visitVars>>
  BY <1>12 DEF MarkInquiryRead, DeleteInquiry, WindowPasses, InsertExternally
<1>13. UNCHANGED inboxVars => UNCHANGED <<lockVars, visitVars>>
  BY DEF inboxVars
<1>14. aborts + 1 \in Nat
  BY <1>0
<1> HIDE DEF Goal
<1> QED
  BY <1>0, <1>1, <1>2, <1>3, <1>4, <1>5, <1>6, <1>7, <1>8, <1>9, <1>10, <1>11, <1>12, <1>13, <1>14
  DEF InboxNext, VisitStep, Goal

-----------------------------------------------------------------------------
\* Notifications: every one to come is in the hand of one request or poll.
HandsAreClean == AbsentIsQuiet /\ CreatedByOne /\ AlertsLeft

\* A step that puts nothing new into anybody's hand and notifies nobody.
LEMMA HandsStayClean ==
  ASSUME InboxInv, InquiryTypes', VisitTypes',
         \A i \in InquiryRows : inquiry'[i] = "none" => inquiry[i] = "none",
         \A i \in InquiryRows : alerts'[i] <= alerts[i],
         \A w \in Visits : created'[w] = created[w] \/ created'[w] = NoInquiry,
         \A w \in Visits : missing'[w] \subseteq missing[w]
  PROVE  HandsAreClean'
<1>0. /\ AbsentIsQuiet /\ CreatedByOne /\ AlertsLeft
      /\ \A i \in InquiryRows : alerts[i] \in Nat /\ alerts'[i] \in Nat
  BY DEF InboxInv, InquiryTypes
<1>1. AbsentIsQuiet'
  <2> SUFFICES ASSUME NEW i \in InquiryRows, inquiry'[i] = "none"
               PROVE  alerts'[i] = 0 /\ \A v \in Visits : created'[v] # i /\ i \notin missing'[v]
    BY DEF AbsentIsQuiet
  <2>1. alerts[i] = 0 /\ \A v \in Visits : created[v] # i /\ i \notin missing[v]
    BY <1>0 DEF AbsentIsQuiet
  <2>2. alerts'[i] = 0
    BY <1>0, <2>1
  <2> QED
    BY <2>1, <2>2, InquiryConstants
<1>2. CreatedByOne'
  BY <1>0 DEF CreatedByOne
<1>3. AlertsLeft'
  <2> SUFFICES ASSUME NEW i \in InquiryRows
               PROVE  alerts'[i] + ToNotify(i)' + ToTell(i)' <= IF i \in ExternalRows THEN 1 ELSE 2
    BY DEF AlertsLeft
  <2>1. ToNotify(i) \in {0, 1} /\ ToNotify(i)' \in {0, 1} /\ ToTell(i) \in {0, 1} /\ ToTell(i)' \in {0, 1}
    BY DEF ToNotify, ToTell
  <2>2. (ToNotify(i)' = 1 => ToNotify(i) = 1) /\ (ToTell(i)' = 1 => ToTell(i) = 1)
    BY InquiryConstants DEF ToNotify, ToTell
  <2>3. alerts[i] + ToNotify(i) + ToTell(i) <= IF i \in ExternalRows THEN 1 ELSE 2
    BY <1>0 DEF AlertsLeft
  <2> QED
    BY <1>0, <2>1, <2>2, <2>3
<1> QED
  BY <1>1, <1>2, <1>3 DEF HandsAreClean

LEMMA CreateKeepsHandsClean ==
  ASSUME InboxInv, InquiryTypes', NEW v \in Visits, NEW i \in InquiryRows, CreateInquiry(v, i)
  PROVE  HandsAreClean'
<1>0. /\ AbsentIsQuiet /\ CreatedByOne /\ AlertsLeft /\ InquiryTypes /\ VisitTypes
      /\ \A j \in InquiryRows : alerts[j] \in Nat
  BY DEF InboxInv, InquiryTypes
<1>1. /\ i \notin ExternalRows /\ inquiry[i] = "none" /\ UNCHANGED <<alerts, missing>>
      /\ inquiry' = [inquiry EXCEPT ![i] = "unread"] /\ created' = [created EXCEPT ![v] = i]
  BY DEF CreateInquiry, FreeRows, Arrive
<1>2. alerts[i] = 0 /\ \A w \in Visits : created[w] # i /\ i \notin missing[w]
  BY <1>0, <1>1 DEF AbsentIsQuiet
<1>3. \A w \in Visits : created'[w] = IF w = v THEN i ELSE created[w]
  BY <1>0, <1>1 DEF VisitTypes
<1>4. \A j \in InquiryRows : inquiry'[j] = IF j = i THEN "unread" ELSE inquiry[j]
  BY <1>0, <1>1 DEF InquiryTypes
<1>5. AbsentIsQuiet'
  BY <1>0, <1>1, <1>3, <1>4 DEF AbsentIsQuiet
<1>6. CreatedByOne'
  BY <1>0, <1>2, <1>3 DEF CreatedByOne
<1>7. AlertsLeft'
  <2> SUFFICES ASSUME NEW j \in InquiryRows
               PROVE  alerts'[j] + ToNotify(j)' + ToTell(j)' <= IF j \in ExternalRows THEN 1 ELSE 2
    BY DEF AlertsLeft
  <2>1. ToNotify(j) \in {0, 1} /\ ToNotify(j)' \in {0, 1} /\ ToTell(j) \in {0, 1} /\ ToTell(j)' = ToTell(j)
    BY <1>1 DEF ToNotify, ToTell
  <2>2. j # i => ToNotify(j)' <= ToNotify(j)
    BY <1>3 DEF ToNotify
  <2>3. alerts[j] + ToNotify(j) + ToTell(j) <= IF j \in ExternalRows THEN 1 ELSE 2
    BY <1>0 DEF AlertsLeft
  <2>4. ToTell(i) = 0
    BY <1>2 DEF ToTell
  <2> QED
    BY <1>0, <1>1, <1>2, <2>1, <2>2, <2>3, <2>4
<1> QED
  BY <1>5, <1>6, <1>7 DEF HandsAreClean

LEMMA NotifyKeepsHandsClean ==
  ASSUME InboxInv, InquiryTypes', VisitTypes', NEW v \in Visits, NotifyNewInquiry(v), created[v] \in Inbox,
         alerts' = [alerts EXCEPT ![created[v]] = @ + 1]
  PROVE  HandsAreClean'
<1> DEFINE i == created[v]
<1>0. /\ AbsentIsQuiet /\ CreatedByOne /\ AlertsLeft /\ InquiryTypes /\ VisitTypes /\ LockTypes /\ HandsFit
      /\ \A j \in InquiryRows : alerts[j] \in Nat
  BY DEF InboxInv, InquiryTypes
<1>1. Depart(v) /\ inquiry' = inquiry /\ aborts' \in Nat /\ i \in InquiryRows /\ inquiry[i] # "none"
  BY <1>0 DEF NotifyNewInquiry, inquiryVars, VisitTypes, Inbox
<1>2. /\ created'[v] = NoInquiry /\ missing'[v] = {}
      /\ \A w \in Visits \ {v} : created'[w] = created[w] /\ missing'[w] = missing[w]
  BY <1>0, <1>1, DepartClears
<1>3. \A j \in InquiryRows : alerts'[j] = IF j = i THEN alerts[j] + 1 ELSE alerts[j]
  BY <1>0 DEF InquiryTypes
<1>4. AbsentIsQuiet'
  BY <1>0, <1>1, <1>2, <1>3, InquiryConstants DEF AbsentIsQuiet
<1>5. CreatedByOne'
  BY <1>0, <1>2 DEF CreatedByOne
<1>6. AlertsLeft'
  <2> SUFFICES ASSUME NEW j \in InquiryRows
               PROVE  alerts'[j] + ToNotify(j)' + ToTell(j)' <= IF j \in ExternalRows THEN 1 ELSE 2
    BY DEF AlertsLeft
  <2>1. ToNotify(j) \in {0, 1} /\ ToNotify(j)' \in {0, 1} /\ ToTell(j) \in {0, 1} /\ ToTell(j)' \in {0, 1}
    BY DEF ToNotify, ToTell
  <2>2. (ToNotify(j)' = 1 => ToNotify(j) = 1) /\ (ToTell(j)' = 1 => ToTell(j) = 1)
    BY <1>2, InquiryConstants DEF ToNotify, ToTell
  <2>3. j = i => ToNotify(j) = 1 /\ ToNotify(j)' = 0
    BY <1>0, <1>1, <1>2, InquiryConstants DEF ToNotify, CreatedByOne
  <2>4. alerts[j] + ToNotify(j) + ToTell(j) <= IF j \in ExternalRows THEN 1 ELSE 2
    BY <1>0 DEF AlertsLeft
  <2>5. alerts[j] \in Nat /\ (alerts'[j] = alerts[j] \/ (j = i /\ alerts'[j] = alerts[j] + 1))
    BY <1>0, <1>3
  <2> HIDE DEF i
  <2> QED
    BY <2>1, <2>2, <2>3, <2>4, <2>5
<1> QED
  BY <1>4, <1>5, <1>6 DEF HandsAreClean

LEMMA FindKeepsHandsClean ==
  ASSUME InboxInv, InquiryTypes', NEW v \in Visits, FindMissing(v), ~Depart(v)
  PROVE  HandsAreClean'
<1>0. /\ AbsentIsQuiet /\ CreatedByOne /\ AlertsLeft /\ InquiryTypes /\ VisitTypes /\ LockTypes /\ HandsFit
      /\ \A j \in InquiryRows : alerts[j] \in Nat
  BY DEF InboxInv, InquiryTypes
<1>1. /\ visit[v] = "missing" /\ missing' = [missing EXCEPT ![v] = OldestSilent]
      /\ UNCHANGED <<created, inquiry, alerts>>
  BY DEF FindMissing, inquiryVars
<1>2. \A i \in OldestSilent : i \in InquiryRows /\ inquiry[i] = "unread" /\ alerts[i] = 0
  BY DEF OldestSilent, Silent
<1> HIDE DEF OldestSilent
<1>3. \A w \in Visits : missing'[w] = IF w = v THEN OldestSilent ELSE missing[w]
  BY <1>0, <1>1 DEF VisitTypes
<1>4. \A w \in Visits : missing[w] = {}
  BY <1>0, <1>1 DEF LockTypes, HandsFit
<1>5. AbsentIsQuiet' /\ CreatedByOne'
  BY <1>0, <1>1, <1>2, <1>3 DEF AbsentIsQuiet, CreatedByOne
<1>6. ExternalRows \subseteq InquiryRows /\ \A w \in Visits : created[w] \notin ExternalRows
  <2>1. NoInquiry \notin ExternalRows
    BY InquiryConstants
  <2> QED
    BY <1>0, <2>1, InquiryConstants DEF HandsFit
<1>7. AlertsLeft'
  <2> SUFFICES ASSUME NEW j \in InquiryRows
               PROVE  alerts'[j] + ToNotify(j)' + ToTell(j)' <= IF j \in ExternalRows THEN 1 ELSE 2
    BY DEF AlertsLeft
  <2>1. ToNotify(j)' = ToNotify(j) /\ ToNotify(j) \in {0, 1} /\ ToTell(j) = 0 /\ ToTell(j)' \in {0, 1}
    BY <1>1, <1>4 DEF ToNotify, ToTell
  <2>2. j \in ExternalRows => ToNotify(j) = 0
    BY <1>6 DEF ToNotify
  <2>3. ToTell(j)' = 1 => alerts[j] = 0
    BY <1>2, <1>3, <1>4 DEF ToTell
  <2>4. alerts[j] + ToNotify(j) + ToTell(j) <= IF j \in ExternalRows THEN 1 ELSE 2
    BY <1>0 DEF AlertsLeft
  <2>5. alerts[j] \in Nat /\ alerts' = alerts
    BY <1>0, <1>1
  <2> QED
    BY <2>1, <2>2, <2>3, <2>4, <2>5
<1> QED
  BY <1>5, <1>7 DEF HandsAreClean

LEMMA TellKeepsHandsClean ==
  ASSUME InboxInv, InquiryTypes', VisitTypes', NEW v \in Visits, TellAdmins(v), missing[v] \subseteq Inbox
  PROVE  HandsAreClean'
<1>0. /\ AbsentIsQuiet /\ CreatedByOne /\ AlertsLeft /\ InquiryTypes /\ VisitTypes /\ LockTypes /\ HandsFit
      /\ \A j \in InquiryRows : alerts[j] \in Nat
  BY DEF InboxInv, InquiryTypes
<1>1. Depart(v) /\ inquiry' = inquiry /\ aborts' \in Nat /\ visit[v] = "tell"
  BY <1>0 DEF TellAdmins, inquiryVars, VisitTypes
<1>2. /\ created'[v] = NoInquiry /\ missing'[v] = {}
      /\ \A w \in Visits \ {v} : created'[w] = created[w] /\ missing'[w] = missing[w]
  BY <1>0, <1>1, DepartClears
<1>3. \A j \in InquiryRows : alerts'[j] = IF j \in missing[v] THEN alerts[j] + 1 ELSE alerts[j]
  BY DEF TellAdmins
<1>4. \A w \in Visits \ {v} : missing[w] = {}
  BY <1>0, <1>1 DEF LockTypes, HandsFit
<1>5. \A w \in Visits : missing'[w] = {}
  BY <1>2, <1>4
<1>6. AbsentIsQuiet'
  BY <1>0, <1>1, <1>2, <1>3, <1>5, InquiryConstants DEF AbsentIsQuiet, Inbox
<1>7. CreatedByOne'
  BY <1>0, <1>2 DEF CreatedByOne
<1>8. AlertsLeft'
  <2> SUFFICES ASSUME NEW j \in InquiryRows
               PROVE  alerts'[j] + ToNotify(j)' + ToTell(j)' <= IF j \in ExternalRows THEN 1 ELSE 2
    BY DEF AlertsLeft
  <2>1. ToNotify(j) \in {0, 1} /\ ToNotify(j)' \in {0, 1} /\ ToTell(j) \in {0, 1} /\ ToTell(j)' = 0
    BY <1>5 DEF ToNotify, ToTell
  <2>2. (ToNotify(j)' = 1 => ToNotify(j) = 1) /\ (j \in missing[v] => ToTell(j) = 1)
    BY <1>2, InquiryConstants DEF ToNotify, ToTell
  <2>3. alerts[j] + ToNotify(j) + ToTell(j) <= IF j \in ExternalRows THEN 1 ELSE 2
    BY <1>0 DEF AlertsLeft
  <2>4. alerts[j] \in Nat /\ (alerts'[j] = alerts[j] \/ (j \in missing[v] /\ alerts'[j] = alerts[j] + 1))
    BY <1>0, <1>3
  <2> QED
    BY <2>1, <2>2, <2>3, <2>4
<1> QED
  BY <1>6, <1>7, <1>8 DEF HandsAreClean

\* Every step keeps the notifications within their bound.
LEMMA HandsNext ==
  ASSUME InboxInv, [InboxNext]_inboxVars
  PROVE  HandsAreClean'
<1>0. /\ VisitTypes /\ LockTypes /\ HandsFit /\ aborts \in Nat
      /\ InquiryTypes /\ \A i \in InquiryRows : alerts[i] \in Nat
  BY DEF InboxInv, VisitTypes, InquiryTypes
<1>00. InquiryTypes' /\ VisitTypes'
  BY InboxTypesNext, VisitsNext
<1>1. ASSUME NEW v \in Visits, Depart(v), aborts' \in Nat, UNCHANGED <<inquiry, alerts>> PROVE HandsAreClean'
  <2>1. \A w \in Visits : (created'[w] = created[w] \/ created'[w] = NoInquiry) /\ missing'[w] \subseteq missing[w]
    BY <1>0, <1>1, DepartClears
  <2> QED
    BY <1>0, <1>00, <1>1, <2>1, HandsStayClean
<1>2. CASE UNCHANGED <<inquiry, alerts, created, missing>>
  BY <1>0, <1>00, <1>2, HandsStayClean
<1>3. ASSUME NEW v \in Visits, LookForCopy(v) PROVE HandsAreClean'
  BY <1>0, <1>1, <1>2, <1>3 DEF LookForCopy, inquiryVars
<1>4. ASSUME NEW v \in Visits, LockText(v) \/ TryCatchUp(v) \/ \E m \in Messages : Submit(v, m) PROVE HandsAreClean'
  BY <1>2, <1>4 DEF LockText, TryCatchUp, Submit, inquiryVars
<1>5. ASSUME NEW v \in Visits, VisitDies(v) PROVE HandsAreClean'
  <2>1. Depart(v) /\ aborts' = aborts + 1 /\ UNCHANGED <<inquiry, alerts>>
    BY <1>5 DEF VisitDies, inquiryVars
  <2>2. aborts' \in Nat
    BY <1>0, <2>1
  <2> QED
    BY <1>1, <2>1, <2>2
<1>6. ASSUME NEW v \in Visits, NotifyNewInquiry(v) PROVE HandsAreClean'
  <2>1. Depart(v) /\ aborts' \in Nat /\ inquiry' = inquiry
    BY <1>0, <1>6 DEF NotifyNewInquiry, inquiryVars
  <2> QED
    BY <1>1, <1>00, <1>6, <2>1, NotifyKeepsHandsClean DEF NotifyNewInquiry
<1>7. ASSUME NEW v \in Visits, FindMissing(v) PROVE HandsAreClean'
  <2>1. aborts' \in Nat /\ UNCHANGED <<inquiry, alerts>>
    BY <1>0, <1>7 DEF FindMissing, inquiryVars
  <2> QED
    BY <1>1, <1>00, <1>7, <2>1, FindKeepsHandsClean
<1>8. ASSUME NEW v \in Visits, TellAdmins(v) PROVE HandsAreClean'
  <2>1. Depart(v) /\ aborts' \in Nat /\ inquiry' = inquiry
    BY <1>0, <1>8 DEF TellAdmins, inquiryVars
  <2>2. missing[v] \subseteq Inbox \/ alerts' = alerts
    BY <1>8 DEF TellAdmins
  <2> QED
    BY <1>1, <1>00, <1>8, <2>1, <2>2, TellKeepsHandsClean
<1>9. ASSUME NEW i \in InquiryRows, MarkInquiryRead(i) \/ InsertExternally(i) \/ WindowPasses(i) PROVE HandsAreClean'
  <2>1. UNCHANGED <<alerts, created, missing>>
    BY <1>9 DEF MarkInquiryRead, InsertExternally, WindowPasses, visitVars
  <2>2. \A j \in InquiryRows : inquiry'[j] = "none" => inquiry[j] = "none"
    BY <1>0, <1>9 DEF MarkInquiryRead, InsertExternally, WindowPasses, Arrive, InquiryTypes
  <2> QED
    BY <1>0, <1>00, <2>1, <2>2, HandsStayClean
<1>10. ASSUME NEW i \in InquiryRows, DeleteInquiry(i) PROVE HandsAreClean'
  <2>1. UNCHANGED <<created, missing>>
    BY <1>10 DEF DeleteInquiry, visitVars
  <2>2. \A j \in InquiryRows : inquiry'[j] = "none" => inquiry[j] = "none"
    BY <1>0, <1>10 DEF DeleteInquiry, InquiryTypes
  <2>3. \A j \in InquiryRows : alerts'[j] = alerts[j] \/ alerts'[j] = 0
    BY <1>0, <1>10 DEF DeleteInquiry, InquiryTypes
  <2>4. \A j \in InquiryRows : alerts'[j] <= alerts[j]
    BY <1>0, <2>3
  <2> QED
    BY <1>00, <2>1, <2>2, <2>4, HandsStayClean
<1>11. UNCHANGED inboxVars => UNCHANGED <<inquiry, alerts, created, missing>>
  BY DEF inboxVars, inquiryVars, visitVars
<1> QED
  BY <1>00, <1>2, <1>3, <1>4, <1>5, <1>6, <1>7, <1>8, <1>9, <1>10, <1>11, CreateKeepsHandsClean
  DEF InboxNext, VisitStep

-----------------------------------------------------------------------------
(* Copies: whoever writes has looked under the text's lock.                *)

\* A recent row of the form's own.
OwnRecent(i) == i \in Inbox \ ExternalRows /\ recent[i]

\* No row of the form's own becomes recent, and nobody begins to write.
LEMMA CopiesDoNotCome ==
  ASSUME InboxInv,
         \A i \in InquiryRows : OwnRecent(i)' => OwnRecent(i) /\ message'[i] = message[i],
         \A v \in Visits : visit'[v] = "create" => visit[v] = "create" /\ typed'[v] = typed[v]
  PROVE  WriterIsFirst' /\ OneCopyPerWindow'
<1>0. WriterIsFirst /\ OneCopyPerWindow
  BY DEF InboxInv
<1>1. WriterIsFirst'
  BY <1>0 DEF WriterIsFirst, SameRecently, OwnRecent, Inbox
<1>2. OneCopyPerWindow'
  BY <1>0 DEF OneCopyPerWindow, OwnRecent, Inbox
<1> QED
  BY <1>1, <1>2

LEMMA LookKeepsCopiesApart ==
  ASSUME InboxInv, NEW v \in Visits, LookForCopy(v), ~Depart(v)
  PROVE  WriterIsFirst' /\ OneCopyPerWindow'
<1>0. WriterIsFirst /\ OneCopyPerWindow /\ VisitTypes
  BY DEF InboxInv
<1>1. /\ visit' = [visit EXCEPT ![v] = "create"] /\ UNCHANGED <<inquiry, message, recent, typed>>
      /\ ~SameRecently(typed[v])
  BY DEF LookForCopy, VisitGoto, inquiryVars
<1>2. \A w \in Visits \ {v} : visit'[w] = visit[w]
  BY <1>0, <1>1 DEF VisitTypes
<1>3. \A w \in Visits : SameRecently(typed[w])' <=> SameRecently(typed[w])
  BY <1>1 DEF SameRecently, Inbox
<1>4. WriterIsFirst'
  BY <1>0, <1>1, <1>2, <1>3 DEF WriterIsFirst
<1>5. OneCopyPerWindow'
  BY <1>0, <1>1 DEF OneCopyPerWindow, Inbox
<1> QED
  BY <1>4, <1>5

LEMMA CreateKeepsCopiesApart ==
  ASSUME InboxInv, NEW v \in Visits, NEW i \in InquiryRows, CreateInquiry(v, i)
  PROVE  WriterIsFirst' /\ OneCopyPerWindow'
<1>0. /\ WriterIsFirst /\ OneCopyPerWindow /\ VisitTypes /\ LockTypes /\ HandsFit
      /\ InquiryTypes /\ RecentTypes
  BY DEF InboxInv
<1>1. /\ visit[v] = "create" /\ visit' = [visit EXCEPT ![v] = "notify"] /\ typed' = typed
      /\ inquiry' = [inquiry EXCEPT ![i] = "unread"]
      /\ message' = [message EXCEPT ![i] = typed[v]]
      /\ recent' = [recent EXCEPT ![i] = TRUE] /\ i \notin ExternalRows
  BY DEF CreateInquiry, VisitGoto, Arrive, FreeRows
<1>2. \A j \in InquiryRows \ {i} :
        inquiry'[j] = inquiry[j] /\ message'[j] = message[j] /\ (recent'[j] <=> recent[j])
  <2>1. \A j \in InquiryRows \ {i} : recent'[j] <=> recent[j]
    BY <1>0, <1>1 DEF RecentTypes
  <2> QED
    BY <1>0, <1>1, <2>1 DEF InquiryTypes
<1>3. message'[i] = typed[v]
  BY <1>0, <1>1 DEF InquiryTypes
<1>4. \A j \in Inbox \ ExternalRows : recent[j] => message[j] # typed[v]
  BY <1>0, <1>1 DEF WriterIsFirst, SameRecently
<1>5. \A w \in Visits : visit'[w] = "create" => w # v /\ visit[w] = "create" /\ typed[w] # typed[v]
  <2>1. typed[v] \in Messages /\ v \in textLock[typed[v]]
    BY <1>0, <1>1 DEF HandsFit, LockTypes
  <2>2. ASSUME NEW w \in Visits, visit'[w] = "create" PROVE w # v /\ visit[w] = "create"
    BY <1>0, <1>1, <2>2 DEF VisitTypes
  <2> QED
    BY <1>0, <2>1, <2>2 DEF LockTypes
<1>6. WriterIsFirst'
  <2> SUFFICES ASSUME NEW w \in Visits, visit'[w] = "create",
                      NEW j \in InquiryRows \ ExternalRows, inquiry'[j] \in {"unread", "read"},
                      recent'[j], message'[j] = typed[w]
               PROVE  FALSE
    BY <1>1 DEF WriterIsFirst, SameRecently, Inbox
  <2>1. j # i
    BY <1>3, <1>5
  <2> QED
    BY <1>0, <1>2, <1>5, <2>1 DEF WriterIsFirst, SameRecently, Inbox
<1>7. OneCopyPerWindow'
  <2> SUFFICES ASSUME NEW j \in InquiryRows \ ExternalRows, NEW k \in InquiryRows \ ExternalRows,
                      inquiry'[j] \in {"unread", "read"}, inquiry'[k] \in {"unread", "read"},
                      j # k, recent'[j], recent'[k]
               PROVE  message'[j] # message'[k]
    BY DEF OneCopyPerWindow, Inbox
  <2>1. CASE j = i
    BY <1>2, <1>3, <1>4, <2>1 DEF Inbox
  <2>2. CASE k = i
    BY <1>2, <1>3, <1>4, <2>2 DEF Inbox
  <2>3. CASE j # i /\ k # i
    BY <1>0, <1>2, <2>3 DEF OneCopyPerWindow, Inbox
  <2> QED
    BY <2>1, <2>2, <2>3
<1> QED
  BY <1>6, <1>7

\* The text lock keeps a second copy out.
LEMMA CopiesNext ==
  ASSUME InboxInv, [InboxNext]_inboxVars
  PROVE  WriterIsFirst' /\ OneCopyPerWindow'
<1>0. VisitTypes /\ LockTypes /\ HandsFit /\ InquiryTypes /\ RecentTypes /\ aborts \in Nat
  BY DEF InboxInv, VisitTypes
<1> DEFINE Quiet == \A v \in Visits : visit'[v] = "create" => visit[v] = "create" /\ typed'[v] = typed[v]
<1>1. ASSUME UNCHANGED inquiryVars, Quiet PROVE WriterIsFirst' /\ OneCopyPerWindow'
  BY <1>1, CopiesDoNotCome DEF inquiryVars, OwnRecent, Inbox
<1>2. ASSUME NEW v \in Visits, Depart(v), aborts' \in Nat PROVE Quiet
  BY <1>0, <1>2, DepartClears
<1>3. ASSUME NEW v \in Visits, LookForCopy(v) PROVE WriterIsFirst' /\ OneCopyPerWindow'
  <2>1. UNCHANGED inquiryVars /\ aborts' \in Nat
    BY <1>0, <1>3 DEF LookForCopy
  <2> HIDE DEF Quiet
  <2> QED
    BY <1>1, <1>2, <1>3, <2>1, LookKeepsCopiesApart
<1>4. ASSUME NEW v \in Visits, LockText(v) \/ TryCatchUp(v) \/ \E m \in Messages : Submit(v, m)
      PROVE WriterIsFirst' /\ OneCopyPerWindow'
  <2>1. UNCHANGED inquiryVars
    BY <1>4 DEF LockText, TryCatchUp, Submit
  <2>2. Quiet
    BY <1>0, <1>4 DEF LockText, TryCatchUp, Submit, VisitGoto, VisitTypes
  <2> QED
    BY <1>1, <2>1, <2>2
<1>5. ASSUME NEW v \in Visits, VisitDies(v) \/ NotifyNewInquiry(v) \/ TellAdmins(v)
      PROVE WriterIsFirst' /\ OneCopyPerWindow'
  <2>1. Depart(v) /\ (aborts' = aborts + 1 \/ aborts' = aborts) /\ UNCHANGED inquiryVars
    BY <1>5 DEF VisitDies, NotifyNewInquiry, TellAdmins
  <2>2. aborts' \in Nat
    BY <1>0, <2>1
  <2> HIDE DEF Quiet
  <2> QED
    BY <1>1, <1>2, <2>1, <2>2
<1>6. ASSUME NEW v \in Visits, FindMissing(v) PROVE WriterIsFirst' /\ OneCopyPerWindow'
  <2>1. UNCHANGED inquiryVars /\ aborts' \in Nat
    BY <1>0, <1>6 DEF FindMissing
  <2>2. CASE Depart(v)
    <3> HIDE DEF Quiet
    <3> QED
      BY <1>1, <1>2, <2>1, <2>2
  <2>3. CASE ~Depart(v)
    <3>1. visit' = [visit EXCEPT ![v] = "tell"] /\ UNCHANGED typed
      BY <1>6, <2>3 DEF FindMissing, VisitGoto
    <3>2. Quiet
      BY <1>0, <3>1 DEF VisitTypes
    <3> QED
      BY <1>1, <2>1, <3>2
  <2> QED
    BY <2>2, <2>3
<1>7. ASSUME NEW i \in InquiryRows, MarkInquiryRead(i) \/ DeleteInquiry(i) \/ WindowPasses(i) \/ InsertExternally(i)
      PROVE WriterIsFirst' /\ OneCopyPerWindow'
  <2>1. Quiet
    BY <1>7 DEF MarkInquiryRead, DeleteInquiry, WindowPasses, InsertExternally, visitVars
  <2>2. \A j \in InquiryRows : OwnRecent(j)' => OwnRecent(j) /\ message'[j] = message[j]
    <3>1. CASE MarkInquiryRead(i) \/ DeleteInquiry(i)
      BY <1>0, <3>1 DEF MarkInquiryRead, DeleteInquiry, OwnRecent, Inbox, InquiryTypes
    <3>2. CASE WindowPasses(i)
      <4>1. UNCHANGED <<inquiry, message>>
        BY <3>2 DEF WindowPasses
      <4>2. \A j \in InquiryRows : recent'[j] => recent[j]
        BY <1>0, <3>2 DEF WindowPasses, RecentTypes
      <4> QED
        BY <4>1, <4>2 DEF OwnRecent, Inbox
    <3>3. CASE InsertExternally(i)
      <4>1. i \in ExternalRows
        BY <3>3 DEF InsertExternally
      <4>2. \A j \in InquiryRows \ {i} : inquiry'[j] = inquiry[j] /\ message'[j] = message[j]
        BY <1>0, <3>3 DEF InsertExternally, Arrive, InquiryTypes
      <4>3. \A j \in InquiryRows \ {i} : recent'[j] <=> recent[j]
        BY <1>0, <3>3 DEF InsertExternally, Arrive, RecentTypes
      <4> QED
        BY <4>1, <4>2, <4>3 DEF OwnRecent, Inbox
    <3> QED
      BY <1>7, <3>1, <3>2, <3>3
  <2> QED
    BY <2>1, <2>2, CopiesDoNotCome
<1>8. CASE UNCHANGED inboxVars
  <2>1. UNCHANGED inquiryVars /\ Quiet
    BY <1>8 DEF inboxVars, visitVars
  <2> QED
    BY <1>1, <2>1
<1> HIDE DEF Quiet
<1> QED
  BY <1>3, <1>4, <1>5, <1>6, <1>7, <1>8, CreateKeepsCopiesApart DEF InboxNext, VisitStep

\* Every step keeps the invariant of inquiries.
LEMMA InboxInvNext == InboxInv /\ [InboxNext]_inboxVars => InboxInv'
<1> SUFFICES ASSUME InboxInv, [InboxNext]_inboxVars PROVE InboxInv'
  OBVIOUS
<1> QED
  BY InboxTypesNext, VisitsNext, HandsNext, CopiesNext DEF InboxInv, HandsAreClean

\* The invariant gives what the runs check.
LEMMA InboxIsSafe == InboxInv => InboxTypeOK /\ OneCopyPerWindow /\ NoDuplicateAlerts
<1> SUFFICES ASSUME InboxInv PROVE InboxTypeOK /\ OneCopyPerWindow /\ NoDuplicateAlerts
  OBVIOUS
<1> USE DEF InboxInv
<1>1. InboxTypeOK
  BY DEF InquiryTypes, RecentTypes, VisitTypes, LockTypes, InboxTypeOK
<1>2. NoDuplicateAlerts
  <2> SUFFICES ASSUME NEW i \in InquiryRows PROVE alerts[i] <= IF i \in ExternalRows THEN 1 ELSE 2
    BY DEF NoDuplicateAlerts
  <2>1. alerts[i] \in Nat /\ ToNotify(i) \in {0, 1} /\ ToTell(i) \in {0, 1}
    BY DEF InquiryTypes, ToNotify, ToTell
  <2>2. alerts[i] + ToNotify(i) + ToTell(i) <= IF i \in ExternalRows THEN 1 ELSE 2
    BY DEF AlertsLeft
  <2> HIDE DEF InboxInv
  <2> QED
    BY <2>1, <2>2
<1> QED
  BY <1>1, <1>2

-----------------------------------------------------------------------------
(* Health incidents: what may still be announced in the present window.    *)

\* Evaluations that opened an incident and have not asked the flap guard yet.
Guarding == {h \in Evaluations : evaluation[h] = "flap_guard"}

\* An incident that may still be opened and announced.
Openable == IF incident = "none" THEN 1 ELSE 0

\* Unless one was resolved recently, an opened incident or one to be opened
\* takes its share of the announcements the windows allow.
AnnouncementsLeft ==
  IF resolved = "recently" THEN announced + Cardinality(Announcing) <= 1 + windows
  ELSE announced + Cardinality(Announcing) + Cardinality(Guarding) + Openable <= 1 + windows

\* The inductive invariant of incidents.
HealthInv == HealthTypeOK /\ AnnouncementsLeft

LEMMA HealthInvInit == HealthInit => HealthInv
<1> SUFFICES ASSUME HealthInit PROVE HealthInv
  OBVIOUS
<1>1. HealthTypeOK
  BY DEF HealthInit, HealthTypeOK, HealthStates
<1>2. Announcing = {} /\ Guarding = {}
  BY DEF HealthInit, Announcing, Guarding
<1>3. AnnouncementsLeft
  BY <1>2, FS_EmptySet DEF AnnouncementsLeft, HealthInit, Openable
<1> QED
  BY <1>1, <1>3 DEF HealthInv

\* The type invariant's two halves: the evaluations, and what they share.
EvaluationTypes ==
  /\ evaluation \in [Evaluations -> {"idle", "checked", "flap_guard", "notify"}]
  /\ verdict \in [Evaluations -> HealthStates \cup {"none"}]
  /\ \A h \in Evaluations : verdict[h] = "none" <=> evaluation[h] = "idle"

IncidentTypes ==
  /\ condition \in HealthStates /\ incident \in {"none", "WARNING", "CRITICAL"}
  /\ resolved \in {"never", "recently", "long_ago"} /\ justRecorded \subseteq Instances
  /\ announced \in Nat /\ windows \in Nat /\ oldRuns \in Nat /\ lost \in Nat

LEMMA HealthTypeNext ==
  ASSUME HealthTypeOK, [HealthNext]_healthVars
  PROVE  HealthTypeOK'
<1>0. EvaluationTypes /\ IncidentTypes
  BY DEF HealthTypeOK, EvaluationTypes, IncidentTypes
<1>1. ASSUME NEW h \in Evaluations, CloseEvaluation(h) PROVE EvaluationTypes'
  BY <1>0, <1>1 DEF CloseEvaluation, EvaluationTypes
<1>2. ASSUME NEW h \in Evaluations, NEW label \in {"checked", "flap_guard", "notify"},
             evaluation' = [evaluation EXCEPT ![h] = label],
             verdict' = [verdict EXCEPT ![h] = condition] \/ (verdict' = verdict /\ verdict[h] # "none")
      PROVE  EvaluationTypes'
  BY <1>0, <1>2 DEF EvaluationTypes, IncidentTypes, HealthStates
<1>3. ASSUME UNCHANGED <<evaluation, verdict>> PROVE EvaluationTypes'
  BY <1>0, <1>3 DEF EvaluationTypes
<1>4. EvaluationTypes'
  <2>1. CASE UNCHANGED healthVars \/ ConditionChanges \/ WindowEnds \/ \E i \in Instances : ThrottleEnds(i)
    BY <1>3, <2>1 DEF healthVars, ConditionChanges, WindowEnds, ThrottleEnds
  <2>2. ASSUME NEW h \in Evaluations, RunHealthChecks(h) \/ ResolveOrphaned(h) PROVE EvaluationTypes'
    BY <1>2, <1>3, <2>2 DEF RunHealthChecks, ResolveOrphaned
  <2>3. ASSUME NEW h \in Evaluations, evaluation[h] # "idle" PROVE verdict[h] # "none"
    BY <1>0, <2>3 DEF EvaluationTypes
  <2>4. ASSUME NEW h \in Evaluations, EvaluationStep(h) \/ EvaluationDies(h) PROVE EvaluationTypes'
    BY <1>1, <1>2, <2>3, <2>4
    DEF EvaluationStep, ResolveHealthEvents, DropRecord, RecordHealthEvent, FlapGuard, NotifyAdmins, EvaluationDies
  <2> QED
    BY <2>1, <2>2, <2>4 DEF HealthNext
<1>5. IncidentTypes'
  <2> DEFINE Shared == <<condition, incident, resolved, justRecorded, announced, windows, oldRuns, lost>>
  <2> USE <1>0 DEF IncidentTypes
  <2>1. CASE UNCHANGED Shared
    BY <2>1
  <2>2. CASE ConditionChanges \/ WindowEnds \/ \E i \in Instances : ThrottleEnds(i)
    <3>1. condition' \in HealthStates /\ incident' = incident /\ announced' = announced
      BY <2>2 DEF ConditionChanges, WindowEnds, ThrottleEnds
    <3>2. /\ resolved' = resolved \/ resolved' = "long_ago"
          /\ windows' = windows \/ windows' = windows + 1
          /\ justRecorded' \subseteq justRecorded
      BY <2>2 DEF ConditionChanges, WindowEnds, ThrottleEnds
    <3>3. UNCHANGED <<oldRuns, lost>>
      BY <2>2 DEF ConditionChanges, WindowEnds, ThrottleEnds
    <3> QED
      BY <3>1, <3>2, <3>3
  <2>3. ASSUME NEW h \in Evaluations, RecordHealthEvent(h) PROVE IncidentTypes'
    <3>1. verdict[h] \in {"WARNING", "CRITICAL"}
      BY <2>3 DEF RecordHealthEvent, EvaluationTypes, HealthStates
    <3> QED
      BY <2>3, <3>1, HealthConstants DEF RecordHealthEvent
  <2>4. ASSUME NEW h \in Evaluations, NotifyAdmins(h) PROVE IncidentTypes'
    BY <2>4 DEF NotifyAdmins
  <2>5. ASSUME NEW h \in Evaluations, FlapGuard(h) \/ DropRecord(h) \/ RunHealthChecks(h)
        PROVE  UNCHANGED Shared
    BY <2>5 DEF FlapGuard, DropRecord, RunHealthChecks
  <2>6. ASSUME NEW h \in Evaluations, ResolveHealthEvents(h) \/ ResolveOrphaned(h) PROVE IncidentTypes'
    <3>1. incident' = "none" /\ (resolved' = resolved \/ resolved' = "recently")
      BY <2>6 DEF ResolveHealthEvents, ResolveOrphaned, Resolve
    <3>2. /\ UNCHANGED <<condition, justRecorded, announced, windows, lost>>
          /\ oldRuns' = oldRuns \/ oldRuns' = oldRuns + 1
      BY <2>6 DEF ResolveHealthEvents, ResolveOrphaned
    <3> QED
      BY <3>1, <3>2
  <2>7. ASSUME NEW h \in Evaluations, EvaluationDies(h) PROVE IncidentTypes'
    BY <2>7 DEF EvaluationDies
  <2>8. UNCHANGED healthVars => UNCHANGED Shared
    BY DEF healthVars
  <2> HIDE DEF Shared, IncidentTypes
  <2> QED
    BY <2>1, <2>2, <2>3, <2>4, <2>5, <2>6, <2>7, <2>8 DEF HealthNext, EvaluationStep
<1> QED
  BY <1>4, <1>5 DEF HealthTypeOK, EvaluationTypes, IncidentTypes

\* The counts of a step that only takes evaluations away from the two sets.
LEMMA FewerAnnounce ==
  ASSUME HealthInv, Announcing' \subseteq Announcing, Guarding' \subseteq Guarding,
         UNCHANGED <<announced, windows>>,
         resolved' = "recently" \/ (resolved' = resolved /\ (incident = "none" \/ incident' # "none"))
  PROVE  AnnouncementsLeft'
<1>1. /\ Cardinality(Announcing) \in Nat /\ Cardinality(Guarding) \in Nat
      /\ Cardinality(Announcing') \in Nat /\ Cardinality(Guarding') \in Nat
      /\ Cardinality(Announcing') <= Cardinality(Announcing)
      /\ Cardinality(Guarding') <= Cardinality(Guarding)
  BY HealthConstants, Counted, NoMore DEF Announcing, Guarding
<1>2. Openable \in {0, 1} /\ (resolved' # "recently" => Openable' <= Openable)
  BY DEF Openable
<1>3. announced \in Nat /\ windows \in Nat /\ Openable' \in {0, 1}
  BY DEF HealthInv, HealthTypeOK, Openable
<1> QED
  BY <1>1, <1>2, <1>3 DEF HealthInv, AnnouncementsLeft

\* Opening an incident takes the share it had; a window that passes brings one more.
LEMMA AnnouncementsNext ==
  ASSUME HealthInv, [HealthNext]_healthVars
  PROVE  AnnouncementsLeft'
<1> USE HealthConstants
<1>0. evaluation \in [Evaluations -> {"idle", "checked", "flap_guard", "notify"}]
  BY DEF HealthInv, HealthTypeOK
<1>00. Announcing \in SUBSET Evaluations /\ Guarding \in SUBSET Evaluations
  BY DEF Announcing, Guarding
<1>a. /\ Cardinality(Announcing) \in Nat /\ Cardinality(Guarding) \in Nat
      /\ announced \in Nat /\ windows \in Nat /\ Openable \in {0, 1}
  BY <1>00, Counted DEF HealthInv, HealthTypeOK, Openable
<1>b. IF resolved = "recently" THEN announced + Cardinality(Announcing) <= 1 + windows
      ELSE announced + Cardinality(Announcing) + Cardinality(Guarding) + Openable <= 1 + windows
  BY DEF HealthInv, AnnouncementsLeft
<1>1. CASE UNCHANGED healthVars
  BY <1>1, FewerAnnounce DEF healthVars, Announcing, Guarding
<1>2. ASSUME NEW h \in Evaluations,
             RunHealthChecks(h) \/ ResolveHealthEvents(h) \/ DropRecord(h) \/ ResolveOrphaned(h) \/ EvaluationDies(h)
      PROVE  AnnouncementsLeft'
  <2>1. Announcing' \subseteq Announcing /\ Guarding' \subseteq Guarding
    BY <1>0, <1>2 DEF RunHealthChecks, ResolveHealthEvents, DropRecord, ResolveOrphaned, EvaluationDies,
                      CloseEvaluation, Announcing, Guarding
  <2>2. /\ UNCHANGED <<announced, windows>>
        /\ resolved' = "recently" \/ (resolved' = resolved /\ (incident = "none" \/ incident' # "none"))
    <3>1. CASE RunHealthChecks(h) \/ DropRecord(h) \/ EvaluationDies(h)
      BY <3>1 DEF RunHealthChecks, DropRecord, EvaluationDies
    <3>2. CASE ResolveHealthEvents(h) \/ ResolveOrphaned(h)
      BY <3>2 DEF ResolveHealthEvents, ResolveOrphaned, Resolve
    <3> QED
      BY <1>2, <3>1, <3>2
  <2> QED
    BY <2>1, <2>2, FewerAnnounce
<1>3. ASSUME NEW h \in Evaluations, RecordHealthEvent(h) PROVE AnnouncementsLeft'
  <2>1. UNCHANGED <<announced, windows, resolved>> /\ incident' # "none"
    BY <1>3 DEF RecordHealthEvent, HealthInv, HealthTypeOK
  <2>2. Announcing' \subseteq Announcing
    BY <1>0, <1>3 DEF RecordHealthEvent, CloseEvaluation, Announcing
  <2>3. CASE incident = "none"
    <3>1. Guarding' \subseteq Guarding \cup {h}
      BY <1>0, <1>3 DEF RecordHealthEvent, CloseEvaluation, Guarding
    <3>2. Cardinality(Guarding') \in Nat /\ Cardinality(Guarding') <= Cardinality(Guarding) + 1
      BY <1>00, <3>1, OneMore
    <3>3. Cardinality(Announcing') \in Nat /\ Cardinality(Announcing') <= Cardinality(Announcing)
      BY <1>00, <2>2, NoMore, Counted
    <3>4. Openable = 1 /\ Openable' = 0
      BY <2>1, <2>3 DEF Openable
    <3> QED
      BY <1>a, <1>b, <2>1, <3>2, <3>3, <3>4 DEF AnnouncementsLeft
  <2>4. CASE incident # "none"
    <3>1. Guarding' \subseteq Guarding
      BY <1>0, <1>3, <2>4 DEF RecordHealthEvent, CloseEvaluation, Guarding
    <3> QED
      BY <2>1, <2>2, <3>1, FewerAnnounce
  <2> QED
    BY <2>3, <2>4
<1>4. ASSUME NEW h \in Evaluations, FlapGuard(h) PROVE AnnouncementsLeft'
  <2>1. UNCHANGED <<announced, windows, resolved, incident>>
    BY <1>4 DEF FlapGuard
  <2>2. CASE resolved = "recently"
    <3>1. Announcing' \subseteq Announcing /\ Guarding' \subseteq Guarding
      BY <1>0, <1>4, <2>2 DEF FlapGuard, CloseEvaluation, Announcing, Guarding
    <3> QED
      BY <2>1, <3>1, FewerAnnounce
  <2>3. CASE resolved # "recently"
    <3>1. h \in Guarding /\ Guarding' \subseteq Guarding \ {h} /\ Announcing' \subseteq Announcing \cup {h}
      BY <1>0, <1>4, <2>3 DEF FlapGuard, Announcing, Guarding
    <3>2. Cardinality(Guarding') \in Nat /\ Cardinality(Guarding') + 1 <= Cardinality(Guarding)
      BY <1>00, <3>1, OneLess
    <3>3. Cardinality(Announcing') \in Nat /\ Cardinality(Announcing') <= Cardinality(Announcing) + 1
      BY <1>00, <3>1, OneMore
    <3>4. Openable' = Openable
      BY <2>1 DEF Openable
    <3> QED
      BY <1>a, <1>b, <2>1, <2>3, <3>2, <3>3, <3>4 DEF AnnouncementsLeft
  <2> QED
    BY <2>2, <2>3
<1>5. ASSUME NEW h \in Evaluations, NotifyAdmins(h) PROVE AnnouncementsLeft'
  <2>1. UNCHANGED <<windows, resolved, incident>> /\ announced' = announced + 1
    BY <1>5 DEF NotifyAdmins
  <2>2. h \in Announcing /\ Announcing' \subseteq Announcing \ {h} /\ Guarding' \subseteq Guarding
    BY <1>0, <1>5 DEF NotifyAdmins, CloseEvaluation, Announcing, Guarding
  <2>3. Cardinality(Announcing') \in Nat /\ Cardinality(Announcing') + 1 <= Cardinality(Announcing)
    BY <1>00, <2>2, OneLess
  <2>4. Cardinality(Guarding') \in Nat /\ Cardinality(Guarding') <= Cardinality(Guarding)
    BY <1>00, <2>2, NoMore, Counted
  <2>5. Openable' = Openable
    BY <2>1 DEF Openable
  <2> QED
    BY <1>a, <1>b, <2>1, <2>3, <2>4, <2>5 DEF AnnouncementsLeft
<1>6. ASSUME ConditionChanges \/ \E i \in Instances : ThrottleEnds(i) PROVE AnnouncementsLeft'
  BY <1>6, FewerAnnounce DEF ConditionChanges, ThrottleEnds, Announcing, Guarding
<1>7. CASE WindowEnds
  <2>1. Announcing' = {} /\ Guarding' = {} /\ Announcing = {}
    BY <1>7 DEF WindowEnds, Announcing, Guarding
  <2>2. /\ resolved = "recently" /\ resolved' # "recently" /\ windows' = windows + 1
        /\ announced' = announced /\ Openable' = Openable
    BY <1>7 DEF WindowEnds, Openable
  <2> QED
    BY <1>a, <1>b, <2>1, <2>2, FS_EmptySet DEF AnnouncementsLeft
<1> QED
  BY <1>1, <1>2, <1>3, <1>4, <1>5, <1>6, <1>7 DEF HealthNext, EvaluationStep

\* Every step keeps the invariant of incidents.
LEMMA HealthInvNext == HealthInv /\ [HealthNext]_healthVars => HealthInv'
BY HealthTypeNext, AnnouncementsNext DEF HealthInv

\* The invariant gives what the runs check.
LEMMA HealthIsSafe == HealthInv => HealthTypeOK /\ OneAnnouncementPerWindow
<1> SUFFICES ASSUME HealthInv PROVE HealthTypeOK /\ OneAnnouncementPerWindow
  OBVIOUS
<1>1. Cardinality(Announcing) \in Nat /\ Cardinality(Guarding) \in Nat /\ Openable \in {0, 1}
  BY HealthConstants, Counted DEF Announcing, Guarding, Openable
<1>2. announced \in Nat /\ windows \in Nat
  BY DEF HealthInv, HealthTypeOK
<1> QED
  BY <1>1, <1>2 DEF HealthInv, AnnouncementsLeft, OneAnnouncementPerWindow

-----------------------------------------------------------------------------
(* Staff mail: whoever mails an event holds its claim.                     *)

\* The type invariant, in parts that different steps touch.
MailingLabels == {"idle", "pick", "send", "revoke", "log", "release"}

GrantTypes ==
  /\ connection \in [Mailers -> {"NOT_CONNECTED", "CONNECTED", "REVOKED"}]
  /\ token \in [Mailers -> Nat]
  /\ \A a \in Mailers : token[a] <= grants /\ (token[a] = 0 <=> connection[a] = "NOT_CONNECTED")
  /\ grants \in Nat /\ 1 <= grants /\ grants <= MaxGrants + 1
  /\ \A g \in dead : g \in Nat /\ 1 <= g /\ g <= grants

\* What a mailing is about, and whose mailbox it uses.
MailingTypes ==
  /\ mailing \in [Mailings -> MailingLabels]
  /\ event \in [Mailings -> Events \cup {"none"}]
  /\ nextCandidate \in [Mailings -> Nat \ {0}]
  /\ sendingAs \in [Mailings -> Mailers \cup {NoMailer}]
  /\ bearer \in [Mailings -> Nat]
  /\ wentOut \in [Mailings -> BOOLEAN]
  /\ \A p \in Mailings : mailing[p] = "idle" <=> event[p] = "none"
  /\ \A p \in Mailings : mailing[p] \in {"send", "revoke"} => sendingAs[p] \in Mailers

\* The claims and the history.
RecordTypes ==
  /\ sentLog \subseteq Events /\ firstSentAt \in BOOLEAN /\ noticed \subseteq Notices
  /\ delivered \in [Events -> Nat]

\* The bounds.
BoundTypes ==
  /\ started \in Nat /\ started <= MaxMails
  /\ mailFaults \in Nat /\ mailFaults <= MaxMailFaults

\* All the types.
MailTypes == GrantTypes /\ MailingTypes /\ RecordTypes /\ BoundTypes

\* A revocation is recorded for a grant that Google refused.
RevokesARefusedGrant == \A p \in Mailings : mailing[p] = "revoke" => bearer[p] \in dead

\* Whether an event's claim is free, that is, whether somebody may still begin it.
ClaimIsFree(e) ==
  \/ e \in Announcements /\ e \notin sentLog
  \/ e = "first" /\ ~firstSentAt
  \/ e \in Notices /\ e \notin noticed

\* Whoever works on an event holds its claim, alone.
WorkerHoldsClaim ==
  \A p \in Mailings : event[p] \notin {"none", "resend"} =>
    /\ ~ClaimIsFree(event[p])
    /\ \A q \in Mailings : event[q] = event[p] => p = q

\* A mail that went out is only recorded; only a first confirmation is released.
LabelsFit ==
  \A p \in Mailings :
    /\ wentOut[p] => mailing[p] = "log" /\ delivered[event[p]] > 0
    /\ mailing[p] = "release" => event[p] = "first"

\* Before a mail of its event is out, nothing was delivered without doubt.
NothingOutYet ==
  \A e \in Events \ {"resend"} : e \notin doubtful =>
    /\ delivered[e] <= 1
    /\ ClaimIsFree(e) => delivered[e] = 0
    /\ \A p \in Mailings : event[p] = e /\ ~wentOut[p] => delivered[e] = 0

\* The inductive invariant of staff mail.
MailInv ==
  /\ MailTypes /\ RevokesARefusedGrant
  /\ WorkerHoldsClaim /\ LabelsFit /\ NothingOutYet
  /\ IdleClaimWasMailed /\ RevokedIsDead

\* The kinds of events are apart.
LEMMA EventKinds ==
  /\ "none" \notin Events /\ {"first", "resend"} \subseteq Events
  /\ Announcements \subseteq Events /\ Notices \subseteq Events
  /\ Announcements \cap Notices = {}
  /\ {"first", "resend"} \cap (Announcements \cup Notices) = {}
  /\ \A e \in Events \ {"resend"} : e \in Announcements \/ e \in Notices \/ e = "first"
BY DEF Events, Announcements, Notices

\* Whoever is tried has an account.
LEMMA CandidatesAreMailers ==
  ASSUME NEW e, NEW i \in 1..Len(Candidates(e)) PROVE Candidates(e)[i] \in Mailers
<1>1. CASE e \in {"first", "resend", "away"}
  BY <1>1 DEF Candidates, Mailers
<1>2. CASE e = "toYou"
  BY <1>2 DEF Candidates, Mailers
<1>3. CASE e \notin {"first", "resend", "away", "toYou"}
  BY <1>3 DEF Candidates, Mailers
<1> QED
  BY <1>1, <1>2, <1>3

LEMMA TypesAreTypeOK == MailTypes => StaffMailTypeOK
BY MailerConstants
DEF MailTypes, GrantTypes, MailingTypes, RecordTypes, BoundTypes, StaffMailTypeOK

LEMMA MailInit == StaffMailInit => MailInv
<1> SUFFICES ASSUME StaffMailInit PROVE MailInv
  OBVIOUS
<1> USE MailerConstants, EventKinds DEF StaffMailInit
<1>1. GrantTypes
  BY DEF GrantTypes
<1>2. MailingTypes
  BY DEF MailingTypes, MailingLabels
<1>3. RecordTypes /\ BoundTypes
  <2>1. BoundTypes
    BY DEF BoundTypes
  <2>2. delivered \in [Events -> Nat]
    OBVIOUS
  <2> QED
    BY <2>1, <2>2 DEF RecordTypes
<1>4. RevokesARefusedGrant /\ WorkerHoldsClaim /\ LabelsFit
  BY DEF RevokesARefusedGrant, WorkerHoldsClaim, LabelsFit
<1>5. NothingOutYet
  BY DEF NothingOutYet
<1>6. IdleClaimWasMailed /\ RevokedIsDead
  BY DEF IdleClaimWasMailed, RevokedIsDead
<1> QED
  BY <1>1, <1>2, <1>3, <1>4, <1>5, <1>6 DEF MailInv, MailTypes

LEMMA GrantTypesNext ==
  ASSUME MailInv, [StaffMailNext]_staffMailVars
  PROVE  GrantTypes'
<1> USE MailerConstants
<1> USE DEF MailInv, MailTypes, GrantTypes, gmailRows
<1>1. CASE UNCHANGED gmailRows
  BY <1>1
<1>2. ASSUME NEW a \in Mailers, ConnectGmail(a) PROVE GrantTypes'
  BY <1>2 DEF ConnectGmail
<1>3. ASSUME NEW a \in Mailers, RevokeAtGoogle(a) PROVE GrantTypes'
  BY <1>3 DEF RevokeAtGoogle
<1>4. ASSUME NEW a \in Mailers, DisconnectGmail(a) PROVE GrantTypes'
  BY <1>4 DEF DisconnectGmail
<1>5. ASSUME NEW p \in Mailings, MarkRevoked(p) PROVE GrantTypes'
  BY <1>5 DEF MarkRevoked
<1>6. ASSUME NEW p \in Mailings, BeginsMail(p) \/ Sends(p), ~MarkRevoked(p) PROVE UNCHANGED gmailRows
  BY <1>6 DEF BeginsMail, ClaimFirstSend, Resend, ClaimAnnouncement, Notify,
              Sends, PickSender, GmailAccepts, GmailRefuses, GmailFails, RecordMail,
              AnnouncementThrows, ReleaseFirstSend, MailingCutOff
<1> QED
  BY <1>1, <1>2, <1>3, <1>4, <1>5, <1>6 DEF StaffMailNext, Connects, staffMailVars

LEMMA MailingTypesNext ==
  ASSUME MailInv, [StaffMailNext]_staffMailVars
  PROVE  MailingTypes'
<1> USE MailerConstants, EventKinds
<1> USE DEF MailInv, MailTypes, MailingTypes, MailingLabels, mailingState, MailingTo,
        BeginsMailing, EndsMailing, MayBegin
<1>1. CASE UNCHANGED mailingState
  BY <1>1
<1>2. Connects => UNCHANGED mailingState
  BY DEF Connects, ConnectGmail, RevokeAtGoogle, DisconnectGmail
<1>3. ASSUME NEW p \in Mailings, BeginsMail(p) PROVE MailingTypes'
  BY <1>1, <1>3 DEF BeginsMail, ClaimFirstSend, Resend, ClaimAnnouncement, Notify
<1>4. ASSUME NEW p \in Mailings, PickSender(p) PROVE MailingTypes'
  <2>1. CASE MailingTo(p, "log") /\ UNCHANGED <<event, sendingAs, bearer, wentOut>>
    BY <1>4, <2>1 DEF PickSender
  <2>2. CASE ~(MailingTo(p, "log") /\ UNCHANGED <<event, sendingAs, bearer, wentOut>>)
    <3> DEFINE cs == Candidates(event[p])
    <3>1. PICK i \in nextCandidate[p]..Len(cs) :
            /\ MailingTo(p, "send") /\ nextCandidate' = [nextCandidate EXCEPT ![p] = i + 1]
            /\ sendingAs' = [sendingAs EXCEPT ![p] = cs[i]] /\ bearer' = [bearer EXCEPT ![p] = token[cs[i]]]
      BY <1>4, <2>2 DEF PickSender
    <3>2. cs[i] \in Mailers
      BY <3>1, CandidatesAreMailers
    <3>3. token[cs[i]] \in Nat /\ UNCHANGED <<event, wentOut>> /\ mailing[p] = "pick"
      BY <1>4, <3>2 DEF PickSender, GrantTypes
    <3>4. i \in Nat \ {0} /\ i + 1 \in Nat \ {0}
      OBVIOUS
    <3> HIDE DEF cs
    <3> QED
      BY <3>1, <3>2, <3>3, <3>4
  <2> QED
    BY <2>1, <2>2
<1>5. ASSUME NEW p \in Mailings, GmailAccepts(p) \/ GmailRefuses(p) \/ GmailFails(p) PROVE MailingTypes'
  BY <1>5 DEF GmailAccepts, GmailRefuses, GmailFails
<1>6. ASSUME NEW p \in Mailings, EndsMailing(p) PROVE MailingTypes'
  <2>1. /\ nextCandidate' \in [Mailings -> Nat \ {0}] /\ bearer' \in [Mailings -> Nat]
        /\ wentOut' \in [Mailings -> BOOLEAN] /\ sendingAs' \in [Mailings -> Mailers \cup {NoMailer}]
    BY <1>6
  <2>2. /\ mailing' = [mailing EXCEPT ![p] = "idle"] /\ event' = [event EXCEPT ![p] = "none"]
        /\ sendingAs' = [sendingAs EXCEPT ![p] = NoMailer]
    BY <1>6
  <2> QED
    BY <2>1, <2>2
<1>7. ASSUME NEW p \in Mailings, mailing[p] # "idle",
             NEW label \in {"pick", "log", "release"}, MailingTo(p, label),
             UNCHANGED <<event, nextCandidate, sendingAs, bearer, wentOut>>
      PROVE  MailingTypes'
  BY <1>7
<1>8. ASSUME NEW p \in Mailings,
             MarkRevoked(p) \/ RecordMail(p) \/ AnnouncementThrows(p) \/ ReleaseFirstSend(p) \/ MailingCutOff(p)
      PROVE  MailingTypes'
  <2> HIDE DEF MailingTypes, MailInv, EndsMailing, MailingTo
  <2>1. CASE MarkRevoked(p)
    BY <1>6, <1>7, <2>1 DEF MarkRevoked
  <2>2. CASE RecordMail(p)
    BY <1>6, <1>7, <2>2 DEF RecordMail
  <2> QED
    BY <1>6, <1>8, <2>1, <2>2 DEF AnnouncementThrows, ReleaseFirstSend, MailingCutOff
<1> QED
  BY <1>1, <1>2, <1>3, <1>4, <1>5, <1>6, <1>7, <1>8 DEF StaffMailNext, Sends, staffMailVars

LEMMA RecordTypesNext ==
  ASSUME MailInv, [StaffMailNext]_staffMailVars
  PROVE  RecordTypes' /\ BoundTypes'
<1> USE MailerConstants, EventKinds
<1> USE DEF MailInv, MailTypes, RecordTypes, BoundTypes, mailRecords, mailHistory, MailFault, MayBegin
<1>1. CASE UNCHANGED staffMailVars
  BY <1>1 DEF staffMailVars
<1>2. CASE Connects
  BY <1>2 DEF Connects, ConnectGmail, RevokeAtGoogle, DisconnectGmail
<1>3. ASSUME NEW p \in Mailings, BeginsMail(p) PROVE RecordTypes' /\ BoundTypes'
  <2>1. BoundTypes' /\ delivered' = delivered
    BY <1>3 DEF BeginsMail, ClaimFirstSend, Resend, ClaimAnnouncement, Notify
  <2>2. sentLog' \subseteq Events /\ firstSentAt' \in BOOLEAN /\ noticed' \subseteq Notices
    BY <1>3 DEF BeginsMail, ClaimFirstSend, Resend, ClaimAnnouncement, Notify
  <2> QED
    BY <2>1, <2>2
<1>4. ASSUME NEW p \in Mailings, PickSender(p) \/ GmailRefuses(p) \/ MarkRevoked(p)
      PROVE  RecordTypes' /\ BoundTypes'
  BY <1>4 DEF PickSender, GmailRefuses, MarkRevoked
<1>5. ASSUME NEW p \in Mailings, GmailAccepts(p) \/ GmailFails(p) PROVE RecordTypes' /\ BoundTypes'
  <2>1. delivered' = delivered \/ Delivers(event[p])
    BY <1>5 DEF GmailAccepts, GmailFails
  <2>2. delivered' \in [Events -> Nat]
    BY <2>1 DEF Delivers
  <2> QED
    BY <1>5, <2>2 DEF GmailAccepts, GmailFails
<1>6. ASSUME NEW p \in Mailings, RecordMail(p) PROVE RecordTypes' /\ BoundTypes'
  <2>1. event[p] \in Events
    BY <1>6 DEF RecordMail, MailingTypes
  <2> QED
    BY <1>6, <2>1 DEF RecordMail
<1>8. ASSUME NEW p \in Mailings, AnnouncementThrows(p) PROVE RecordTypes' /\ BoundTypes'
  BY <1>8 DEF AnnouncementThrows
<1>7. ASSUME NEW p \in Mailings, ReleaseFirstSend(p) \/ MailingCutOff(p)
      PROVE RecordTypes' /\ BoundTypes'
  <2>1. BoundTypes' /\ delivered' = delivered
    BY <1>7 DEF ReleaseFirstSend, MailingCutOff
  <2>2. firstSentAt' \in BOOLEAN /\ UNCHANGED <<sentLog, noticed>>
    BY <1>7 DEF ReleaseFirstSend, MailingCutOff
  <2> QED
    BY <2>1, <2>2
<1> QED
  BY <1>1, <1>2, <1>3, <1>4, <1>5, <1>6, <1>7, <1>8 DEF StaffMailNext, Sends

\* A revocation is written for the grant that was refused.
LEMMA RevokedNext ==
  ASSUME MailInv, [StaffMailNext]_staffMailVars
  PROVE  RevokesARefusedGrant' /\ RevokedIsDead'
<1> DEFINE Goal == RevokesARefusedGrant' /\ RevokedIsDead'
<1> USE MailerConstants
<1> USE DEF MailInv, MailTypes, GrantTypes, MailingTypes, RevokesARefusedGrant, RevokedIsDead,
        gmailRows, mailingState, mailRecords, mailHistory, MailFault, MayBegin, MailingTo,
        BeginsMailing, EndsMailing
<1>1. CASE UNCHANGED staffMailVars
  BY <1>1 DEF staffMailVars
<1>2. ASSUME NEW a \in Mailers, ConnectGmail(a) \/ RevokeAtGoogle(a) \/ DisconnectGmail(a) PROVE Goal
  BY <1>2 DEF ConnectGmail, RevokeAtGoogle, DisconnectGmail
<1>3. ASSUME NEW p \in Mailings, BeginsMail(p) PROVE Goal
  BY <1>3 DEF BeginsMail, ClaimFirstSend, Resend, ClaimAnnouncement, Notify
<1>4. ASSUME NEW p \in Mailings, PickSender(p) PROVE Goal
  BY <1>4 DEF PickSender
<1>5. ASSUME NEW p \in Mailings, GmailAccepts(p) \/ GmailRefuses(p) \/ GmailFails(p) PROVE Goal
  BY <1>5 DEF GmailAccepts, GmailRefuses, GmailFails
<1>6. ASSUME NEW p \in Mailings, MarkRevoked(p) PROVE Goal
  BY <1>6 DEF MarkRevoked
<1>7. ASSUME NEW p \in Mailings, RecordMail(p) \/ AnnouncementThrows(p) \/ ReleaseFirstSend(p) \/ MailingCutOff(p) PROVE Goal
  BY <1>7 DEF RecordMail, AnnouncementThrows, ReleaseFirstSend, MailingCutOff
<1> QED
  BY <1>1, <1>2, <1>3, <1>4, <1>5, <1>6, <1>7 DEF StaffMailNext, Connects, Sends

\* Claims, deliveries and the end of a mailing, in one.
Accounting == WorkerHoldsClaim /\ LabelsFit /\ NothingOutYet /\ IdleClaimWasMailed

\* A step that touches no mailing keeps the account of them.
LEMMA MailStands ==
  ASSUME MailInv, UNCHANGED <<mailingState, mailRecords, delivered, doubtful, deserted>>
  PROVE  Accounting'
<1> USE DEF MailInv, mailingState, mailRecords, ClaimIsFree
<1>1. WorkerHoldsClaim' /\ LabelsFit'
  BY DEF WorkerHoldsClaim, LabelsFit
<1>2. NothingOutYet' /\ IdleClaimWasMailed'
  BY DEF NothingOutYet, IdleClaimWasMailed
<1> QED
  BY <1>1, <1>2 DEF Accounting

\* A mailing moves on without delivering anything.
LEMMA MailMovesOn ==
  ASSUME MailInv, NEW p \in Mailings, mailing[p] \in {"pick", "send", "revoke"},
         NEW label \in {"pick", "send", "revoke", "log"}, MailingTo(p, label),
         UNCHANGED <<event, wentOut, mailRecords, delivered, doubtful, deserted>>
  PROVE  Accounting'
<1> USE DEF MailInv, MailTypes, MailingTypes, mailRecords, ClaimIsFree
<1>1. WorkerHoldsClaim' /\ NothingOutYet' /\ IdleClaimWasMailed'
  BY DEF WorkerHoldsClaim, NothingOutYet, IdleClaimWasMailed
<1>2. LabelsFit'
  BY DEF LabelsFit, MailingTo
<1> QED
  BY <1>1, <1>2 DEF Accounting

\* Who begins a mailing takes its claim, which was free.
LEMMA MailBegins ==
  ASSUME MailInv, NEW p \in Mailings, mailing[p] = "idle", NEW e \in Events, BeginsMailing(p, e),
         e # "resend" => ClaimIsFree(e) /\ ~ClaimIsFree(e)',
         \A f \in Events \ {e} : ClaimIsFree(f)' <=> ClaimIsFree(f),
         UNCHANGED <<delivered, doubtful, deserted>>
  PROVE  Accounting'
<1> USE EventKinds DEF MailInv, MailTypes, MailingTypes, RecordTypes
<1>1. event[p] = "none" /\ ~wentOut[p] /\ wentOut' = wentOut
  BY DEF BeginsMailing, LabelsFit
<1>2. /\ mailing' = [mailing EXCEPT ![p] = "pick"]
      /\ event' = [event EXCEPT ![p] = e]
  BY DEF BeginsMailing, MailingTo
<1> HIDE DEF ClaimIsFree
<1>3. WorkerHoldsClaim'
  <2> SUFFICES ASSUME NEW q \in Mailings, event'[q] \notin {"none", "resend"}
               PROVE  /\ ~(ClaimIsFree(event[q])')
                      /\ \A r \in Mailings : event'[r] = event'[q] => q = r
    BY DEF WorkerHoldsClaim
  <2>1. CASE q = p
    <3>1. event'[q] = e /\ ClaimIsFree(e)
      BY <1>2, <2>1
    <3>2. \A r \in Mailings \ {p} : event[r] # e
      BY <3>1 DEF WorkerHoldsClaim
    <3> QED
      BY <1>2, <2>1, <3>1, <3>2
  <2>2. CASE q # p
    <3>1. event'[q] = event[q] /\ event[q] \in Events /\ ~ClaimIsFree(event[q])
      BY <1>2, <2>2 DEF WorkerHoldsClaim
    <3>2. event[q] # e
      BY <3>1, <2>2
    <3> QED
      BY <1>2, <2>2, <3>1, <3>2 DEF WorkerHoldsClaim
  <2> QED
    BY <2>1, <2>2
<1>4. LabelsFit'
  BY <1>1, <1>2 DEF LabelsFit
<1>5. NothingOutYet'
  <2> SUFFICES ASSUME NEW f \in Events \ {"resend"}, f \notin doubtful
               PROVE  /\ delivered[f] <= 1
                      /\ ClaimIsFree(f)' => delivered[f] = 0
                      /\ \A q \in Mailings : event'[q] = f /\ ~wentOut[q] => delivered[f] = 0
    BY <1>1 DEF NothingOutYet
  <2> QED
    BY <1>1, <1>2 DEF NothingOutYet
<1>6. IdleClaimWasMailed'
  <2>1. ASSUME NEW f \in Events \ {e}, \A q \in Mailings : event'[q] # f
        PROVE  \A q \in Mailings : event[q] # f
    BY <1>1, <1>2, <2>1
  <2>2. event'[p] = e
    BY <1>2
  <2> QED
    BY <2>1, <2>2 DEF IdleClaimWasMailed, ClaimIsFree
<1> QED
  BY <1>3, <1>4, <1>5, <1>6 DEF Accounting

\* Who ends one keeps the claim of what went out or was cut off, and may set
\* that of what did not go out, or went out without a record, free.
LEMMA MailEnds ==
  ASSUME MailInv, NEW p \in Mailings, mailing[p] # "idle", NEW e, e = event[p], EndsMailing(p),
         UNCHANGED delivered, doubtful \subseteq doubtful', deserted \subseteq deserted',
         ClaimIsFree(e)' => ~wentOut[p] \/ e = "resend" \/ e \in doubtful',
         e \notin Notices \cup {"resend"} => ClaimIsFree(e)' \/ wentOut[p] \/ e \in deserted',
         \A f \in Events \ {e} : ClaimIsFree(f)' <=> ClaimIsFree(f)
  PROVE  Accounting'
<1> USE EventKinds DEF MailInv, MailTypes, MailingTypes, RecordTypes
<1>1. /\ mailing' = [mailing EXCEPT ![p] = "idle"]
      /\ event' = [event EXCEPT ![p] = "none"]
      /\ wentOut' = [wentOut EXCEPT ![p] = FALSE]
  BY DEF EndsMailing, MailingTo
<1>2. e \in Events
  OBVIOUS
<1>3. e # "resend" => \A q \in Mailings \ {p} : event[q] # e
  BY <1>2 DEF WorkerHoldsClaim
<1> HIDE DEF ClaimIsFree
<1>4. WorkerHoldsClaim'
  <2> SUFFICES ASSUME NEW q \in Mailings, event'[q] \notin {"none", "resend"}
               PROVE  /\ ~(ClaimIsFree(event[q])')
                      /\ \A r \in Mailings : event'[r] = event'[q] => q = r
    BY DEF WorkerHoldsClaim
  <2>1. q # p /\ event'[q] = event[q] /\ event[q] # e
    BY <1>1, <1>3
  <2> QED
    BY <1>1, <2>1 DEF WorkerHoldsClaim
<1>5. LabelsFit'
  BY <1>1 DEF LabelsFit
<1>6. NothingOutYet'
  <2> SUFFICES ASSUME NEW f \in Events \ {"resend"}, f \notin doubtful'
               PROVE  /\ delivered[f] <= 1
                      /\ ClaimIsFree(f)' => delivered[f] = 0
                      /\ \A q \in Mailings : event'[q] = f /\ ~(wentOut'[q]) => delivered[f] = 0
    BY DEF NothingOutYet
  <2>0. f \notin doubtful
    OBVIOUS
  <2>1. ClaimIsFree(f)' => delivered[f] = 0
    BY <2>0 DEF NothingOutYet
  <2> QED
    BY <1>1, <2>0, <2>1 DEF NothingOutYet
<1>7. IdleClaimWasMailed'
  <2>1. ASSUME NEW f \in Events \ {e}, \A q \in Mailings : event'[q] # f
        PROVE  \A q \in Mailings : event[q] # f
    BY <1>1, <1>2, <2>1
  <2>2. wentOut[p] => delivered[e] > 0
    BY DEF LabelsFit
  <2>3. ASSUME NEW f \in Announcements, f \in sentLog', \A q \in Mailings : event'[q] # f
        PROVE  delivered[f] > 0 \/ f \in deserted'
    BY <2>1, <2>2, <2>3 DEF IdleClaimWasMailed, ClaimIsFree
  <2>4. ASSUME firstSentAt', \A q \in Mailings : event'[q] # "first"
        PROVE  delivered["first"] > 0 \/ "first" \in deserted'
    BY <2>1, <2>2, <2>4 DEF IdleClaimWasMailed, ClaimIsFree
  <2> QED
    BY <2>3, <2>4 DEF IdleClaimWasMailed
<1> QED
  BY <1>4, <1>5, <1>6, <1>7 DEF Accounting

\* Every step keeps the account of claims and mails: one case per statement.
LEMMA AccountingNext ==
  ASSUME MailInv, [StaffMailNext]_staffMailVars
  PROVE  Accounting'
<1> USE EventKinds
<1>1. CASE UNCHANGED staffMailVars \/ Connects
  BY <1>1, MailStands DEF staffMailVars, Connects, ConnectGmail, RevokeAtGoogle, DisconnectGmail, mailHistory
<1>2. ASSUME NEW p \in Mailings, NEW e \in Announcements, ClaimAnnouncement(p, e) PROVE Accounting'
  <2>1. CASE e \in sentLog
    BY <1>2, <2>1, MailStands DEF ClaimAnnouncement, mailRecords, mailHistory
  <2>2. CASE e \notin sentLog
    <3>1. /\ mailing[p] = "idle" /\ BeginsMailing(p, e) /\ UNCHANGED <<delivered, doubtful, deserted>>
          /\ sentLog' = sentLog \cup {e} /\ UNCHANGED <<firstSentAt, noticed>>
      BY <1>2, <2>2 DEF ClaimAnnouncement, MayBegin, mailHistory
    <3>2. /\ ClaimIsFree(e) /\ ~(ClaimIsFree(e)')
          /\ \A f \in Events \ {e} : ClaimIsFree(f)' <=> ClaimIsFree(f)
      BY <2>2, <3>1 DEF ClaimIsFree
    <3> QED
      BY <3>1, <3>2, MailBegins
  <2> QED
    BY <2>1, <2>2
<1>3. ASSUME NEW p \in Mailings, ClaimFirstSend(p) PROVE Accounting'
  <2>1. CASE firstSentAt
    BY <1>3, <2>1, MailStands DEF ClaimFirstSend, mailRecords, mailHistory
  <2>2. CASE ~firstSentAt
    <3>1. /\ mailing[p] = "idle" /\ BeginsMailing(p, "first") /\ UNCHANGED <<delivered, doubtful, deserted>>
          /\ firstSentAt' = TRUE /\ UNCHANGED <<sentLog, noticed>>
      BY <1>3, <2>2 DEF ClaimFirstSend, MayBegin, mailHistory
    <3>2. /\ ClaimIsFree("first") /\ ~(ClaimIsFree("first")')
          /\ \A f \in Events \ {"first"} : ClaimIsFree(f)' <=> ClaimIsFree(f)
      BY <2>2, <3>1 DEF ClaimIsFree
    <3> QED
      BY <3>1, <3>2, MailBegins
  <2> QED
    BY <2>1, <2>2
<1>4. ASSUME NEW p \in Mailings, Resend(p) PROVE Accounting'
  <2>1. CASE UNCHANGED mailingState
    BY <1>4, <2>1, MailStands DEF Resend, mailHistory
  <2>2. CASE BeginsMailing(p, "resend")
    <3>1. mailing[p] = "idle" /\ UNCHANGED <<delivered, doubtful, deserted>> /\ UNCHANGED <<sentLog, firstSentAt, noticed>>
      BY <1>4 DEF Resend, MayBegin, mailHistory, mailRecords
    <3>2. \A f \in Events : ClaimIsFree(f)' <=> ClaimIsFree(f)
      BY <3>1 DEF ClaimIsFree
    <3> QED
      BY <2>2, <3>1, <3>2, MailBegins
  <2> QED
    BY <1>4, <2>1, <2>2 DEF Resend
<1>5. ASSUME NEW p \in Mailings, NEW e \in Notices, Notify(p, e) PROVE Accounting'
  <2>1. /\ mailing[p] = "idle" /\ BeginsMailing(p, e) /\ UNCHANGED <<delivered, doubtful, deserted>>
        /\ e \notin noticed /\ noticed' = noticed \cup {e} /\ UNCHANGED <<sentLog, firstSentAt>>
    BY <1>5 DEF Notify, MayBegin, mailHistory
  <2>2. /\ ClaimIsFree(e) /\ ~(ClaimIsFree(e)')
        /\ \A f \in Events \ {e} : ClaimIsFree(f)' <=> ClaimIsFree(f)
    BY <2>1 DEF ClaimIsFree
  <2> QED
    BY <2>1, <2>2, MailBegins
<1>6. ASSUME NEW p \in Mailings, PickSender(p) PROVE Accounting'
  <2>1. UNCHANGED <<event, wentOut, mailRecords, delivered, doubtful, deserted>> /\ mailing[p] = "pick"
    BY <1>6 DEF PickSender, mailHistory
  <2>2. MailingTo(p, "log") \/ MailingTo(p, "send")
    BY <1>6 DEF PickSender
  <2> QED
    BY <2>1, <2>2, MailMovesOn
<1>7. ASSUME NEW p \in Mailings, GmailRefuses(p) PROVE Accounting'
  BY <1>7, MailMovesOn DEF GmailRefuses, mailHistory
<1>8. ASSUME NEW p \in Mailings, GmailAccepts(p) PROVE Accounting'
  <2> DEFINE e == event[p]
  <2> USE DEF MailInv, MailTypes, MailingTypes, RecordTypes
  <2>1. /\ mailing[p] = "send" /\ UNCHANGED <<event, sentLog, firstSentAt, noticed, doubtful, deserted>>
        /\ mailing' = [mailing EXCEPT ![p] = "log"] /\ wentOut' = [wentOut EXCEPT ![p] = TRUE]
        /\ delivered' = [delivered EXCEPT ![e] = IF @ < 2 THEN @ + 1 ELSE @]
    BY <1>8 DEF GmailAccepts, MailingTo, Delivers, mailRecords
  <2>2. e \in Events /\ ~wentOut[p] /\ delivered'[e] > 0
    BY <2>1 DEF LabelsFit
  <2>3. \A f \in Events : /\ f # e => delivered'[f] = delivered[f]
                          /\ delivered[f] > 0 => delivered'[f] > 0
    BY <2>1
  <2>4. WorkerHoldsClaim' /\ LabelsFit' /\ IdleClaimWasMailed'
    <3>1. WorkerHoldsClaim'
      BY <2>1 DEF WorkerHoldsClaim, ClaimIsFree
    <3>2. LabelsFit'
      BY <2>1, <2>2, <2>3 DEF LabelsFit
    <3>3. IdleClaimWasMailed'
      BY <2>1, <2>3 DEF IdleClaimWasMailed
    <3> QED
      BY <3>1, <3>2, <3>3
  <2>5. NothingOutYet'
    <3> SUFFICES ASSUME NEW f \in Events \ {"resend"}, f \notin doubtful
                 PROVE  /\ delivered'[f] <= 1
                        /\ ClaimIsFree(f)' => delivered'[f] = 0
                        /\ \A q \in Mailings : event[q] = f /\ ~(wentOut'[q]) => delivered'[f] = 0
      BY <2>1 DEF NothingOutYet
    <3>1. ClaimIsFree(f)' <=> ClaimIsFree(f)
      BY <2>1 DEF ClaimIsFree
    <3> HIDE DEF ClaimIsFree
    <3>2. CASE f # e
      <4>1. \A q \in Mailings : event[q] = f => wentOut'[q] = wentOut[q]
        BY <2>1, <3>2
      <4> QED
        BY <2>3, <3>1, <3>2, <4>1 DEF NothingOutYet
    <3>3. CASE f = e
      <4>1. delivered[f] = 0
        BY <2>2, <3>3 DEF NothingOutYet
      <4>2. ~ClaimIsFree(f) /\ \A q \in Mailings : event[q] = f => q = p
        BY <2>2, <3>3 DEF WorkerHoldsClaim
      <4>3. delivered'[f] = 1 /\ wentOut'[p]
        BY <2>1, <2>2, <3>3, <4>1
      <4> QED
        BY <3>1, <4>2, <4>3
    <3> QED
      BY <3>2, <3>3
  <2> QED
    BY <2>4, <2>5 DEF Accounting
<1>9. ASSUME NEW p \in Mailings, GmailFails(p) PROVE Accounting'
  <2> DEFINE e == event[p]
  <2>1. /\ mailing[p] = "send" /\ MailingTo(p, "pick")
        /\ UNCHANGED <<event, wentOut, mailRecords, deserted>>
    BY <1>9 DEF GmailFails
  <2>2. CASE UNCHANGED <<delivered, doubtful>>
    BY <2>1, <2>2, MailMovesOn
  <2>3. CASE Delivers(e) /\ doubtful' = doubtful \cup {e}
    <3> USE DEF MailInv, MailTypes, MailingTypes, RecordTypes
    <3>1. \A f \in Events : /\ f # e => delivered'[f] = delivered[f]
                            /\ delivered[f] > 0 => delivered'[f] > 0
      BY <2>3 DEF Delivers
    <3>2. WorkerHoldsClaim' /\ IdleClaimWasMailed'
      BY <2>1, <3>1 DEF WorkerHoldsClaim, ClaimIsFree, IdleClaimWasMailed, mailRecords
    <3>3. LabelsFit'
      BY <2>1, <3>1 DEF LabelsFit, MailingTo
    <3>4. NothingOutYet'
      BY <2>1, <2>3, <3>1 DEF NothingOutYet, ClaimIsFree, mailRecords
    <3> QED
      BY <3>2, <3>3, <3>4 DEF Accounting
  <2> QED
    BY <1>9, <2>2, <2>3 DEF GmailFails
<1>10. ASSUME NEW p \in Mailings, MarkRevoked(p) PROVE Accounting'
  <2>1. mailing[p] = "revoke" /\ UNCHANGED <<mailRecords, delivered, doubtful, deserted>>
    BY <1>10 DEF MarkRevoked
  <2>2. CASE EndsMailing(p) /\ event[p] \in Notices
    <3>1. ~wentOut[p] /\ ~ClaimIsFree(event[p])
      BY <2>1, <2>2 DEF MailInv, LabelsFit, WorkerHoldsClaim
    <3>2. \A f \in Events : ClaimIsFree(f)' <=> ClaimIsFree(f)
      BY <2>1 DEF ClaimIsFree, mailRecords
    <3> QED
      BY <2>1, <2>2, <3>1, <3>2, MailEnds
  <2>3. CASE UNCHANGED <<event, wentOut>> /\ (MailingTo(p, "log") \/ MailingTo(p, "pick"))
    BY <2>1, <2>3, MailMovesOn
  <2> QED
    BY <1>10, <2>2, <2>3 DEF MarkRevoked
<1>11. ASSUME NEW p \in Mailings, NEW e, e = event[p], RecordMail(p) PROVE Accounting'
  <2>1. /\ mailing[p] = "log" /\ UNCHANGED <<firstSentAt, noticed, delivered, doubtful, deserted>>
        /\ sentLog' = IF wentOut[p] THEN sentLog \cup {e}
                      ELSE IF e \in Announcements THEN sentLog \ {e} ELSE sentLog
    BY <1>11 DEF RecordMail, mailHistory
  <2>2. e \in Events
    BY <2>1, <1>11 DEF MailInv, MailTypes, MailingTypes
  <2>3. \A f \in Events \ {e} : ClaimIsFree(f)' <=> ClaimIsFree(f)
    BY <2>1 DEF ClaimIsFree
  <2>4. e # "resend" => ~ClaimIsFree(e)
    BY <2>2, <1>11 DEF MailInv, WorkerHoldsClaim
  <2>5. CASE e = "first" /\ ~wentOut[p]
    <3>1. UNCHANGED <<event, wentOut>> /\ MailingTo(p, "release") /\ sentLog' = sentLog
      BY <1>11, <2>1, <2>5 DEF RecordMail
    <3> USE DEF MailInv, MailTypes, MailingTypes
    <3>2. WorkerHoldsClaim' /\ NothingOutYet' /\ IdleClaimWasMailed'
      BY <2>1, <3>1 DEF WorkerHoldsClaim, NothingOutYet, IdleClaimWasMailed, ClaimIsFree
    <3>3. LabelsFit'
      BY <1>11, <2>1, <2>5, <3>1 DEF LabelsFit, MailingTo
    <3> QED
      BY <3>2, <3>3 DEF Accounting
  <2>6. CASE ~(e = "first" /\ ~wentOut[p])
    <3>1. EndsMailing(p)
      BY <1>11, <2>6 DEF RecordMail
    <3>2. ClaimIsFree(e)' => ~wentOut[p] \/ e = "resend"
      BY <2>1, <2>2, <2>4, <2>6 DEF ClaimIsFree
    <3>3. e \notin Notices \cup {"resend"} => ClaimIsFree(e)' \/ wentOut[p]
      BY <2>1, <2>2, <2>6 DEF ClaimIsFree
    <3>4. mailing[p] # "idle" /\ deserted \subseteq deserted'
      BY <2>1
    <3> HIDE DEF ClaimIsFree
    <3> QED
      BY <2>1, <2>3, <3>1, <3>2, <3>3, <3>4, <1>11, MailEnds
  <2> QED
    BY <2>5, <2>6
<1>12. ASSUME NEW p \in Mailings, ReleaseFirstSend(p) PROVE Accounting'
  <2>1. /\ mailing[p] = "release" /\ EndsMailing(p) /\ firstSentAt' = FALSE
        /\ UNCHANGED <<sentLog, noticed, delivered, doubtful, deserted>>
    BY <1>12 DEF ReleaseFirstSend, mailHistory
  <2>2. event[p] = "first" /\ ~wentOut[p]
    BY <2>1 DEF MailInv, LabelsFit
  <2>3. ClaimIsFree("first")' /\ \A f \in Events \ {"first"} : ClaimIsFree(f)' <=> ClaimIsFree(f)
    BY <2>1 DEF ClaimIsFree
  <2> QED
    BY <2>1, <2>2, <2>3, MailEnds
<1>13. ASSUME NEW p \in Mailings, MailingCutOff(p) PROVE Accounting'
  <2>1. /\ mailing[p] # "idle" /\ EndsMailing(p) /\ deserted' = deserted \cup {event[p]}
        /\ UNCHANGED <<sentLog, firstSentAt, noticed, delivered, doubtful>>
    BY <1>13 DEF MailingCutOff, mailRecords
  <2>2. \A f \in Events : ClaimIsFree(f)' <=> ClaimIsFree(f)
    BY <2>1 DEF ClaimIsFree
  <2>3. event[p] \in Events /\ (event[p] # "resend" => ~ClaimIsFree(event[p]))
    BY <2>1 DEF MailInv, WorkerHoldsClaim, MailTypes, MailingTypes
  <2> QED
    BY <2>1, <2>2, <2>3, MailEnds
<1>14. ASSUME NEW p \in Mailings, NEW e, e = event[p], AnnouncementThrows(p) PROVE Accounting'
  <2>1. /\ mailing[p] # "idle" /\ EndsMailing(p) /\ e \in Announcements
        /\ UNCHANGED <<firstSentAt, noticed, delivered, deserted>> /\ sentLog' = sentLog \ {e}
        /\ doubtful' = IF wentOut[p] THEN doubtful \cup {e} ELSE doubtful
    BY <1>14 DEF AnnouncementThrows
  <2>2. ClaimIsFree(e)' /\ \A f \in Events \ {e} : ClaimIsFree(f)' <=> ClaimIsFree(f)
    BY <2>1 DEF ClaimIsFree
  <2>3. /\ doubtful \subseteq doubtful' /\ deserted \subseteq deserted'
        /\ ~wentOut[p] \/ e \in doubtful'
    BY <2>1
  <2> HIDE DEF ClaimIsFree
  <2> QED
    BY <2>1, <2>2, <2>3, <1>14, MailEnds
<1> QED
  BY <1>1, <1>2, <1>3, <1>4, <1>5, <1>6, <1>7, <1>8, <1>9, <1>10, <1>11, <1>12, <1>13, <1>14
  DEF StaffMailNext, BeginsMail, Sends

\* Every step keeps the invariant of staff mail.
LEMMA MailNext == MailInv /\ [StaffMailNext]_staffMailVars => MailInv'
BY GrantTypesNext, MailingTypesNext, RecordTypesNext, RevokedNext, AccountingNext
DEF Accounting, MailInv, MailTypes

\* The invariant gives what the runs check.
LEMMA StaffMailIsSafe ==
  MailInv => StaffMailTypeOK /\ OneMailPerEvent /\ IdleClaimWasMailed /\ RevokedIsDead
<1> SUFFICES ASSUME MailInv PROVE StaffMailTypeOK /\ OneMailPerEvent /\ IdleClaimWasMailed /\ RevokedIsDead
  OBVIOUS
<1>1. StaffMailTypeOK
  BY TypesAreTypeOK DEF MailInv
<1>2. OneMailPerEvent
  BY DEF MailInv, NothingOutYet, OneMailPerEvent
<1> QED
  BY <1>1, <1>2 DEF MailInv

-----------------------------------------------------------------------------
(* Each component by itself                                                *)

\* Sequences (sequences.ts 236-415): runs that overlap hold a row together, mail a
\* step again or mail after an opt-out only when a lease lapsed, for any leads,
\* enrolments, steps, invocations, lease and delay, and any order of edits,
\* crashes and ticks.
THEOREM SequencesHold ==
  SequenceSpec => [](SequenceTypeOK /\ HolderIsAlone /\ RepeatsNeedALapse /\ OptOutStopsTheRest)
<1> QED
  BY SequenceInvInit, SequenceInvNext, SequencesAreSafe, PTL DEF SequenceSpec

\* Campaigns (marketing-campaigns.ts 136-281): one delivery per subscriber, a SENT
\* campaign reached whoever stayed, and a placeholder gets out only by a late
\* edit, for any subscribers, clicks, batch size and number of crashes.
THEOREM CampaignsHold ==
  CampaignSpec => [](CampaignTypeOK /\ OneDelivery /\ SentReachedTheLoyal /\ PlaceholderNeedsLateEdit)
<1> QED
  BY CampaignInvInit, CampaignInvNext, CampaignIsSafe, PTL DEF CampaignSpec

\* Task reminders (task-reminders.ts): one reminder per due date as set, and a task
\* marked as notified was told of, for any tasks, agents and desks.
THEOREM RemindersHold == ReminderSpec => [](ReminderTypeOK /\ OneReminderPerCycle /\ NotifiedMeansTold)
<1> QED
  BY ReminderInvInit, ReminderInvNext, RemindersAreSafe, PTL DEF ReminderSpec

\* Inquiries (public-inquiry.ts 146-172, admin-notifications.ts 69-107): one copy per
\* window and no notification beyond the creator's and one poll's, for any rows,
\* texts and requests.
THEOREM InquiriesHold == InboxSpec => [](InboxTypeOK /\ OneCopyPerWindow /\ NoDuplicateAlerts)
<1> QED
  BY InboxInvInit, InboxInvNext, InboxIsSafe, PTL DEF InboxSpec

\* Health incidents (system-health.ts): one announcement per window, for any
\* evaluations and instances, of old builds and new.
THEOREM IncidentsHold == HealthSpec => [](HealthTypeOK /\ OneAnnouncementPerWindow)
<1> QED
  BY HealthInvInit, HealthInvNext, HealthIsSafe, PTL DEF HealthSpec

\* Staff mail (booking-notification.ts 275-277, bookings.ts 643-652): one mail per
\* event unless the answer of the service is in doubt, an idle claim was mailed or
\* deserted, and only a refused grant is revoked, for any mailings and faults.
THEOREM StaffMailHolds ==
  StaffMailSpec => [](StaffMailTypeOK /\ OneMailPerEvent /\ IdleClaimWasMailed /\ RevokedIsDead)
<1> QED
  BY MailInit, MailNext, StaffMailIsSafe, PTL DEF StaffMailSpec

-----------------------------------------------------------------------------
(* The components together                                                 *)

\* The components share no state: what each keeps, all keep.
OutboundInv == SequenceInv /\ CampaignInv /\ ReminderInv /\ InboxInv /\ HealthInv /\ MailInv

LEMMA OutboundInvInit == OutboundInit => OutboundInv
BY SequenceInvInit, CampaignInvInit, ReminderInvInit, InboxInvInit, HealthInvInit, MailInit
DEF OutboundInit, OutboundInv

\* A step is a step of one component, and leaves the others as they are; what a
\* part leaves out of a component's moves are still moves of the component.
LEMMA OutboundStepsAreTheirs ==
  ASSUME [OutboundNext]_OutboundVars
  PROVE  /\ [SequenceNext]_sequenceVars /\ [CampaignNext]_campaignVars /\ [ReminderNext]_reminderVars
         /\ [InboxNext]_inboxVars /\ [HealthNext]_healthVars /\ [StaffMailNext]_staffMailVars
<1>1. CASE OnlySequences /\ SequenceMoves1
  BY <1>1 DEF OnlySequences, SequenceMoves1
<1>2. CASE OnlyCampaigns /\ CampaignMoves1
  BY <1>2 DEF OnlyCampaigns, CampaignMoves1
<1>3. CASE OnlyTasks /\ ReminderNext
  BY <1>3 DEF OnlyTasks
<1>4. CASE OnlyInquiries /\ InboxNext
  BY <1>4 DEF OnlyInquiries
<1>5. CASE OnlyHealth /\ HealthNext
  BY <1>5 DEF OnlyHealth
<1>6. CASE OnlyStaffMail /\ StaffMailMoves
  BY <1>6 DEF OnlyStaffMail, StaffMailMoves
<1>7. CASE UNCHANGED OutboundVars
  BY <1>7 DEF OutboundVars
<1> QED
  BY <1>1, <1>2, <1>3, <1>4, <1>5, <1>6, <1>7 DEF OutboundNext

\* Every step keeps the invariant of all six.
LEMMA OutboundInvNext == OutboundInv /\ [OutboundNext]_OutboundVars => OutboundInv'
BY OutboundStepsAreTheirs, SequenceInvNext, CampaignInvNext, ReminderInvNext, InboxInvNext, HealthInvNext,
     MailNext
DEF OutboundInv

\* It gives what the runs check.
LEMMA OutboundIsSafe ==
  OutboundInv => OutboundTypeOK /\ NothingIsSentTwice /\ NothingIsSilentlySkipped /\ OnlyWantedMailLeaves
BY SequencesAreSafe, CampaignIsSafe, RemindersAreSafe, InboxIsSafe, HealthIsSafe, StaffMailIsSafe
DEF OutboundInv, OutboundTypeOK, NothingIsSentTwice, NothingIsSilentlySkipped, OnlyWantedMailLeaves

\* Every row, local variable and bound of the six components keeps its type.
THEOREM OutboundTypesHold == OutboundSpec => []OutboundTypeOK
<1> QED
  BY OutboundInvInit, OutboundInvNext, OutboundIsSafe, PTL DEF OutboundSpec

\* However the invocations of the office overlap, retry and die, nothing is sent or
\* told twice but for a lapsed lease, an unsure attempt or a doubtful answer.
THEOREM NothingIsSentTwiceHolds == OutboundSpec => []NothingIsSentTwice
<1> QED
  BY OutboundInvInit, OutboundInvNext, OutboundIsSafe, PTL DEF OutboundSpec

\* A campaign's end, a reminder's mark and a first-send claim, each written apart
\* from the sending, stand for mail that went out.
THEOREM NothingIsSilentlySkippedHolds == OutboundSpec => []NothingIsSilentlySkipped
<1> QED
  BY OutboundInvInit, OutboundInvNext, OutboundIsSafe, PTL DEF OutboundSpec

\* Nothing goes out after an opt-out that no claim preceded, with a placeholder that
\* no late edit brought in, or from a mailbox marked as revoked for a live grant.
THEOREM OnlyWantedMailLeavesHolds == OutboundSpec => []OnlyWantedMailLeaves
<1> QED
  BY OutboundInvInit, OutboundInvNext, OutboundIsSafe, PTL DEF OutboundSpec
=============================================================================

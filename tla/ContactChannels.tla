-------------------------- MODULE ContactChannels ---------------------------
(***************************************************************************)
(* The phone numbers of one contact (server/actions/contacts.ts): rows of  *)
(* which one is primary, and the copy of its number in the contact itself. *)
(* Every handler ends in syncPrimaryPhone, which repairs both; no handler  *)
(* is a transaction.  p is one request, one action one statement.  The     *)
(* e-mail addresses of a contact have the same handlers again.             *)
(***************************************************************************)
EXTENDS Integers, FiniteSets

CONSTANTS
  Phones,        \* ids in the order of their createdAt
  Numbers, Editors,
  NoNumber, NoPhone,
  MaxCuts        \* bounds the requests that die

ASSUME ChannelConstants ==
  /\ Phones \subseteq Nat \ {0} /\ NoPhone = 0
  /\ NoNumber \notin Numbers /\ MaxCuts \in Nat

VARIABLES
  number,      \* [Phones -> its number, NoNumber when there is no such row]
  primaries,   \* the rows with isPrimary
  primaryPhone,\* Contact.primaryPhone
  newestId,    \* the last id given out
  step,        \* [Editors -> next statement]
  target,      \* [Editors -> the row it is about or has found]
  written,     \* [Editors -> the number it writes or has read]
  asPrimary,   \* [Editors -> whether the row it adds is to be primary]
  \* history
  alone,       \* the requests no other has overlapped so far
  crowded,     \* the request that last made a row primary had met another under way
  settled,     \* the last request to end was alone from its start
  cuts

channelVars == <<number, primaries, primaryPhone, newestId>>
editVars == <<step, target, written, asPrimary>>
soloVars == <<alone, crowded, settled, cuts>>
phoneVars == <<channelVars, editVars, soloVars>>

OnFile == {r \in Phones : number[r] # NoNumber}
Newest == CHOOSE r \in OnFile : \A s \in OnFile : s <= r
Editing == {p \in Editors : step[p] # "idle"}

StepTo(p, label) == step' = [step EXCEPT ![p] = label]

\* A request begins once its caller may see the contact.
Edits(p, label, r, n, flag) ==
  /\ step[p] = "idle"
  /\ StepTo(p, label)
  /\ target' = [target EXCEPT ![p] = r]
  /\ written' = [written EXCEPT ![p] = n]
  /\ asPrimary' = [asPrimary EXCEPT ![p] = flag]
  /\ alone' = IF Editing = {} THEN {p} ELSE {}
  /\ settled' = FALSE
  /\ UNCHANGED <<channelVars, crowded, cuts>>

UpdatePrimaryNumber(p, n) == Edits(p, "find", NoPhone, n, TRUE)
AddContactPhone(p, n, flag) == Edits(p, IF flag THEN "clear" ELSE "count", NoPhone, n, flag)
SetPrimaryPhone(p, r) == Edits(p, "clear", r, NoNumber, FALSE)
DeleteContactPhone(p, r) == Edits(p, "delete", r, NoNumber, FALSE)

EditEnds(p) ==
  /\ StepTo(p, "idle")
  /\ target' = [target EXCEPT ![p] = NoPhone]
  /\ written' = [written EXCEPT ![p] = NoNumber]
  /\ asPrimary' = [asPrimary EXCEPT ![p] = FALSE]
  /\ settled' = (p \in alone) /\ alone' = alone \ {p}

\* A single-row update throws when its row is gone.
Throws(p) == EditEnds(p) /\ UNCHANGED <<channelVars, crowded, cuts>>

MakesPrimary(p, r) == primaries' = primaries \cup {r} /\ crowded' = (p \notin alone)
-----------------------------------------------------------------------------
(* updatePrimaryPhoneNumber *)

FindPrimary(p) ==
  /\ step[p] = "find"
  /\ IF primaries = {} THEN target' = target
                       ELSE \E r \in primaries : target' = [target EXCEPT ![p] = r]
  /\ StepTo(p, "put")
  /\ UNCHANGED <<channelVars, written, asPrimary, soloVars>>

PutNumber(p) ==
  /\ step[p] = "put" /\ target[p] \in OnFile
  /\ number' = [number EXCEPT ![target[p]] = written[p]]
  /\ StepTo(p, "sync")
  /\ UNCHANGED <<primaries, primaryPhone, newestId, target, written, asPrimary, soloVars>>

PutVanished(p) == step[p] = "put" /\ target[p] \notin OnFile \cup {NoPhone} /\ Throws(p)

Inserts(p, flag) ==
  /\ newestId + 1 \in Phones
  /\ newestId' = newestId + 1
  /\ number' = [number EXCEPT ![newestId'] = written[p]]
  /\ IF flag THEN MakesPrimary(p, newestId') ELSE UNCHANGED <<primaries, crowded>>
  /\ StepTo(p, "sync")
  /\ UNCHANGED <<primaryPhone, target, written, asPrimary, alone, settled, cuts>>

CreatePrimary(p) == step[p] = "put" /\ target[p] = NoPhone /\ Inserts(p, TRUE)
-----------------------------------------------------------------------------
(* addContactPhone, setPrimaryPhone, deleteContactPhone *)

ClearPrimaries(p) ==
  /\ step[p] = "clear"
  /\ primaries' = {}
  /\ StepTo(p, IF target[p] = NoPhone THEN "count" ELSE "mark")
  /\ UNCHANGED <<number, primaryPhone, newestId, target, written, asPrimary, soloVars>>

\* The first number of a contact becomes its primary.
CountPhones(p) ==
  /\ step[p] = "count"
  /\ asPrimary' = [asPrimary EXCEPT ![p] = @ \/ OnFile = {}]
  /\ StepTo(p, "insert")
  /\ UNCHANGED <<channelVars, target, written, soloVars>>

InsertPhone(p) == step[p] = "insert" /\ Inserts(p, asPrimary[p])

\* Only a row of this contact.
MarkPrimary(p) ==
  /\ step[p] = "mark"
  /\ IF target[p] \in OnFile THEN MakesPrimary(p, target[p]) ELSE UNCHANGED <<primaries, crowded>>
  /\ StepTo(p, "sync")
  /\ UNCHANGED <<number, primaryPhone, newestId, target, written, asPrimary, alone, settled, cuts>>

DeletePhone(p) ==
  /\ step[p] = "delete"
  /\ number' = [number EXCEPT ![target[p]] = NoNumber]
  /\ primaries' = primaries \ {target[p]}
  /\ StepTo(p, "sync")
  /\ UNCHANGED <<primaryPhone, newestId, target, written, asPrimary, soloVars>>
-----------------------------------------------------------------------------
(* syncPrimaryPhone *)

SyncFind(p) ==
  /\ step[p] = "sync"
  /\ IF primaries = {}
     THEN StepTo(p, "fallback") /\ UNCHANGED written
     ELSE /\ StepTo(p, "mirror")
          /\ \E r \in primaries : written' = [written EXCEPT ![p] = number[r]]
  /\ UNCHANGED <<channelVars, target, asPrimary, soloVars>>

SyncFallback(p) ==
  /\ step[p] = "fallback"
  /\ IF OnFile = {}
     THEN written' = [written EXCEPT ![p] = NoNumber] /\ StepTo(p, "mirror") /\ UNCHANGED target
     ELSE target' = [target EXCEPT ![p] = Newest] /\ StepTo(p, "promote") /\ UNCHANGED written
  /\ UNCHANGED <<channelVars, asPrimary, soloVars>>

\* Returns the row as it then is.
SyncPromote(p) ==
  /\ step[p] = "promote" /\ target[p] \in OnFile
  /\ MakesPrimary(p, target[p])
  /\ written' = [written EXCEPT ![p] = number[target[p]]]
  /\ StepTo(p, "mirror")
  /\ UNCHANGED <<number, primaryPhone, newestId, target, asPrimary, alone, settled, cuts>>

PromoteVanished(p) == step[p] = "promote" /\ target[p] \notin OnFile /\ Throws(p)

SyncMirror(p) ==
  /\ step[p] = "mirror"
  /\ primaryPhone' = written[p]
  /\ EditEnds(p)
  /\ UNCHANGED <<number, primaries, newestId, crowded, cuts>>

EditorDies(p) ==
  /\ p \in Editing /\ cuts < MaxCuts
  /\ cuts' = cuts + 1
  /\ StepTo(p, "idle")
  /\ target' = [target EXCEPT ![p] = NoPhone]
  /\ written' = [written EXCEPT ![p] = NoNumber]
  /\ asPrimary' = [asPrimary EXCEPT ![p] = FALSE]
  /\ settled' = FALSE /\ alone' = alone \ {p}
  /\ UNCHANGED <<channelVars, crowded>>
-----------------------------------------------------------------------------
\* A contact with some numbers, one of them primary and copied, as the import
\* and the intake create it.
ChannelInit ==
  /\ number \in [Phones -> Numbers \cup {NoNumber}]
  /\ newestId \in Phones \cup {NoPhone} /\ OnFile = 1..newestId /\ newestId + 1 \in Phones
  /\ IF OnFile = {} THEN primaries = {} /\ primaryPhone = NoNumber
     ELSE \E r \in OnFile : primaries = {r} /\ primaryPhone = number[r]
  /\ step = [p \in Editors |-> "idle"]
  /\ target = [p \in Editors |-> NoPhone] /\ written = [p \in Editors |-> NoNumber]
  /\ asPrimary = [p \in Editors |-> FALSE]
  /\ alone = {} /\ crowded = FALSE /\ settled = TRUE /\ cuts = 0

EditorStep(p) ==
  \/ FindPrimary(p) \/ PutNumber(p) \/ PutVanished(p) \/ CreatePrimary(p)
  \/ ClearPrimaries(p) \/ CountPhones(p) \/ InsertPhone(p) \/ MarkPrimary(p) \/ DeletePhone(p)
  \/ SyncFind(p) \/ SyncFallback(p) \/ SyncPromote(p) \/ PromoteVanished(p) \/ SyncMirror(p)

ChannelNext ==
  \E p \in Editors :
    \/ EditorStep(p) \/ EditorDies(p)
    \/ \E n \in Numbers : UpdatePrimaryNumber(p, n) \/ \E f \in BOOLEAN : AddContactPhone(p, n, f)
    \/ \E r \in OnFile : SetPrimaryPhone(p, r) \/ DeleteContactPhone(p, r)

ChannelSpec == ChannelInit /\ [][ChannelNext]_phoneVars
-----------------------------------------------------------------------------
(* What must hold of a contact's numbers. *)
ChannelTypeOK ==
  /\ number \in [Phones -> Numbers \cup {NoNumber}]
  /\ newestId \in Phones \cup {0} /\ \A r \in OnFile : r <= newestId
  /\ primaries \subseteq OnFile /\ primaryPhone \in Numbers \cup {NoNumber}
  /\ step \in [Editors -> {"idle", "find", "put", "clear", "count", "insert", "mark", "delete",
                           "sync", "fallback", "promote", "mirror"}]
  /\ target \in [Editors -> Phones \cup {NoPhone}] /\ asPrimary \in [Editors -> BOOLEAN]
  /\ written \in [Editors -> Numbers \cup {NoNumber}]
  /\ \A p \in Editors :
       /\ step[p] \in {"mark", "delete", "promote"} => target[p] # NoPhone
       /\ step[p] \in {"put", "count", "insert"} => written[p] # NoNumber
  /\ alone \subseteq Editing /\ crowded \in BOOLEAN /\ settled \in BOOLEAN /\ cuts \in 0..MaxCuts

\* The contact's own copy is the number of a primary row, and there is none
\* only when there is no number.
Mirrored ==
  IF OnFile = {} THEN primaryPhone = NoNumber
                 ELSE \E r \in primaries : number[r] = primaryPhone

\* A contact has two primary numbers only when the request that made the second
\* one met another under way: the clearing of addContactPhone and setPrimaryPhone
\* and the look of syncPrimaryPhone (contacts.ts 273-284, 312-319, 333-339) are
\* statements of their own, so two additions that race can both insert a primary
\* row.  A request nobody met never leaves two, whatever earlier races and deaths
\* left it, and the switch after a race undoes the second one.
OnePrimaryUnlessCrowded == crowded \/ Cardinality(primaries) <= 1

\* Whatever races and deaths have left behind, one edit that runs by itself
\* repairs it: the contact then shows a number it has, as syncPrimaryPhone
\* promises (contacts.ts 264-272).
SoloEditRepairs == settled /\ Editing = {} => Mirrored
=============================================================================

------------------------------ MODULE Handover ------------------------------
(***************************************************************************)
(* Leads and contacts change hands: reassignLead and updateLeadField of    *)
(* server/actions/leads.ts, performContactReassignment of                  *)
(* server/contact-reassignment.ts behind reassignContact and behind the    *)
(* recheck after an edit, and the writers of owners elsewhere.  p is one   *)
(* request; it reads the owner, moves the record if it is still that       *)
(* owner's, and then records and notifies.  Quotes, which follow their     *)
(* lead in the same transaction, and the status history are left out.      *)
(***************************************************************************)
EXTENDS Integers, Sequences, FiniteSets

CONSTANTS
  LeadRecords, ContactRecords, Owners, Movers,
  Unowned, NoRecord,
  MaxMoves,        \* bounds the changes of one record
  MaxLosses        \* bounds the requests that die

Records == LeadRecords \cup ContactRecords

ASSUME HandoverConstants ==
  /\ Unowned \notin Owners /\ NoRecord \notin Records
  /\ LeadRecords \cap ContactRecords = {} /\ IsFiniteSet(Movers)
  /\ MaxMoves \in Nat /\ MaxLosses \in Nat

VARIABLES
  holder,      \* [Records -> Lead.assignedAgentId or Contact.ownerId]
  creator,     \* [Records -> who is still creating the contact, Unowned for nobody]
  trail,       \* [Records -> rows LEAD_REASSIGNED, CONTACT_REASSIGNED, as <<from, to>>]
  notices,     \* [Records -> what the new holders were notified of]
  at,          \* [Movers -> next statement]
  record, before, dest,      \* what it moves, the owner it read, where to
  \* history
  moves,       \* [Records -> the changes of hands, as <<from, to>>]
  held,        \* [Records -> who has ever held it]
  granted,     \* requests answered without an error, as <<record, to>>
  overwritten, \* contacts whose owner createLead replaced unseen
  losses

recordVars == <<holder, creator, trail, notices>>
moverVars == <<at, record, before, dest>>
pastVars == <<moves, held, granted, overwritten, losses>>
handoverVars == <<recordVars, moverVars, pastVars>>

Under(r) == {p \in Movers : record[p] = r /\ at[p] \in {"reassign", "claim"}}
HasRoom(r) == Len(moves[r]) + (IF Under(r) = {} THEN 0 ELSE 1) < MaxMoves

MoverGoto(p, label) == at' = [at EXCEPT ![p] = label]

Leaves(p) ==
  /\ MoverGoto(p, "idle")
  /\ record' = [record EXCEPT ![p] = NoRecord]
  /\ before' = [before EXCEPT ![p] = Unowned]
  /\ dest' = [dest EXCEPT ![p] = Unowned]

\* r goes from `from` to `to`.
Changes(r, from, to) ==
  /\ holder' = [holder EXCEPT ![r] = to]
  /\ moves' = [moves EXCEPT ![r] = Append(@, <<from, to>>)]
  /\ held' = [held EXCEPT ![r] = @ \cup {to}]
-----------------------------------------------------------------------------
(* The two reassignments *)

\* For the one who has it already nothing is to be done.
ReadHolder(p, r, to) ==
  /\ at[p] = "idle" /\ HasRoom(r)
  /\ IF holder[r] = to
     THEN granted' = granted \cup {<<r, to>>} /\ UNCHANGED moverVars
     ELSE /\ MoverGoto(p, "claim")
          /\ record' = [record EXCEPT ![p] = r]
          /\ before' = [before EXCEPT ![p] = holder[r]]
          /\ dest' = [dest EXCEPT ![p] = to]
          /\ UNCHANGED granted
  /\ UNCHANGED <<recordVars, moves, held, overwritten, losses>>

ReassignLead(p, l, to) == l \in LeadRecords /\ ReadHolder(p, l, to)
ReassignContact(p, c, to) == c \in ContactRecords /\ ReadHolder(p, c, to)

\* After an edit of phone or e-mail: the owner of the contact it now matches is to
\* have this one too.
RecheckOwnership(p, c, matched) ==
  /\ at[p] = "idle" /\ HasRoom(c)
  /\ c \in ContactRecords /\ matched \in ContactRecords \ {c}
  /\ holder[matched] \notin {Unowned, holder[c]}
  /\ MoverGoto(p, "reassign")
  /\ record' = [record EXCEPT ![p] = c]
  /\ before' = [before EXCEPT ![p] = Unowned]
  /\ dest' = [dest EXCEPT ![p] = holder[matched]]
  /\ UNCHANGED <<recordVars, pastVars>>

\* The reassignment it calls reads the owner once more; by now it may be the one
\* found, and the one found may have lost the contact it was found by.
ReadRechecked(p) ==
  /\ at[p] = "reassign"
  /\ IF holder[record[p]] = dest[p]
     THEN granted' = granted \cup {<<record[p], dest[p]>>} /\ Leaves(p)
     ELSE /\ MoverGoto(p, "claim")
          /\ before' = [before EXCEPT ![p] = holder[record[p]]]
          /\ UNCHANGED <<granted, record, dest>>
  /\ UNCHANGED <<recordVars, moves, held, overwritten, losses>>

\* Defect: the record is moved by its id.
ClaimsById(p) == at[p] = "claim"

StillTheirs(p) == at[p] = "claim" /\ holder[record[p]] = before[p]

MoveLead(p) ==
  /\ StillTheirs(p) /\ record[p] \in LeadRecords
  /\ Changes(record[p], before[p], dest[p])
  /\ MoverGoto(p, "log")
  /\ UNCHANGED <<creator, trail, notices, record, before, dest, granted, overwritten, losses>>

\* With its activity and its audit row.
MoveContact(p) ==
  /\ StillTheirs(p) /\ record[p] \in ContactRecords
  /\ Changes(record[p], before[p], dest[p])
  /\ trail' = [trail EXCEPT ![record[p]] = Append(@, <<before[p], dest[p]>>)]
  /\ MoverGoto(p, "notify")
  /\ UNCHANGED <<creator, notices, record, before, dest, granted, overwritten, losses>>

LoseClaim(p) ==
  /\ at[p] = "claim" /\ ~StillTheirs(p)
  /\ MoverGoto(p, "lost")
  /\ UNCHANGED <<recordVars, record, before, dest, pastVars>>

\* A repeat of what is done succeeds, anything else is a conflict.
AnswerLoser(p) ==
  /\ at[p] = "lost"
  /\ granted' = IF holder[record[p]] = dest[p] THEN granted \cup {<<record[p], dest[p]>>} ELSE granted
  /\ Leaves(p)
  /\ UNCHANGED <<recordVars, moves, held, overwritten, losses>>

LogLead(p) ==
  /\ at[p] = "log"
  /\ trail' = [trail EXCEPT ![record[p]] = Append(@, <<before[p], dest[p]>>)]
  /\ MoverGoto(p, "notify")
  /\ UNCHANGED <<holder, creator, notices, record, before, dest, pastVars>>

\* Both bells; the e-mails follow the response.
NotifyHolder(p) ==
  /\ at[p] = "notify"
  /\ notices' = [notices EXCEPT ![record[p]] = Append(@, <<before[p], dest[p]>>)]
  /\ granted' = granted \cup {<<record[p], dest[p]>>}
  /\ Leaves(p)
  /\ UNCHANGED <<holder, creator, trail, moves, held, overwritten, losses>>

MoverDies(p) ==
  /\ at[p] # "idle" /\ losses < MaxLosses
  /\ losses' = losses + 1
  /\ Leaves(p)
  /\ UNCHANGED <<recordVars, moves, held, granted, overwritten>>
-----------------------------------------------------------------------------
(* The other writers *)

\* acceptLeadOffer: a lead, or a contact, that nobody holds.
AcceptUnowned(r, a) ==
  /\ holder[r] = Unowned /\ HasRoom(r)
  /\ Changes(r, Unowned, a)
  /\ UNCHANGED <<creator, trail, notices, moverVars, granted, overwritten, losses>>

\* updateLeadField({ assignedAgentId: null })
UnassignHeld(l) ==
  /\ l \in LeadRecords /\ holder[l] # Unowned /\ HasRoom(l)
  /\ Changes(l, holder[l], Unowned)
  /\ UNCHANGED <<creator, trail, notices, moverVars, granted, overwritten, losses>>

\* The last statement of createLead for a contact it created, by id.
CreatorTakes(c) ==
  /\ creator[c] # Unowned
  /\ holder' = [holder EXCEPT ![c] = creator[c]]
  /\ held' = [held EXCEPT ![c] = @ \cup {creator[c]}]
  /\ moves' = [moves EXCEPT ![c] = Append(@, <<holder[c], creator[c]>>)]
  /\ overwritten' = IF holder[c] = Unowned THEN overwritten ELSE overwritten \cup {c}
  /\ creator' = [creator EXCEPT ![c] = Unowned]
  /\ UNCHANGED <<trail, notices, moverVars, granted, losses>>

HandoverInit ==
  /\ holder \in [Records -> Owners \cup {Unowned}]
  /\ creator \in [Records -> Owners \cup {Unowned}]
  /\ \A r \in Records : creator[r] # Unowned => r \in ContactRecords /\ holder[r] = Unowned
  /\ held = [r \in Records |-> {holder[r]}]
  /\ trail = [r \in Records |-> <<>>] /\ notices = [r \in Records |-> <<>>] /\ moves = [r \in Records |-> <<>>]
  /\ at = [p \in Movers |-> "idle"]
  /\ record = [p \in Movers |-> NoRecord]
  /\ before = [p \in Movers |-> Unowned] /\ dest = [p \in Movers |-> Unowned]
  /\ granted = {} /\ overwritten = {} /\ losses = 0

MoverStep(p) ==
  \/ ReadRechecked(p) \/ MoveLead(p) \/ MoveContact(p) \/ LoseClaim(p) \/ AnswerLoser(p) \/ LogLead(p) \/ NotifyHolder(p)

HandoverNext ==
  \/ \E p \in Movers :
       \/ MoverStep(p) \/ MoverDies(p)
       \/ \E r \in Records : \/ \E to \in Owners : ReassignLead(p, r, to) \/ ReassignContact(p, r, to)
                             \/ \E m \in Records : RecheckOwnership(p, r, m)
  \/ \E r \in Records :
       UnassignHeld(r) \/ CreatorTakes(r) \/ \E a \in Owners : AcceptUnowned(r, a)

HandoverSpec == HandoverInit /\ [][HandoverNext]_handoverVars
-----------------------------------------------------------------------------
(* What must hold when records change hands. *)
Pairs == (Owners \cup {Unowned}) \X (Owners \cup {Unowned})

HandoverTypeOK ==
  /\ holder \in [Records -> Owners \cup {Unowned}] /\ creator \in [Records -> Owners \cup {Unowned}]
  /\ at \in [Movers -> {"idle", "reassign", "claim", "lost", "log", "notify"}]
  /\ \A p \in Movers :
       /\ at[p] = "idle" <=> record[p] = NoRecord
       /\ at[p] = "log" => record[p] \in LeadRecords
       /\ at[p] # "idle" => dest[p] \in Owners /\ before[p] # dest[p]
  /\ \A r \in Records :
       /\ \A i \in DOMAIN trail[r] : trail[r][i] \in Pairs
       /\ holder[r] \in held[r] /\ held[r] \subseteq Owners \cup {Unowned}
  /\ granted \subseteq Records \X Owners /\ losses \in 0..MaxLosses

\* The reassignment rows of a contact read as one history: each begins with
\* the owner the one before ended with, and the last names the present owner.
\* Requests that race, die or repeat neither fork nor skip it, since the owner
\* read is compared in the write and the row is part of the transaction
\* (contact-reassignment.ts 74-124); only createLead's last write breaks it.
ContactTrailIsOneHistory ==
  \A c \in ContactRecords \ overwritten :
    LET t == trail[c] IN
    /\ \A i \in 1..(Len(t) - 1) : t[i][2] = t[i + 1][1]
    /\ t # <<>> => t[Len(t)][2] = holder[c]

Times(pair, s) == Cardinality({i \in DOMAIN s : s[i] = pair})

\* Nobody is told of a hand-over that did not happen, nor twice of one, and no
\* row records one, whoever loses the race (leads.ts 704-738).
OnlyWinnersNotify ==
  \A r \in Records : \A x \in Pairs :
    Times(x, notices[r]) <= Times(x, moves[r]) /\ Times(x, trail[r]) <= Times(x, moves[r])

\* A request that does not fail has its wish: the record was with the agent it
\* named, though a later request may have moved it on.
GrantedWasHeld == \A g \in granted : g[2] \in held[g[1]]
=============================================================================

------------------------------ MODULE LeadDesk ------------------------------
(***************************************************************************)
(* The page of one lead, open in several tabs: its status and its owner    *)
(* (lead-status-select.tsx, updateLeadStatus, lead-status-change.ts,       *)
(* reassignLead), written by a quote's send, the queue and the customer    *)
(* too, and its travel request (travel-request-card.tsx, setLeadSegments,  *)
(* lead-segments-editor.tsx, updateLeadField).  A leg is a pair of places; *)
(* its date travels with it.  t is a tab and the account at it.            *)
(***************************************************************************)
EXTENDS Naturals, Sequences, FiniteSets, SequencesExt

CONSTANTS
  DeskTabs, DeskRole,  \* [DeskTabs -> "agent" or "manager", canChangeBookedLeadStatus]
  Places, NoPlace,     \* airports, and the field left empty
  DeskStatuses,        \* LeadStatus, "NEW", "ACCEPTED", "QUOTED" and "BOOKED" among them
  TripTypes,           \* TripType, "MULTI_CITY" among them
  MaxLegs,             \* MAX_LEAD_SEGMENTS
  StatusAttempts,      \* MAX_ATTEMPTS
  NoTab,
  MaxDeskMoves         \* bounds what is done at the page

ASSUME LeadDeskConstants == 
  MaxLegs \in Nat /\ NoTab \notin DeskTabs /\ {"NEW", "ACCEPTED", "QUOTED", "BOOKED"} \subseteq DeskStatuses

VARIABLES
  lead,        \* [status, owner, trip, from, to, back]; back: it has a returnDate
  legRows,     \* LeadSegment rows [sequence, from, to, save]
  view,        \* [DeskTabs -> [status, trip] as the page was rendered]
  editor,      \* [DeskTabs -> [legs, saved], the list and what was last saved of it]
  statusCall,  \* [DeskTabs -> updateLeadStatus being served]
  moving,      \* other requests that write status or owner: [by, how, to, owner, from]
  legsCall,    \* [DeskTabs -> setLeadSegments being served]
  \* history
  unbooked,    \* <<role, way>> that took the lead away from BOOKED
  misread,     \* <<role, way>> whose LeadStatusHistory row has another fromStatus than the one replaced
  crossedLegs, \* two lists were being stored at once
  rerouted,    \* the lead's own route was edited while it had legs
  lastSaver,   \* tab that stored a list last, and knows
  deskMoves

leadHistory == <<unbooked, misread, crossedLegs, rerouted, lastSaver>>
leadDeskVars == <<lead, legRows, view, editor, statusCall, moving, legsCall, leadHistory, deskMoves>>

NoStatusCall == [step |-> "none"]
NoLegsCall == [step |-> "none"]
Leg(from, to) == [from |-> from, to |-> to]
Ends == Places \cup {NoPlace}
MovesAtDesk == deskMoves < MaxDeskMoves /\ deskMoves' = deskMoves + 1

\* The order legs are read in.
Before(a, b) == a.sequence < b.sequence \/ (a.sequence = b.sequence /\ a.save < b.save)

\* Stored legs in their order.
StoredLegs ==
  [i \in 1..Cardinality(legRows) |->
     LET r == CHOOSE r \in legRows : Cardinality({q \in legRows : Before(q, r)}) = i - 1 IN Leg(r.from, r.to)]

\* editableSegments: a request without legs starts from its route and its return.
SeededLegs ==
  IF legRows # {} THEN StoredLegs
  ELSE <<Leg(lead.from, lead.to)>> \o (IF lead.back THEN <<Leg(lead.to, lead.from)>> ELSE <<>>)

Rendered == [status |-> lead.status, trip |-> lead.trip]
Opened == [legs |-> SeededLegs, saved |-> SeededLegs]

\* The page of t is rendered again; only an editor that appears starts from the lead.
Rerenders(t) ==
  /\ view' = [view EXCEPT ![t] = Rendered']
  /\ editor' = [editor EXCEPT ![t] = IF lead'.trip = "MULTI_CITY" /\ view[t].trip # "MULTI_CITY" THEN Opened' ELSE @]

Reload(t) ==
  /\ statusCall[t] = NoStatusCall /\ legsCall[t] = NoLegsCall
  /\ MovesAtDesk
  /\ view' = [view EXCEPT ![t] = Rendered] /\ editor' = [editor EXCEPT ![t] = Opened]
  /\ UNCHANGED <<lead, legRows, statusCall, moving, legsCall, leadHistory>>
-----------------------------------------------------------------------------
(* Status *)

\* An update of the row: a serializable transaction that read it before cannot write it.
Outdated == [u \in DeskTabs |-> IF statusCall[u].step = "writes" THEN [statusCall[u] EXCEPT !.outdated = TRUE] ELSE statusCall[u]]

\* Locked for an agent who sees BOOKED, and while a change is under way.
SelectStatus(t, s) ==
  /\ statusCall[t] = NoStatusCall /\ s # view[t].status
  /\ view[t].status = "BOOKED" => DeskRole[t] = "manager"
  /\ MovesAtDesk
  /\ statusCall' = [statusCall EXCEPT ![t] = [step |-> "reads", to |-> s, tries |-> 1]]
  /\ UNCHANGED <<lead, legRows, view, editor, moving, legsCall, leadHistory>>

\* An agent's transaction refuses a booked lead; a manager's applyLeadStatusChange
\* only takes the old status down.
ReadsStatus(t) ==
  LET call == statusCall[t] IN
  /\ call.step = "reads"
  /\ statusCall' = [statusCall EXCEPT ![t] =
       IF DeskRole[t] = "agent" /\ lead.status = "BOOKED" THEN NoStatusCall
       ELSE [step |-> "writes", to |-> call.to, tries |-> call.tries, from |-> lead.status, outdated |-> FALSE]]
  /\ UNCHANGED <<lead, legRows, view, editor, moving, legsCall, leadHistory, deskMoves>>

\* What is remembered of a status that takes over from the one that stands.
Unbooks(role, way, to) ==
  unbooked' = IF lead.status = "BOOKED" /\ to # "BOOKED" THEN unbooked \cup {<<role, way>>} ELSE unbooked
Logs(role, way, from) ==
  misread' = IF from # lead.status THEN misread \cup {<<role, way>>} ELSE misread

\* Defect: not serializable.
WritesUnchecked(t) ==
  LET call == statusCall[t] IN
  /\ call.step = "writes" /\ UNCHANGED legRows
  /\ lead' = [lead EXCEPT !.status = call.to]
  /\ Unbooks(DeskRole[t], "select", call.to) /\ Logs(DeskRole[t], "select", call.from)
  /\ statusCall' = [Outdated EXCEPT ![t] = NoStatusCall]
  /\ Rerenders(t)
  /\ UNCHANGED <<moving, legsCall, crossedLegs, rerouted, lastSaver, deskMoves>>

\* Update and history row in one transaction; the agent's is serializable, and tried
\* again from its read when it conflicts.
WritesStatus(t) ==
  LET call == statusCall[t]  role == DeskRole[t] IN
  /\ call.step = "writes" /\ UNCHANGED legRows
  /\ IF role = "agent" /\ call.outdated
     THEN /\ statusCall' = [statusCall EXCEPT ![t] =
               IF call.tries < StatusAttempts THEN [step |-> "reads", to |-> call.to, tries |-> call.tries + 1]
               ELSE NoStatusCall]
          /\ UNCHANGED <<lead, view, editor, unbooked, misread>>
     ELSE /\ lead' = [lead EXCEPT !.status = call.to]
          /\ Unbooks(role, "select", call.to) /\ Logs(role, "select", call.from)
          /\ statusCall' = [Outdated EXCEPT ![t] = NoStatusCall]
          /\ Rerenders(t)
  /\ UNCHANGED <<moving, legsCall, crossedLegs, rerouted, lastSaver, deskMoves>>

\* The customer books (submitBooking).
CustomerBooks ==
  /\ MovesAtDesk
  /\ lead' = [lead EXCEPT !.status = "BOOKED"]
  /\ statusCall' = Outdated
  /\ UNCHANGED <<legRows, view, editor, moving, legsCall, leadHistory>>
-----------------------------------------------------------------------------
(* The other writers of the status, and the owner *)

\* What a request has read.
Request(t, how, to) == [by |-> t, how |-> how, to |-> to, owner |-> lead.owner, from |-> lead.status]

Begins(t, how, to) ==
  /\ moving' = moving \cup {Request(t, how, to)}
  /\ MovesAtDesk
  /\ UNCHANGED <<lead, legRows, view, editor, statusCall, legsCall, leadHistory>>

MayMove(t) == DeskRole[t] = "manager" \/ lead.owner = NoTab

\* reassignLead reads the lead; to its owner it moves nothing.
BeginReassign(t, to) == MayMove(t) /\ to # lead.owner /\ Begins(t, "reassign", to)

\* updateLeadField with assignedAgentId: null.
BeginUnassign(t) == MayMove(t) /\ Begins(t, "unassign", NoTab)

\* acceptLeadOffer; whom it is offered to is in LeadQueue.
BeginAccept(t) == lead.owner = NoTab /\ Begins(t, "accept", t)

\* sendQuote, after the mail, looks at the status ...
BeginAdvance(t) == lead.status \notin {"QUOTED", "BOOKED"} /\ Begins(t, "advance", NoTab)

\* ... and applyLeadStatusChange looks again.
ReadsAgain(m) ==
  /\ m \in moving /\ m.how = "advance"
  /\ moving' = (moving \ {m}) \cup {Request(m.by, "send", NoTab)}
  /\ UNCHANGED <<lead, legRows, view, editor, statusCall, legsCall, leadHistory, deskMoves>>

Granted == [reassign |-> "ACCEPTED", accept |-> "NEW", send |-> "QUOTED"]

Claims(m) == m.how \in {"reassign", "accept"}

\* "assignedAgentId: previousOwner?.id ?? null" in the condition of the update; the status
\* is written whatever it has become.
HandsOver(m) ==
  /\ m \in moving /\ m.how \in {"reassign", "accept", "send"}
  /\ Claims(m) => lead.owner = m.owner
  /\ lead' = [lead EXCEPT !.status = Granted[m.how], !.owner = IF Claims(m) THEN m.to ELSE @]
  /\ LET way == IF m.how = "reassign" /\ lead.owner = NoTab THEN "claim" ELSE m.how IN
     Unbooks(DeskRole[m.by], way, Granted[m.how]) /\ Logs(DeskRole[m.by], way, m.from)
  /\ moving' = moving \ {m} /\ statusCall' = Outdated /\ UNCHANGED legRows
  /\ IF Claims(m) THEN Rerenders(m.by) ELSE UNCHANGED <<view, editor>>
  /\ UNCHANGED <<legsCall, crossedLegs, rerouted, lastSaver, deskMoves>>

\* Somebody else has been made the owner meanwhile.
MoveIsLate(m) ==
  /\ m \in moving /\ Claims(m) /\ lead.owner # m.owner
  /\ moving' = moving \ {m}
  /\ UNCHANGED <<lead, legRows, view, editor, statusCall, legsCall, leadHistory, deskMoves>>

\* Not conditional on the owner that was read.
Unassigns(m) ==
  /\ m \in moving /\ m.how = "unassign"
  /\ lead' = [lead EXCEPT !.owner = NoTab]
  /\ moving' = moving \ {m} /\ statusCall' = Outdated /\ UNCHANGED legRows
  /\ Rerenders(m.by)
  /\ UNCHANGED <<legsCall, leadHistory, deskMoves>>
-----------------------------------------------------------------------------
(* Travel request *)

\* updateLeadField, from the fields the page shows; it does not look at the trip type.
EditRequest(t, request) ==
  /\ lead' = request /\ statusCall' = Outdated /\ UNCHANGED legRows
  /\ rerouted' = (rerouted \/ (legRows # {} /\ <<request.from, request.to, request.back>> # <<lead.from, lead.to, lead.back>>))
  /\ Rerenders(t) /\ MovesAtDesk
  /\ UNCHANGED <<moving, legsCall, unbooked, misread, crossedLegs, lastSaver>>

EditTrip(t, trip) == trip # view[t].trip /\ EditRequest(t, [lead EXCEPT !.trip = trip])
EditRoute(t, leg) ==
  view[t].trip # "MULTI_CITY" /\ EditRequest(t, [lead EXCEPT !.from = leg.from, !.to = leg.to])
EditReturn(t) == view[t].trip # "MULTI_CITY" /\ EditRequest(t, [lead EXCEPT !.back = ~@])

EditLegs(t, legs) ==
  /\ view[t].trip = "MULTI_CITY" /\ MovesAtDesk
  /\ editor' = [editor EXCEPT ![t].legs = legs]
  /\ UNCHANGED <<lead, legRows, view, statusCall, moving, legsCall, leadHistory>>

\* update(): also while the list is being saved.
EditLeg(t, i, leg) == EditLegs(t, ReplaceAt(editor[t].legs, i, leg))

AddLeg(t) ==
  /\ legsCall[t] = NoLegsCall /\ Len(editor[t].legs) < MaxLegs
  /\ EditLegs(t, Append(editor[t].legs, Leg(Last(editor[t].legs).to, NoPlace)))

RemoveLeg(t, i) ==
  /\ legsCall[t] = NoLegsCall /\ Len(editor[t].legs) > 1
  /\ EditLegs(t, RemoveAt(editor[t].legs, i))

\* One down and the next one up.
MoveLeg(t, i) ==
  LET legs == editor[t].legs IN
  /\ legsCall[t] = NoLegsCall /\ i + 1 \in DOMAIN legs
  /\ EditLegs(t, [legs EXCEPT ![i] = legs[i + 1], ![i + 1] = legs[i]])

Dirty(t) == editor[t].legs # editor[t].saved

\* setLeadSegments refuses a request that is not MULTI_CITY, and a list that two crossing
\* saves have made too long ...
SaveLegs(t) ==
  /\ Len(editor[t].legs) <= MaxLegs /\ view[t].trip = "MULTI_CITY" /\ Dirty(t) /\ legsCall[t] = NoLegsCall
  /\ lead.trip = "MULTI_CITY" /\ MovesAtDesk
  /\ legsCall' = [legsCall EXCEPT ![t] = [step |-> "deletes", legs |-> editor[t].legs, save |-> deskMoves]]
  /\ UNCHANGED <<lead, legRows, view, editor, statusCall, moving, leadHistory>>

\* ... deletes the legs its statement sees ...
DeletesLegs(t) ==
  /\ legsCall[t].step = "deletes"
  /\ legsCall' = [legsCall EXCEPT ![t] = [step |-> "commits", legs |-> legsCall[t].legs, save |-> legsCall[t].save, sees |-> legRows]]
  /\ UNCHANGED <<lead, legRows, view, editor, statusCall, moving, leadHistory, deskMoves>>

\* mirrorFromSegments
Mirrored(legs) == [lead EXCEPT !.from = legs[1].from, !.to = legs[1].to, !.back = FALSE]

\* ... adds the new ones and has the lead follow the first.  The answer may be lost.
CommitsLegs(t) ==
  LET call == legsCall[t]
      new == {[sequence |-> i, from |-> call.legs[i].from, to |-> call.legs[i].to, save |-> call.save] : i \in DOMAIN call.legs}
      crosses == \E u \in DeskTabs \ {t} : legsCall[u].step = "commits"
  IN
  /\ call.step = "commits"
  /\ legRows' = (legRows \ call.sees) \cup new
  /\ lead' = Mirrored(call.legs) /\ statusCall' = Outdated
  /\ legsCall' = [legsCall EXCEPT ![t] = NoLegsCall]
  /\ crossedLegs' = (crossedLegs \/ crosses)
  /\ rerouted' = (IF crosses \/ crossedLegs THEN rerouted ELSE FALSE)
  /\ \/ /\ view' = [view EXCEPT ![t] = Rendered'] /\ editor' = [editor EXCEPT ![t].saved = call.legs]
        /\ lastSaver' = t
     \/ lastSaver' = NoTab /\ UNCHANGED <<view, editor>>
  /\ UNCHANGED <<moving, unbooked, misread, deskMoves>>
-----------------------------------------------------------------------------
LeadDeskInit ==
  /\ lead \in [status : DeskStatuses \ {"BOOKED"}, owner : DeskTabs \cup {NoTab}, trip : TripTypes, from : {NoPlace} \cup Places, to : {NoPlace}, back : {FALSE}]
  /\ legRows = {}
  /\ view = [t \in DeskTabs |-> Rendered] /\ editor = [t \in DeskTabs |-> Opened]
  /\ statusCall = [t \in DeskTabs |-> NoStatusCall] /\ legsCall = [t \in DeskTabs |-> NoLegsCall]
  /\ moving = {}
  /\ unbooked = {} /\ misread = {} /\ crossedLegs = FALSE /\ rerouted = FALSE /\ lastSaver = NoTab
  /\ deskMoves = 0

StatusNext ==
  \/ CustomerBooks
  \/ \E t \in DeskTabs :
       \/ ReadsStatus(t) \/ WritesStatus(t)
       \/ \E s \in DeskStatuses : SelectStatus(t, s)
       \/ BeginUnassign(t) \/ BeginAccept(t) \/ BeginAdvance(t) \/ \E to \in DeskTabs : BeginReassign(t, to)
  \/ \E m \in moving : ReadsAgain(m) \/ HandsOver(m) \/ MoveIsLate(m) \/ Unassigns(m)

LegsNext ==
  \E t \in DeskTabs :
    \/ AddLeg(t) \/ SaveLegs(t) \/ DeletesLegs(t) \/ CommitsLegs(t)
    \/ \E i \in DOMAIN editor[t].legs : RemoveLeg(t, i) \/ MoveLeg(t, i) \/ (\E leg \in [from : Ends, to : Ends] : EditLeg(t, i, leg))

RequestNext ==
  \E t \in DeskTabs :
    \/ Reload(t) \/ EditReturn(t)
    \/ \E trip \in TripTypes : EditTrip(t, trip)
    \/ \E leg \in [from : Ends, to : Ends] : EditRoute(t, leg)

LeadDeskNext == StatusNext \/ LegsNext \/ RequestNext
LeadDeskSpec == LeadDeskInit /\ [][LeadDeskNext]_leadDeskVars
-----------------------------------------------------------------------------
\* "Once a lead has reached BOOKED, only Admin/Manager may change it away from that
\* status" of updateLeadStatus: selecting another one never does for an agent, whatever the
\* page or an earlier read still showed, nor does moving a lead that somebody owns.  An
\* agent does by claiming or accepting one that nobody owns, which writes ACCEPTED or NEW
\* "regardless of the lead's current status", and when the customer books between the last
\* steps of a quote's send.
BookedStaysBooked == \A u \in unbooked : u[1] = "agent" => u[2] \in {"claim", "accept", "send"}

\* The row in the status history of an agent's selection names the status that was really
\* replaced; those of the other writers name the one that was read.
SelectionsLogTheTruth == <<"agent", "select">> \notin misread

\* The lead's own route is that of its first leg and it has no return, the legs are
\* numbered from one without a gap: unless two lists were stored at once or the route
\* was edited behind them.
FirstLegIsTheRoute ==
  legRows # {} /\ ~crossedLegs /\ ~rerouted =>
    /\ {r.sequence : r \in legRows} = 1..Cardinality(legRows)
    /\ Leg(lead.from, lead.to) = StoredLegs[1] /\ ~lead.back

\* A list without "Unsaved changes" in the tab that saved last is the one stored.
SavedMeansStored ==
  \A t \in DeskTabs :
    lastSaver = t /\ ~crossedLegs /\ view[t].trip = "MULTI_CITY" /\ ~Dirty(t) => StoredLegs = editor[t].legs

LeadDeskIsSound == BookedStaysBooked /\ SelectionsLogTheTruth /\ FirstLegIsTheRoute /\ SavedMeansStored

LeadDeskShape ==
  /\ lead \in [status : DeskStatuses, owner : DeskTabs \cup {NoTab}, trip : TripTypes, from : Ends, to : Ends, back : BOOLEAN]
  /\ \A t \in DeskTabs : editor[t].legs # <<>>
  /\ \A r \in legRows : r.sequence \in 1..MaxLegs /\ r.from \in Ends /\ r.to \in Ends
=============================================================================

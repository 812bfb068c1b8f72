---------------------------- MODULE MCLeadQueue ----------------------------
(***************************************************************************)
(* Small instances of what brings a lead to its agent: the queue lead by   *)
(* lead, the scans that take many leads, the tabs that poll for an offer   *)
(* and the sound that announces it.  One of them moves in a behaviour,     *)
(* chosen at the start; the queue either among racing invocations or under *)
(* the hands of the office.                                                *)
(***************************************************************************)
EXTENDS LeadQueue, LeadBacklog, SharedPoll, OfferAlert, TLC

CONSTANTS w1, w2, l1, l2, c1, c2, p1, p2,
          Parts      \* those of the parts named below that a run looks at

OneCompany     == [w \in Workers |-> "A"]
TwoCompanies   == [w \in Workers |-> IF w = w1 THEN "A" ELSE "B"]
ContactsInA    == [c \in Contacts |-> "A"]
SharedContact  == [l \in Leads |-> c1]
JoinOrder      == [w \in Workers |-> IF w = w1 THEN 0 ELSE 1]
BacklogCompany == [l \in Backlog |-> IF l = 3 THEN "b" ELSE "a"]
HelpersCompany == [w \in Helpers |-> IF w = 1 THEN "a" ELSE "b"]

\* The invocations are interchangeable.
ProcSymmetry == Permutations(Procs)

VARIABLE focus

deskVars == <<vars, backlogVars, sharedPollVars, alertVars, focus>>

DeskInit == focus \in Parts /\ Init /\ BacklogInit /\ PollInit /\ AlertInit

InQueue   == UNCHANGED <<backlogVars, sharedPollVars, alertVars, focus>>
InBacklog == focus = "backlog" /\ UNCHANGED <<vars, sharedPollVars, alertVars, focus>>
InTabs    == focus = "tabs" /\ UNCHANGED <<vars, backlogVars, alertVars, focus>>
InAlerts  == focus = "alerts" /\ UNCHANGED <<vars, backlogVars, sharedPollVars, focus>>

\* Accepts, expiries and distributions of two leads, and nobody in their way.
Races ==
  \/ \E p \in Procs : JobStep(p)
  \/ \E p \in Procs, l \in Leads :
       SweepExpiredOffer(p, l) \/ StartDistribute(p, l) \/ \E w \in Workers : StartAccept(p, w, l)
  \/ \E w \in Workers : (w \notin active /\ JoinLeadQueue(w)) \/ TurnOnQueueRow(w)
  \/ Tick

\* Everything anybody may do, to one lead; of the accounts the first is removed,
\* re-roled and restored, the second leaves the line only when its offer lapsed.
Disturbs ==
  /\ Next
  /\ assigned'[l2] = assigned[l2] /\ \A p \in Procs : target'[p] # l2
  /\ account'[w2] = "eligible" /\ (w2 \in active \ active' => pc' # pc)
  /\ joining' \ joining \subseteq {w1} \ active

\* Scan 2 looks for the leads just created only.
Scans2 == BacklogNext /\ scan'[2] # "read"

DeskNext ==
  \/ focus = "race" /\ Races /\ InQueue
  \/ focus = "office" /\ Disturbs /\ InQueue
  \/ focus = "waiting" /\ Next /\ joining' \ joining \subseteq Workers \ active /\ InQueue
  \/ InBacklog /\ Scans2
  \/ InTabs /\ PollNext
  \/ InAlerts /\ AlertNext

DeskSpec == DeskInit /\ [][DeskNext]_deskVars

\* In the other parts the queue stands still.
WaitingLeadIsServed == focus = "waiting" => WaitingLeadIsOffered

\* p1's polling is fair, and scan 1 is repeated.
DeskFairness ==
  /\ \A q \in Procs : WF_vars(focus = "waiting" /\ JobStep(q)) /\ SF_vars(focus = "waiting" /\ PauseWorker(q))
  /\ \A l \in Leads :
       /\ SF_vars(focus = "waiting" /\ SweepExpiredOffer(p1, l))
       /\ SF_vars(focus = "waiting" /\ StartDistribute(p1, l))
  /\ WF_backlogVars(focus = "backlog" /\ (PollStarts(1) \/ ScanStep(1)))
  /\ PollFairness

LiveDeskSpec == DeskSpec /\ DeskFairness
=============================================================================

--------------------------- MODULE AccountEditor ---------------------------
(***************************************************************************)
(* The Users page in the tabs of several administrators: the grants of an  *)
(* account (account-row-editor.tsx) and a manager's team                   *)
(* (manager-team-editor.tsx).  A page keeps the state it was loaded with,  *)
(* also when it is rendered again.  A server action is one step here; how  *)
(* two of them interleave is in Accounts.  t is a tab.                     *)
(***************************************************************************)
EXTENDS Naturals, FiniteSets

CONSTANTS
  AdminTabs,
  Members, Teams,             \* travel agents, managers
  Absent,
  Reveal, LegacyReveal,       \* payments.reveal and its old name
  OtherGrants,
  MaxSwitches                 \* bounds what the administrators do

Grants == OtherGrants \cup {Reveal, LegacyReveal}

ASSUME EditorConstants == Absent \notin AdminTabs \cup Teams \cup Grants

VARIABLES
  managedBy,  \* [Members -> Account.managerId]
  grants,     \* Account.paymentPermissions
  recent,     \* administrators' tabs whose sign-in is recent
  popover,    \* [AdminTabs -> the team popover: [team, open, saved, selected, sending]]
  boxes,      \* [AdminTabs -> the permissions editor: [current, asking, sending]]
  \* history
  touched,    \* [AdminTabs -> members ticked or unticked since the popover was opened]
  dragged,    \* members a save moved though its administrator had not touched them
  slipped,    \* tabs whose popover was closed while it was saving
  unasked,    \* grants given without the question, by a tab that showed the grants as they were
  grantedBy,  \* tab that wrote the grants last, and knows
  switches

editorPage == <<popover, boxes>>
editorHistory == <<touched, dragged, slipped, unasked, grantedBy>>
accountEditorVars == <<managedBy, grants, recent, editorPage, editorHistory, switches>>

Switches == switches < MaxSwitches /\ switches' = switches + 1

SignInAges(t) ==
  /\ t \in recent /\ Switches /\ recent' = recent \ {t}
  /\ UNCHANGED <<managedBy, grants, editorPage, editorHistory>>
-----------------------------------------------------------------------------
(* The team of a manager *)

Popover(t, p) == popover' = [popover EXCEPT ![t] = p] /\ UNCHANGED <<grants, recent, boxes>>
TeamNow(m) == {a \in Members : managedBy[a] = m}

\* A page load.
LoadTeam(t, m) ==
  /\ ~popover[t].sending /\ Switches
  /\ Popover(t, [team |-> m, open |-> FALSE, saved |-> TeamNow(m), selected |-> TeamNow(m), sending |-> FALSE])
  /\ slipped' = slipped \ {t} /\ touched' = [touched EXCEPT ![t] = {}]
  /\ UNCHANGED <<managedBy, dragged, unasked, grantedBy>>

OpenTeam(t) ==
  /\ ~popover[t].open /\ Switches
  /\ Popover(t, [popover[t] EXCEPT !.open = TRUE]) /\ touched' = [touched EXCEPT ![t] = {}]
  /\ UNCHANGED <<managedBy, dragged, slipped, unasked, grantedBy>>

TickAgent(t, a) ==
  /\ popover[t].open /\ ~popover[t].sending /\ Switches
  /\ Popover(t, [popover[t] EXCEPT !.selected = IF a \in @ THEN @ \ {a} ELSE @ \cup {a}])
  /\ touched' = [touched EXCEPT ![t] = @ \cup {a}]
  /\ UNCHANGED <<managedBy, dragged, slipped, unasked, grantedBy>>

\* Closing it puts the ticks back, also while the team is being saved.
CloseTeam(t) ==
  /\ popover[t].open
  /\ Popover(t, [popover[t] EXCEPT !.open = FALSE, !.selected = popover[t].saved])
  /\ slipped' = IF popover[t].sending THEN slipped \cup {t} ELSE slipped
  /\ UNCHANGED <<managedBy, touched, dragged, unasked, grantedBy, switches>>

\* What this administrator changed, against the team as it was saved.
TeamChange(t) ==
  [add |-> popover[t].selected \ popover[t].saved, remove |-> popover[t].saved \ popover[t].selected]

SendTeam(t) ==
  LET p == popover[t] IN
  /\ p.open /\ ~p.sending /\ p.selected # p.saved
  /\ Popover(t, [team |-> p.team, open |-> TRUE, saved |-> p.saved, selected |-> p.selected, sending |-> TRUE,
                 change |-> TeamChange(t), ids |-> p.selected, touched |-> touched[t]])
  /\ UNCHANGED <<managedBy, editorHistory, switches>>

\* changeManagerTeam: members added leave their team, members removed only leave this one.
MovedTo(m, change) ==
  [a \in Members |-> IF a \in change.add THEN m
                     ELSE IF a \in change.remove /\ managedBy[a] = m THEN Absent ELSE managedBy[a]]

TeamAnswers(t) ==
  LET p == popover[t]
      page(saved, open) == [team |-> p.team, open |-> open, saved |-> saved, selected |-> p.selected, sending |-> FALSE]
  IN
  /\ p.sending
  /\ \/ /\ managedBy' = MovedTo(p.team, p.change)
        /\ dragged' = IF t \in slipped THEN dragged
                      ELSE dragged \cup {a \in Members : managedBy'[a] # managedBy[a] /\ a \notin p.touched}
        /\ Popover(t, page(p.ids, FALSE)) \/ Popover(t, page(p.saved, p.open))
     \/ Popover(t, page(p.saved, p.open)) /\ UNCHANGED <<managedBy, dragged>>
  /\ UNCHANGED <<touched, slipped, unasked, grantedBy, switches>>
-----------------------------------------------------------------------------
(* Payment permissions *)

Boxes(t, b) == boxes' = [boxes EXCEPT ![t] = b] /\ UNCHANGED <<managedBy, recent, popover>>
HasReveal(set) == {Reveal, LegacyReveal} \cap set # {}

LoadBoxes(t) ==
  /\ ~boxes[t].sending /\ Switches
  /\ Boxes(t, [current |-> grants, asking |-> Absent, sending |-> FALSE])
  /\ grantedBy' = IF grantedBy = t THEN Absent ELSE grantedBy
  /\ UNCHANGED <<grants, touched, dragged, slipped, unasked>>

Without(set, g) == IF g = Reveal THEN set \ {Reveal, LegacyReveal} ELSE set \ {g}

\* applyToggle and applyReveal send the whole list as this page knows it.
SendBoxes(t, next, asked) ==
  /\ Boxes(t, [current |-> next, asking |-> Absent, sending |-> TRUE, before |-> boxes[t].current, asked |-> asked])
  /\ UNCHANGED <<grants, editorHistory>>

Untick(t, g) ==
  LET now == boxes[t].current IN
  /\ ~boxes[t].sending /\ boxes[t].asking = Absent /\ Switches
  /\ IF g = Reveal THEN HasReveal(now) ELSE g \in now
  /\ SendBoxes(t, Without(now, g), {})

\* Ticking asks first ...
AskGrant(t, g) ==
  LET now == boxes[t].current IN
  /\ ~boxes[t].sending /\ boxes[t].asking = Absent /\ Switches
  /\ IF g = Reveal THEN ~HasReveal(now) ELSE g \notin now
  /\ Boxes(t, [boxes[t] EXCEPT !.asking = g])
  /\ UNCHANGED <<grants, editorHistory>>

\* ... and is sent, or left.
AnswerGrant(t) ==
  LET g == boxes[t].asking IN
  /\ ~boxes[t].sending /\ g # Absent
  /\ \/ SendBoxes(t, Without(boxes[t].current, g) \cup {g}, {g})
     \/ Boxes(t, [boxes[t] EXCEPT !.asking = Absent]) /\ UNCHANGED <<grants, editorHistory>>
  /\ UNCHANGED switches

\* updatePaymentPermissions: a new grant needs a recent sign-in.  On a refusal, or without
\* an answer, the page goes back to what it showed.
BoxesAnswer(t) ==
  LET b == boxes[t]
      page(current) == [current |-> current, asking |-> Absent, sending |-> FALSE]
  IN
  /\ b.sending
  /\ IF b.current \subseteq grants \/ t \in recent
     THEN /\ grants' = b.current
          /\ unasked' = IF b.before = grants THEN unasked \cup (b.current \ (grants \cup b.asked)) ELSE unasked
          /\ \/ Boxes(t, page(b.current)) /\ grantedBy' = t
             \/ Boxes(t, page(b.before)) /\ grantedBy' = Absent
     ELSE Boxes(t, page(b.before)) /\ UNCHANGED <<grants, unasked, grantedBy>>
  /\ UNCHANGED <<touched, dragged, slipped, switches>>
-----------------------------------------------------------------------------
AccountEditorInit ==
  /\ managedBy \in [Members -> Teams \cup {Absent}]
  /\ grants \in {{}, {LegacyReveal}}
  /\ recent = AdminTabs
  /\ popover \in [AdminTabs -> {[team |-> m, open |-> FALSE, saved |-> TeamNow(m), selected |-> TeamNow(m), sending |-> FALSE] : m \in Teams}]
  /\ boxes = [t \in AdminTabs |-> [current |-> grants, asking |-> Absent, sending |-> FALSE]]
  /\ touched = [t \in AdminTabs |-> {}] /\ dragged = {} /\ slipped = {} /\ unasked = {}
  /\ grantedBy = Absent /\ switches = 0

TeamNext ==
  \E t \in AdminTabs :
    \/ OpenTeam(t) \/ CloseTeam(t) \/ SendTeam(t) \/ TeamAnswers(t)
    \/ \E m \in Teams : LoadTeam(t, m)
    \/ \E a \in Members : TickAgent(t, a)

GrantNext ==
  \E t \in AdminTabs :
    \/ LoadBoxes(t) \/ AnswerGrant(t) \/ BoxesAnswer(t) \/ SignInAges(t)
    \/ \E g \in Grants \ {LegacyReveal} : Untick(t, g) \/ AskGrant(t, g)

AccountEditorNext == TeamNext \/ GrantNext
AccountEditorSpec == AccountEditorInit /\ [][AccountEditorNext]_accountEditorVars
-----------------------------------------------------------------------------
\* "An agent the Admin did not touch is never read or written": a page that is out of date
\* undoes nothing, unless it was closed while it was saving.
UntouchedStay == dragged = {}

\* No permission is given without the question, by a page that showed what was granted.
GrantsAreAsked == unasked = {}

\* The Reveal box of the page that wrote last shows whether the account may reveal, under
\* either name of the permission.
RevealBoxIsTrue ==
  \A t \in AdminTabs : grantedBy = t /\ ~boxes[t].sending => (HasReveal(boxes[t].current) <=> HasReveal(grants))

UsersPageIsHonest == UntouchedStay /\ GrantsAreAsked /\ RevealBoxIsTrue
=============================================================================

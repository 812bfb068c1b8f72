--------------------------- MODULE NewLeadDialog ---------------------------
(***************************************************************************)
(* Entering a travel request by hand: new-lead-dialog.tsx, the search for  *)
(* a duplicate while the form is filled in (findDuplicateContact), for a   *)
(* referrer (contact-search-field.tsx), and what createLead makes of it.   *)
(* A customer c stands for the phone number and e-mail address that find   *)
(* its contact.  The request itself is in LeadIntake.                      *)
(***************************************************************************)
EXTENDS Naturals, FiniteSets

CONSTANTS
  Callers,         \* customers
  NoCaller,
  Clerks, Me,      \* accounts, and the one at the dialog
  MayAssign,       \* canAssignOthers
  Unowned, Stranger, \* a contact without an owner; no contact yet
  Trips,           \* TripType
  LeadSources,     \* LeadSource, "REFERRAL" among them
  MaxEntries       \* bounds what is typed, asked and sent

ASSUME DialogConstants ==
  NoCaller \notin Callers /\ Me \in Clerks /\ {Unowned, Stranger} \cap Clerks = {} /\ Unowned # Stranger

VARIABLES
  preset,         \* presetContact; NoCaller in the global dialog
  ownerOfCaller,  \* [Callers -> Contact.ownerId, Unowned, or Stranger]
  entry,          \* the form: [caller, trip, return, source, referrer, agent]
  lookups,        \* duplicate searches not answered
  notice,         \* duplicateInfo: [caller, owner], or NoNotice
  sent,           \* the request being created, or NotSent
  entered,        \* leads created: [trip, return, source, referrer, caller, picked, agent, promised]
  \* history
  looked,         \* customer of the last search
  unsure,         \* two searches ran at once, or one failed
  entries

dialogHistory == <<looked, unsure>>
newLeadVars == <<preset, ownerOfCaller, entry, lookups, notice, sent, entered, dialogHistory, entries>>

NoNotice == [caller |-> NoCaller, owner |-> Unowned]
NotSent == [caller |-> NoCaller]
NewEntry ==
  [caller |-> preset, trip |-> "ROUND_TRIP", return |-> FALSE, source |-> "WEBSITE", referrer |-> NoCaller, agent |-> Me]

Enters == entries < MaxEntries /\ entries' = entries + 1
Fills(form) ==
  /\ entry' = form /\ Enters
  /\ UNCHANGED <<preset, ownerOfCaller, lookups, notice, sent, entered, dialogHistory>>

\* On a contact's own page the number typed is one more of that contact's.
EnterCaller(c) == preset = NoCaller /\ c # entry.caller /\ Fills([entry EXCEPT !.caller = c])

\* handleTripTypeChange
EnterTrip(t) ==
  /\ t # entry.trip
  /\ Fills([entry EXCEPT !.trip = t, !.return = IF t = "ROUND_TRIP" THEN @ ELSE FALSE])

EnterReturn == entry.trip = "ROUND_TRIP" /\ Fills([entry EXCEPT !.return = ~@])
EnterSource(s) ==
  s # entry.source /\ Fills([entry EXCEPT !.source = s, !.referrer = IF s = "REFERRAL" THEN @ ELSE NoCaller])

\* Any of the contacts a search found, or none; not the contact of the page.
EnterReferrer(c) ==
  /\ entry.source = "REFERRAL" /\ c # entry.referrer
  /\ c \in {NoCaller} \cup {d \in Callers \ {preset} : ownerOfCaller[d] # Stranger}
  /\ Fills([entry EXCEPT !.referrer = c])

EnterAgent(a) == MayAssign /\ a # entry.agent /\ Fills([entry EXCEPT !.agent = a])
-----------------------------------------------------------------------------
(* checkDuplicate *)

LeaveField ==
  /\ preset = NoCaller /\ entry.caller # NoCaller /\ Enters
  /\ lookups' = lookups \cup {entry.caller}
  /\ looked' = entry.caller /\ unsure' = (unsure \/ lookups # {})
  /\ UNCHANGED <<preset, ownerOfCaller, entry, notice, sent, entered>>

\* Whatever the form has become meanwhile.
LookupAnswers(c) ==
  /\ c \in lookups
  /\ lookups' = lookups \ {c}
  /\ notice' = IF ownerOfCaller[c] = Stranger THEN NoNotice ELSE [caller |-> c, owner |-> ownerOfCaller[c]]
  /\ UNCHANGED <<preset, ownerOfCaller, entry, sent, entered, dialogHistory, entries>>

LookupFails(c) ==
  /\ c \in lookups /\ Enters
  /\ lookups' = lookups \ {c} /\ unsure' = TRUE
  /\ UNCHANGED <<preset, ownerOfCaller, entry, notice, sent, entered, looked>>
-----------------------------------------------------------------------------
(* handleSubmit and createLead *)

\* Who gets the lead according to the notice under the fields: the owner of the contact,
\* whoever is at the dialog included ("to you as usual"), else the one who is picked.
Promised == IF notice.owner = Unowned THEN entry.agent ELSE notice.owner

\* The notice is about this customer: its search was the last and has been answered.
Current == preset = NoCaller /\ looked = entry.caller /\ lookups = {} /\ ~unsure

Submit ==
  /\ sent = NotSent /\ entry.caller # NoCaller /\ Enters
  /\ entry.trip = "ROUND_TRIP" => entry.return
  /\ sent' = [form |-> entry, current |-> Current, owner |-> ownerOfCaller[entry.caller],
              promised |-> Promised, caller |-> entry.caller]
  /\ UNCHANGED <<preset, ownerOfCaller, entry, lookups, notice, entered, dialogHistory>>

\* A contact's owner takes its leads; else whoever was picked.
Assigns(c, picked) == IF ownerOfCaller[c] \in Clerks \ {Me} THEN ownerOfCaller[c] ELSE picked

\* The dialog is reset on the answer; without one it stays, and may be sent again.  What
\* was promised is kept when the notice was current and the owner is still that one.
CreateLead ==
  LET form == sent.form  c == form.caller  agent == Assigns(c, form.agent) IN
  /\ sent # NotSent
  /\ entered' = entered \cup {[trip |-> form.trip, return |-> form.return, source |-> form.source,
        referrer |-> IF form.source = "REFERRAL" /\ form.referrer # c THEN form.referrer ELSE NoCaller,
        caller |-> c, picked |-> form.agent, agent |-> agent,
        promised |-> IF sent.current /\ ownerOfCaller[c] = sent.owner THEN sent.promised ELSE agent]}
  /\ ownerOfCaller' = IF ownerOfCaller[c] = Stranger THEN [ownerOfCaller EXCEPT ![c] = agent] ELSE ownerOfCaller
  /\ sent' = NotSent
  /\ \/ /\ entry' = NewEntry /\ notice' = NoNotice
        /\ looked' = NoCaller /\ unsure' = (unsure \/ lookups # {})
     \/ UNCHANGED <<entry, notice, looked>> /\ unsure' = TRUE
  /\ UNCHANGED <<preset, lookups, entries>>

\* Another account takes the contact over (reassignContact), unnoticed by a notice already
\* shown.
OwnerChanges(c, a) ==
  /\ ownerOfCaller[c] \notin {Stranger, a} /\ Enters
  /\ ownerOfCaller' = [ownerOfCaller EXCEPT ![c] = a]
  /\ unsure' = TRUE
  /\ UNCHANGED <<preset, entry, lookups, notice, sent, entered, looked>>
-----------------------------------------------------------------------------
NewLeadInit ==
  /\ ownerOfCaller \in [Callers -> Clerks \cup {Unowned, Stranger}]
  /\ preset \in {c \in Callers : ownerOfCaller[c] # Stranger} \cup {NoCaller}
  /\ entry = NewEntry /\ lookups = {} /\ notice = NoNotice /\ sent = NotSent /\ entered = {}
  /\ looked = NoCaller /\ unsure = FALSE /\ entries = 0

NewLeadNext ==
  \/ EnterReturn \/ LeaveField \/ Submit \/ CreateLead
  \/ \E t \in Trips : EnterTrip(t)
  \/ \E s \in LeadSources : EnterSource(s)
  \/ \E a \in Clerks : EnterAgent(a)
  \/ \E c \in Callers :
       \/ EnterCaller(c) \/ LookupAnswers(c) \/ LookupFails(c)
       \/ \E a \in Clerks : OwnerChanges(c, a)
  \/ \E c \in Callers \cup {NoCaller} : EnterReferrer(c)

NewLeadSpec == NewLeadInit /\ [][NewLeadNext]_newLeadVars
-----------------------------------------------------------------------------
\* A round trip has its return date and no other trip has one: a date picked before the
\* type was changed "must not silently survive".
ReturnsBelongToRoundTrips == \A l \in entered : l.return <=> l.trip = "ROUND_TRIP"

\* A referrer is only recorded for a referral, and is not the customer.
ReferrersBelongToReferrals ==
  \A l \in entered : l.referrer # NoCaller => l.source = "REFERRAL" /\ l.referrer # l.caller

\* The notice "must accurately describe what WILL actually happen": the lead goes to whom
\* it named, if the notice was about the customer as sent.  Not so for a contact of one's
\* own: "the new lead will be assigned to you as usual" is shown, and the lead goes to
\* somebody else who was picked.
NoticesAreKept ==
  \A l \in entered : l.agent = l.promised \/ (l.promised = Me /\ l.agent = l.picked)

NewLeadsAreHonest == ReturnsBelongToRoundTrips /\ ReferrersBelongToReferrals /\ NoticesAreKept
=============================================================================

------------------------------ MODULE Visibility ------------------------------
(***************************************************************************)
(* Which rows an account gets to see: the filters of server/visibility.ts, *)
(* the queries of server/queries/ that merge them into their own, and the  *)
(* writes that change roles, teams and ownership under them.  A Prisma     *)
(* filter is a function from its keys to the rows that meet that key's     *)
(* condition; spreading one into another overrides the keys they share.    *)
(***************************************************************************)
EXTENDS Naturals, FiniteSets

CONSTANTS
  Viewers, Nobody, CompanyOf,              \* accounts; [Viewers -> company]
  ContactIds, ContactCompany,              \* [ContactIds -> company]
  LeadIds, ContactOfLead,                  \* [LeadIds -> ContactIds]
  QuoteIds, LeadOfQuote,                   \* [QuoteIds -> LeadIds]
  TaskIds, LeadOfTask, ContactOfTask,      \* [TaskIds -> ... or NoParent]
  NoParent,
  SequenceIds

ASSUME ViewConstants ==
  /\ Nobody \notin Viewers /\ NoParent \notin LeadIds \cup ContactIds \cup Viewers \cup {Nobody}
  /\ ContactOfLead \in [LeadIds -> ContactIds] /\ LeadOfQuote \in [QuoteIds -> LeadIds]
  /\ LeadOfTask \in [TaskIds -> LeadIds \cup {NoParent}] /\ ContactOfTask \in [TaskIds -> ContactIds \cup {NoParent}]

\* createTask looks a task's lead and its contact up in one account's company.
ASSUME TasksStayInCompany ==
  \A t \in TaskIds : LeadOfTask[t] # NoParent /\ ContactOfTask[t] # NoParent =>
    ContactCompany[ContactOfTask[t]] = ContactCompany[ContactOfLead[LeadOfTask[t]]]

ViewerRoles == {"ADMIN", "MANAGER", "TRAVEL_AGENT", "TICKETING_AGENT", "FLIGHT_EXPERT", "MARKETING_AGENT"}

VARIABLES
  roleOf, teamOf,   \* [Viewers -> Account.role, Account.managerId]
  ownerOf,          \* [ContactIds -> Contact.ownerId]
  agentOf,          \* [LeadIds -> Lead.assignedAgentId]
  quoterOf,         \* [QuoteIds -> Quote.agentId, NoParent before createQuote]
  creatorOf         \* [SequenceIds -> Sequence.createdById]

viewVars == <<roleOf, teamOf, ownerOf, agentOf, quoterOf, creatorOf>>

CanViewAllRecords(v) == roleOf[v] \in {"ADMIN", "MANAGER", "TICKETING_AGENT"}
CanViewAllQuotesAndBookings(v) == CanViewAllRecords(v) \/ roleOf[v] = "FLIGHT_EXPERT"
CanReassign(v) == roleOf[v] \in {"ADMIN", "MANAGER"}
Manages(v) == roleOf[v] = "MANAGER"

OnMyTeam(v) == {a \in Viewers : teamOf[a] = v /\ roleOf[a] = "TRAVEL_AGENT"}

MeOrMyTeam(v) == {v} \cup OnMyTeam(v)
Created == {q \in QuoteIds : quoterOf[q] # NoParent}
-----------------------------------------------------------------------------
(* Filters *)

Rows(where, table) == {r \in table : \A key \in DOMAIN where : r \in where[key]}

Spread(earlier, later) ==
  [key \in DOMAIN earlier \cup DOMAIN later |-> IF key \in DOMAIN later THEN later[key] ELSE earlier[key]]

NothingVisible == [id |-> {}]

ContactsOfCompany(v) == {c \in ContactIds : ContactCompany[c] = CompanyOf[v]}
LeadsOfCompany(v) == {l \in LeadIds : ContactOfLead[l] \in ContactsOfCompany(v)}
QuotesOfCompany(v) == {q \in QuoteIds : LeadOfQuote[q] \in LeadsOfCompany(v)}

ContactVisibility(v) ==
  CASE v = Nobody -> NothingVisible
    [] v # Nobody /\ Manages(v) -> [companyId |-> ContactsOfCompany(v), OR |-> {c \in ContactIds : ownerOf[c] \in MeOrMyTeam(v)}]
    [] v # Nobody /\ ~Manages(v) /\ CanViewAllRecords(v) -> [companyId |-> ContactsOfCompany(v)]
    [] OTHER -> [ownerId |-> {c \in ContactIds : ownerOf[c] = v}]

LeadVisibility(v) ==
  CASE v = Nobody -> NothingVisible
    [] v # Nobody /\ Manages(v) -> [contact |-> LeadsOfCompany(v), OR |-> {l \in LeadIds : agentOf[l] \in MeOrMyTeam(v)}]
    [] v # Nobody /\ ~Manages(v) /\ CanViewAllRecords(v) -> [contact |-> LeadsOfCompany(v)]
    [] OTHER -> [assignedAgentId |-> {l \in LeadIds : agentOf[l] = v}]

\* By any of three links: the quote's agent, its lead's, its contact's owner.
QuotesOf(people) ==
  {q \in Created : \/ quoterOf[q] \in people \/ agentOf[LeadOfQuote[q]] \in people
                   \/ ownerOf[ContactOfLead[LeadOfQuote[q]]] \in people}

\* A quote and its booking are visible to the same accounts.
QuoteVisibility(v) ==
  CASE v = Nobody -> NothingVisible
    [] v # Nobody /\ Manages(v) -> [contact |-> QuotesOfCompany(v), OR |-> QuotesOf(MeOrMyTeam(v))]
    [] v # Nobody /\ ~Manages(v) /\ CanViewAllQuotesAndBookings(v) -> [contact |-> QuotesOfCompany(v)]
    [] OTHER -> [OR |-> QuotesOf({v})]

\* Through the lead; through the contact only where there is no lead.
TasksOwnedBy(people, company) ==
  {t \in TaskIds :
     \/ /\ LeadOfTask[t] # NoParent
        /\ agentOf[LeadOfTask[t]] \in people /\ ContactCompany[ContactOfLead[LeadOfTask[t]]] \in company
     \/ /\ LeadOfTask[t] = NoParent /\ ContactOfTask[t] # NoParent
        /\ ownerOf[ContactOfTask[t]] \in people /\ ContactCompany[ContactOfTask[t]] \in company}

AnyCompany == {CompanyOf[v] : v \in Viewers} \cup {ContactCompany[c] : c \in ContactIds}

TasksOfCompany(v) ==
  {t \in TaskIds : \/ ContactOfTask[t] # NoParent /\ ContactOfTask[t] \in ContactsOfCompany(v)
                   \/ LeadOfTask[t] # NoParent /\ LeadOfTask[t] \in LeadsOfCompany(v)}

\* scope is the "specific user" of the page's filter, or Nobody.
TaskVisibility(v, scope) ==
  CASE v = Nobody -> NothingVisible
    [] v # Nobody /\ Manages(v) ->
         [AND |-> TasksOwnedBy(MeOrMyTeam(v), {CompanyOf[v]})
                  \cap (IF scope = Nobody THEN TaskIds ELSE TasksOwnedBy({scope}, {CompanyOf[v]}))]
    [] v # Nobody /\ ~Manages(v) /\ CanViewAllRecords(v) ->
         [OR |-> IF scope = Nobody THEN TasksOfCompany(v) ELSE TasksOwnedBy({scope}, {CompanyOf[v]})]
    [] OTHER -> [OR |-> TasksOwnedBy({v}, AnyCompany)]

SequenceVisibility(v, scope) ==
  LET theirs == {s \in SequenceIds : creatorOf[s] # Nobody /\ CompanyOf[creatorOf[s]] = CompanyOf[v]} IN
  CASE v = Nobody -> NothingVisible
    [] v # Nobody /\ CanReassign(v) /\ scope # Nobody ->
         [createdById |-> {s \in SequenceIds : creatorOf[s] = scope}, createdBy |-> theirs]
    [] v # Nobody /\ CanReassign(v) /\ scope = Nobody ->
         [OR |-> theirs \cup {s \in SequenceIds : creatorOf[s] = Nobody}]
    [] OTHER -> [createdById |-> {s \in SequenceIds : creatorOf[s] = v}]

LeadAccessForQuoting(v) ==
  CASE v = Nobody -> NothingVisible
    [] v # Nobody /\ Manages(v) -> LeadVisibility(v)
    [] v # Nobody /\ ~Manages(v) /\ CanViewAllQuotesAndBookings(v) -> [contact |-> LeadsOfCompany(v)]
    [] OTHER -> [assignedAgentId |-> {l \in LeadIds : agentOf[l] = v}]
-----------------------------------------------------------------------------
(* Queries.  found: what the search text matches; of: the agents let      *)
(* through by the page's filter, Anyone without it                         *)

Anyone == Viewers \cup {Nobody}
AgentFilter(column, of) == {r \in DOMAIN column : column[r] \in of}

\* The page's own filters come under AND.
GetContacts(v, found, of) ==
  Rows(Spread(ContactVisibility(v), [AND |-> found \cap AgentFilter(ownerOf, of)]), ContactIds)

GetLeads(v, found, of) ==
  Rows(Spread(LeadVisibility(v), [AND |-> found \cap AgentFilter(agentOf, of)]), LeadIds)

GetQuotes(v, of) == Rows(Spread(QuoteVisibility(v), [agentId |-> AgentFilter(quoterOf, of)]), Created)

GetBookings(v, of) ==
  Rows(Spread(QuoteVisibility(v), [lead |-> {q \in QuoteIds : agentOf[LeadOfQuote[q]] \in of}]), Created)

GetTasks(v, scope, found) == Rows([AND |-> Rows(TaskVisibility(v, scope), TaskIds) \cap found], TaskIds)

GetSequences(v, scope) == Rows(SequenceVisibility(v, scope), SequenceIds)

\* Referred By, without the contact excluded (NoParent: none is).  What was typed and a
\* Manager's scope share the key OR; the exclusion and NOTHING_VISIBLE share the key id.
SearchContacts(v, found, typed, excluded) ==
  LET others == IF excluded = NoParent THEN <<>> ELSE [id |-> ContactIds \ {excluded}]
      text   == IF typed THEN [OR |-> found] ELSE <<>>
  IN Rows(Spread(Spread(ContactVisibility(v), others), text), ContactIds)

\* The search box of every page puts scope and text under one AND.
GlobalSearch(v, where, table, found) == Rows([AND |-> Rows(where, table) \cap found], table)
-----------------------------------------------------------------------------
(* Writes *)

\* Defect: the team is left as it was.
SetRoleOnly(v, r) ==
  /\ roleOf' = [roleOf EXCEPT ![v] = r]
  /\ UNCHANGED <<teamOf, ownerOf, agentOf, quoterOf, creatorOf>>

SetRole(v, r) ==
  /\ roleOf' = [roleOf EXCEPT ![v] = r]
  /\ teamOf' = [a \in Viewers |->
       IF (teamOf[a] = v /\ r # "MANAGER") \/ (a = v /\ r # "TRAVEL_AGENT") THEN Nobody ELSE teamOf[a]]
  /\ UNCHANGED <<ownerOf, agentOf, quoterOf, creatorOf>>

JoinTeam(m, a) ==
  /\ Manages(m) /\ roleOf[a] = "TRAVEL_AGENT" /\ CompanyOf[a] = CompanyOf[m]
  /\ teamOf' = [teamOf EXCEPT ![a] = m]
  /\ UNCHANGED <<roleOf, ownerOf, agentOf, quoterOf, creatorOf>>

\* Defect: the new owner may be anybody.
ReassignsToAnyone(v, l, to) ==
  /\ LeadsOfCompany(v) \cap {l} # {} /\ (Manages(v) => l \in Rows(LeadVisibility(v), LeadIds))
  /\ agentOf[l] \in {Nobody, to} \/ CanReassign(v)
  /\ agentOf' = [agentOf EXCEPT ![l] = to]
  /\ quoterOf' = [q \in QuoteIds |-> IF q \in Created /\ LeadOfQuote[q] = l THEN to ELSE quoterOf[q]]
  /\ UNCHANGED <<roleOf, teamOf, ownerOf, creatorOf>>

\* reassignLead takes the lead's quotes along.
HandsLeadTo(v, l, to) ==
  /\ l \in LeadsOfCompany(v) /\ CompanyOf[to] = CompanyOf[v]
  /\ Manages(v) => l \in Rows(LeadVisibility(v), LeadIds)
  /\ agentOf[l] = Nobody \/ CanReassign(v)
  /\ agentOf[l] # to
  /\ agentOf' = [agentOf EXCEPT ![l] = to]
  /\ quoterOf' = [q \in QuoteIds |-> IF q \in Created /\ LeadOfQuote[q] = l THEN to ELSE quoterOf[q]]
  /\ UNCHANGED <<roleOf, teamOf, ownerOf, creatorOf>>

\* "Unassign" on the lead page.
DropsLead(v, l) ==
  /\ CanReassign(v) /\ l \in Rows(LeadVisibility(v), LeadIds) /\ agentOf[l] # Nobody
  /\ agentOf' = [agentOf EXCEPT ![l] = Nobody]
  /\ UNCHANGED <<roleOf, teamOf, ownerOf, quoterOf, creatorOf>>

HandsContactTo(v, c, to) ==
  /\ CanReassign(v)
  /\ c \in ContactsOfCompany(v) /\ CompanyOf[to] = CompanyOf[v]
  /\ Manages(v) => c \in Rows(ContactVisibility(v), ContactIds)
  /\ ownerOf' = [ownerOf EXCEPT ![c] = to]
  /\ UNCHANGED <<roleOf, teamOf, agentOf, quoterOf, creatorOf>>

CreateQuoteFor(v, q) ==
  /\ q \notin Created /\ LeadOfQuote[q] \in Rows(LeadAccessForQuoting(v), LeadIds)
  /\ quoterOf' = [quoterOf EXCEPT ![q] = v]
  /\ UNCHANGED <<roleOf, teamOf, ownerOf, agentOf, creatorOf>>
-----------------------------------------------------------------------------
ViewInit ==
  /\ roleOf \in [Viewers -> {"ADMIN"}] /\ teamOf = [v \in Viewers |-> Nobody]
  /\ ownerOf = [c \in ContactIds |-> Nobody] /\ agentOf = [l \in LeadIds |-> Nobody]
  /\ quoterOf = [q \in QuoteIds |-> NoParent]
  /\ creatorOf \in [SequenceIds -> Viewers \cup {Nobody}]

ViewNext ==
  \E v \in Viewers :
    \/ \E r \in ViewerRoles : SetRole(v, r)
    \/ \E a \in Viewers : JoinTeam(v, a)
    \/ \E l \in LeadIds : DropsLead(v, l) \/ \E to \in Viewers : HandsLeadTo(v, l, to)
    \/ \E c \in ContactIds, to \in Viewers : HandsContactTo(v, c, to)
    \/ \E q \in QuoteIds : CreateQuoteFor(v, q)

ViewSpec == ViewInit /\ [][ViewNext]_viewVars
-----------------------------------------------------------------------------
(* What visibility.ts promises of every query that merges its filters. *)
SeesContacts(v) == Rows(ContactVisibility(v), ContactIds)
SeesLeads(v) == Rows(LeadVisibility(v), LeadIds)
SeesQuotes(v) == Rows(QuoteVisibility(v), Created)
SeesTasks(v) == Rows(TaskVisibility(v, Nobody), TaskIds)

\* Type correctness of roles, teams and ownership; only Travel Agents are on a
\* team, and only a Manager's.
ViewTypeOK ==
  /\ roleOf \in [Viewers -> ViewerRoles] /\ teamOf \in [Viewers -> Anyone]
  /\ ownerOf \in [ContactIds -> Anyone] /\ agentOf \in [LeadIds -> Anyone]
  /\ quoterOf \in [QuoteIds -> Anyone \cup {NoParent}] /\ creatorOf \in [SequenceIds -> Anyone]
  /\ \A a \in Viewers : teamOf[a] # Nobody => roleOf[a] = "TRAVEL_AGENT" /\ Manages(teamOf[a])

\* Company isolation (visibility.ts 61-72): whatever filters a viewer passes, no
\* list shows a row of another company.  Where the filter names no company this
\* rests on nobody of another company ever being made owner or agent.
NobodyCrossesCompanies ==
  \A v \in Viewers :
    /\ GetContacts(v, ContactIds, Anyone) \subseteq ContactsOfCompany(v)
    /\ \A typed \in BOOLEAN, x \in ContactIds \cup {NoParent} : SearchContacts(v, ContactIds, typed, x) \subseteq ContactsOfCompany(v)
    /\ GetLeads(v, LeadIds, Anyone) \subseteq LeadsOfCompany(v)
    /\ GetQuotes(v, Anyone) \cup GetBookings(v, Anyone) \subseteq QuotesOfCompany(v)
    /\ \A other \in Anyone : GetTasks(v, other, TaskIds) \subseteq TasksOfCompany(v)
    /\ \A other \in Anyone : \A s \in GetSequences(v, other) : creatorOf[s] # Nobody => CompanyOf[creatorOf[s]] = CompanyOf[v]

\* A Manager sees what he would see as an agent and what each agent of his team
\* sees, and nothing else (visibility.ts 39-53): on the pages of contacts, leads,
\* quotes, bookings and tasks.  Referred By is the exception: with a text typed
\* it shows a Manager whatever the text matches in the whole company, although
\* visibility.ts 47-51 has every search inherit the team's boundary.
ManagerSeesOwnAndTeam ==
  \A v \in Viewers : Manages(v) =>
    /\ \A found \in SUBSET ContactIds : SearchContacts(v, found, TRUE, NoParent) = found \cap ContactsOfCompany(v)
    /\ SeesContacts(v) = {c \in ContactIds : ownerOf[c] = v} \cup UNION {SeesContacts(a) : a \in OnMyTeam(v)}
    /\ SeesLeads(v) = {l \in LeadIds : agentOf[l] = v} \cup UNION {SeesLeads(a) : a \in OnMyTeam(v)}
    /\ SeesQuotes(v) = QuotesOf({v}) \cup UNION {SeesQuotes(a) : a \in OnMyTeam(v)}
    /\ SeesTasks(v) = TasksOwnedBy({v}, AnyCompany) \cup UNION {SeesTasks(a) : a \in OnMyTeam(v)}

\* A task is visible with the lead it belongs to, or with its contact when there
\* is none, to every role (visibility.ts 168-173): the two pages cannot disagree.
TasksFollowTheirParent ==
  \A v \in Viewers, t \in TaskIds :
    t \in SeesTasks(v) <=> IF LeadOfTask[t] # NoParent THEN LeadOfTask[t] \in SeesLeads(v)
                           ELSE ContactOfTask[t] \in SeesContacts(v)

\* Whoever sees a lead or a contact sees its quotes and bookings, whoever wrote
\* them and whatever reassignments came between (visibility.ts 8-13).
ParentsOpenTheirQuotes ==
  \A v \in Viewers, q \in Created :
    LeadOfQuote[q] \in SeesLeads(v) \/ ContactOfLead[LeadOfQuote[q]] \in SeesContacts(v) => q \in SeesQuotes(v)

\* A page's filters only ever narrow what the viewer sees without them, and so
\* does the search of Referred By (contacts.ts 85-87) unless a Manager types.
FiltersOnlyNarrow ==
  /\ \A v \in Viewers, typed \in BOOLEAN, x \in ContactIds \cup {NoParent} :
       (Manages(v) /\ typed) \/ SearchContacts(v, ContactIds, typed, x) \subseteq SeesContacts(v) \ {x}
  /\ \A v \in Viewers, other \in Anyone :
    /\ GetContacts(v, ContactIds, {other}) \subseteq SeesContacts(v)
    /\ GetLeads(v, LeadIds, {other}) \subseteq SeesLeads(v)
    /\ GetQuotes(v, {other}) \cup GetBookings(v, {other}) \subseteq SeesQuotes(v)
    /\ GetTasks(v, other, TaskIds) \subseteq SeesTasks(v)
    /\ GetSequences(v, other) \subseteq GetSequences(v, Nobody)
    /\ GlobalSearch(v, QuoteVisibility(v), Created, Created) = SeesQuotes(v)

=============================================================================

--------------------------- MODULE Readings_proofs ---------------------------
(***************************************************************************)
(* What people read, for any accounts, teams, records, sales and calendar: *)
(* lists follow the rules (Visibility), reports agree (SalesReports), and  *)
(* pay periods and ranges fit together on every day (PayPeriods).          *)
(*                                                                         *)
(* The invariant behind the lists is that whoever owns a record is a       *)
(* colleague of its contact.  Behind the reports it is what each query     *)
(* answered of the books it read.  The calendar's argument is arithmetic:  *)
(* a date's number counts the days before it, every number has its date,   *)
(* and so a day's neighbours, its period and the period's neighbours are   *)
(* known by year, month and day.                                           *)
(***************************************************************************)
EXTENDS Visibility, SalesReports, TLAPS, FiniteSetTheorems, SequenceTheorems, WellFoundedInduction
-----------------------------------------------------------------------------
(* Who sees which records *)

\* A team is of one company.
TeamsStayInCompany == \A a \in Viewers : teamOf[a] # Nobody => CompanyOf[a] = CompanyOf[teamOf[a]]

\* Owners and agents are colleagues of the contact, and so is whoever wrote a quote.
ContactsHaveColleagues == \A c \in ContactIds : ownerOf[c] # Nobody => CompanyOf[ownerOf[c]] = ContactCompany[c]
LeadsHaveColleagues == \A l \in LeadIds : agentOf[l] # Nobody => CompanyOf[agentOf[l]] = ContactCompany[ContactOfLead[l]]
QuotesHaveColleagues ==
  \A q \in QuoteIds : quoterOf[q] # NoParent =>
    quoterOf[q] \in Viewers /\ CompanyOf[quoterOf[q]] = ContactCompany[ContactOfLead[LeadOfQuote[q]]]

RowsHaveColleagues == ContactsHaveColleagues /\ LeadsHaveColleagues /\ QuotesHaveColleagues

\* The invariant behind the lists.
ViewInv == ViewTypeOK /\ TeamsStayInCompany /\ RowsHaveColleagues

\* What the lists promise, all of it.
ViewRules ==
  /\ NobodyCrossesCompanies /\ ManagerSeesOwnAndTeam /\ TasksFollowTheirParent
  /\ ParentsOpenTheirQuotes /\ FiltersOnlyNarrow

\* Merging filters whose keys are apart gives the rows that meet both.
LEMMA MergedApart ==
  ASSUME NEW e, NEW l, NEW T, NEW r, DOMAIN e \cap DOMAIN l = {}
  PROVE  r \in Rows(Spread(e, l), T) <=> r \in Rows(e, T) /\ r \in Rows(l, T)
<1>1. r \in Rows(Spread(e, l), T)
        <=> r \in T /\ (\A key \in DOMAIN l : r \in l[key]) /\ (\A key \in DOMAIN e \ DOMAIN l : r \in e[key])
  BY DEF Rows, Spread
<1> QED
  BY <1>1 DEF Rows

\* A page's own filters only narrow what its viewer sees.
LEMMA PageFilterNarrows ==
  ASSUME NEW e, NEW F, NEW T, "AND" \notin DOMAIN e
  PROVE  Rows(Spread(e, [AND |-> F]), T) = Rows(e, T) \cap F
<1> DEFINE l == [AND |-> F]
<1>1. DOMAIN l = {"AND"} /\ l["AND"] = F
  OBVIOUS
<1>2. ASSUME NEW r PROVE r \in Rows(Spread(e, l), T) <=> r \in Rows(e, T) /\ r \in Rows(l, T)
  BY <1>1, MergedApart
<1>3. ASSUME NEW r PROVE r \in Rows(l, T) <=> r \in T /\ r \in F
  BY DEF Rows
<1>4. Rows(e, T) \subseteq T
  BY DEF Rows
<1> QED
  BY <1>2, <1>3, <1>4

\* A filter by agent shows no more than the list.
LEMMA AgentFilterNarrows ==
  ASSUME NEW e, NEW F, NEW T, "agentId" \notin DOMAIN e
  PROVE  Rows(Spread(e, [agentId |-> F]), T) \subseteq Rows(e, T)
<1> DEFINE l == [agentId |-> F]
<1>1. DOMAIN l = {"agentId"}
  OBVIOUS
<1>2. ASSUME NEW r PROVE r \in Rows(Spread(e, l), T) <=> r \in Rows(e, T) /\ r \in Rows(l, T)
  BY <1>1, MergedApart
<1> QED
  BY <1>2

\* Nor does one by the lead's agent.
LEMMA LeadFilterNarrows ==
  ASSUME NEW e, NEW F, NEW T, "lead" \notin DOMAIN e
  PROVE  Rows(Spread(e, [lead |-> F]), T) \subseteq Rows(e, T)
<1> DEFINE l == [lead |-> F]
<1>1. DOMAIN l = {"lead"}
  OBVIOUS
<1>2. ASSUME NEW r PROVE r \in Rows(Spread(e, l), T) <=> r \in Rows(e, T) /\ r \in Rows(l, T)
  BY <1>1, MergedApart
<1> QED
  BY <1>2

\* What the filters come to, role by role.
LEMMA SeenContacts ==
  ASSUME NEW v \in Viewers
  PROVE  SeesContacts(v) = {c \in ContactIds :
           IF Manages(v) THEN ContactCompany[c] = CompanyOf[v] /\ ownerOf[c] \in MeOrMyTeam(v)
           ELSE IF CanViewAllRecords(v) THEN ContactCompany[c] = CompanyOf[v] ELSE ownerOf[c] = v}
<1>1. v # Nobody
  BY ViewConstants
<1>2. CASE Manages(v)
  <2>1. ContactVisibility(v) = [companyId |-> ContactsOfCompany(v), OR |-> {c \in ContactIds : ownerOf[c] \in MeOrMyTeam(v)}]
    BY <1>1, <1>2 DEF ContactVisibility
  <2> QED
    BY <2>1, <1>2 DEF SeesContacts, Rows, ContactsOfCompany
<1>3. CASE ~Manages(v) /\ CanViewAllRecords(v)
  <2>1. ContactVisibility(v) = [companyId |-> ContactsOfCompany(v)]
    BY <1>1, <1>3 DEF ContactVisibility
  <2> QED
    BY <2>1, <1>3 DEF SeesContacts, Rows, ContactsOfCompany
<1>4. CASE ~Manages(v) /\ ~CanViewAllRecords(v)
  <2>1. ContactVisibility(v) = [ownerId |-> {c \in ContactIds : ownerOf[c] = v}]
    BY <1>1, <1>4 DEF ContactVisibility
  <2> QED
    BY <2>1, <1>4 DEF SeesContacts, Rows
<1> QED
  BY <1>2, <1>3, <1>4

\* Who sees a lead, and that they are colleagues of its contact.
LEMMA SeenLeads ==
  ASSUME NEW v \in Viewers
  PROVE  SeesLeads(v) = {l \in LeadIds :
           IF Manages(v) THEN l \in LeadsOfCompany(v) /\ agentOf[l] \in MeOrMyTeam(v)
           ELSE IF CanViewAllRecords(v) THEN l \in LeadsOfCompany(v) ELSE agentOf[l] = v}
<1>1. v # Nobody
  BY ViewConstants
<1>2. CASE Manages(v)
  <2>1. LeadVisibility(v) = [contact |-> LeadsOfCompany(v), OR |-> {l \in LeadIds : agentOf[l] \in MeOrMyTeam(v)}]
    BY <1>1, <1>2 DEF LeadVisibility
  <2> QED
    BY <2>1, <1>2 DEF SeesLeads, Rows
<1>3. CASE ~Manages(v) /\ CanViewAllRecords(v)
  <2>1. LeadVisibility(v) = [contact |-> LeadsOfCompany(v)]
    BY <1>1, <1>3 DEF LeadVisibility
  <2> QED
    BY <2>1, <1>3 DEF SeesLeads, Rows
<1>4. CASE ~Manages(v) /\ ~CanViewAllRecords(v)
  <2>1. LeadVisibility(v) = [assignedAgentId |-> {l \in LeadIds : agentOf[l] = v}]
    BY <1>1, <1>4 DEF LeadVisibility
  <2> QED
    BY <2>1, <1>4 DEF SeesLeads, Rows
<1> QED
  BY <1>2, <1>3, <1>4

\* A quote is seen with its lead.
LEMMA SeenQuotes ==
  ASSUME NEW v \in Viewers
  PROVE  SeesQuotes(v) = {q \in Created :
           IF Manages(v) THEN q \in QuotesOfCompany(v) /\ q \in QuotesOf(MeOrMyTeam(v))
           ELSE IF CanViewAllQuotesAndBookings(v) THEN q \in QuotesOfCompany(v) ELSE q \in QuotesOf({v})}
<1>1. v # Nobody
  BY ViewConstants
<1>2. CASE Manages(v)
  <2>1. QuoteVisibility(v) = [contact |-> QuotesOfCompany(v), OR |-> QuotesOf(MeOrMyTeam(v))]
    BY <1>1, <1>2 DEF QuoteVisibility
  <2> QED
    BY <2>1, <1>2 DEF SeesQuotes, Rows
<1>3. CASE ~Manages(v) /\ CanViewAllQuotesAndBookings(v)
  <2>1. QuoteVisibility(v) = [contact |-> QuotesOfCompany(v)]
    BY <1>1, <1>3 DEF QuoteVisibility
  <2> QED
    BY <2>1, <1>3 DEF SeesQuotes, Rows
<1>4. CASE ~Manages(v) /\ ~CanViewAllQuotesAndBookings(v)
  <2>1. QuoteVisibility(v) = [OR |-> QuotesOf({v})]
    BY <1>1, <1>4 DEF QuoteVisibility
  <2> QED
    BY <2>1, <1>4 DEF SeesQuotes, Rows
<1> QED
  BY <1>2, <1>3, <1>4

\* A task is seen with its parent, or by whoever has it.
LEMMA SeenTasks ==
  ASSUME NEW v \in Viewers, NEW scope
  PROVE  Rows(TaskVisibility(v, scope), TaskIds) = {t \in TaskIds :
           IF Manages(v) THEN t \in TasksOwnedBy(MeOrMyTeam(v), {CompanyOf[v]})
                              /\ (scope # Nobody => t \in TasksOwnedBy({scope}, {CompanyOf[v]}))
           ELSE IF CanViewAllRecords(v) THEN IF scope = Nobody THEN t \in TasksOfCompany(v) ELSE t \in TasksOwnedBy({scope}, {CompanyOf[v]})
           ELSE t \in TasksOwnedBy({v}, AnyCompany)}
<1>1. v # Nobody
  BY ViewConstants
<1>2. CASE Manages(v)
  <2>1. TaskVisibility(v, scope) =
          [AND |-> TasksOwnedBy(MeOrMyTeam(v), {CompanyOf[v]})
                   \cap (IF scope = Nobody THEN TaskIds ELSE TasksOwnedBy({scope}, {CompanyOf[v]}))]
    BY <1>1, <1>2 DEF TaskVisibility
  <2> QED
    BY <2>1, <1>2 DEF Rows
<1>3. CASE ~Manages(v) /\ CanViewAllRecords(v)
  <2>1. TaskVisibility(v, scope) = [OR |-> IF scope = Nobody THEN TasksOfCompany(v) ELSE TasksOwnedBy({scope}, {CompanyOf[v]})]
    BY <1>1, <1>3 DEF TaskVisibility
  <2> QED
    BY <2>1, <1>3 DEF Rows
<1>4. CASE ~Manages(v) /\ ~CanViewAllRecords(v)
  <2>1. TaskVisibility(v, scope) = [OR |-> TasksOwnedBy({v}, AnyCompany)]
    BY <1>1, <1>4 DEF TaskVisibility
  <2> QED
    BY <2>1, <1>4 DEF Rows
<1> QED
  BY <1>2, <1>3, <1>4

\* Invariance, an action at a time.
LEMMA ViewInitInv ==
  ASSUME ViewInit PROVE ViewInv
BY ViewConstants DEF ViewInit, ViewInv, ViewTypeOK, TeamsStayInCompany, RowsHaveColleagues, ContactsHaveColleagues,
     LeadsHaveColleagues, QuotesHaveColleagues, ViewerRoles, Anyone, Manages

\* Re-roling an account and what it does to its team keep the invariant; so do the moves below.
LEMMA SetRoleKeepsViews ==
  ASSUME ViewInv, NEW v \in Viewers, NEW r \in ViewerRoles, SetRole(v, r)
  PROVE  ViewInv'
<1> USE DEF ViewInv
<1>1. roleOf' \in [Viewers -> ViewerRoles] /\ \A a \in Viewers : roleOf'[a] = IF a = v THEN r ELSE roleOf[a]
  BY DEF SetRole, ViewTypeOK
<1>2. /\ teamOf' \in [Viewers -> Anyone]
      /\ \A a \in Viewers : teamOf'[a] = IF (teamOf[a] = v /\ r # "MANAGER") \/ (a = v /\ r # "TRAVEL_AGENT") THEN Nobody ELSE teamOf[a]
  BY DEF SetRole, ViewTypeOK, Anyone
<1>3. ViewTypeOK'
  <2>1. ASSUME NEW a \in Viewers, teamOf'[a] # Nobody PROVE roleOf'[a] = "TRAVEL_AGENT" /\ roleOf'[teamOf'[a]] = "MANAGER"
    <3>1. teamOf'[a] = teamOf[a] /\ (teamOf[a] = v => r = "MANAGER") /\ (a = v => r = "TRAVEL_AGENT")
      BY <2>1, <1>2
    <3>2. teamOf[a] \in Viewers /\ roleOf[a] = "TRAVEL_AGENT" /\ roleOf[teamOf[a]] = "MANAGER"
      BY <2>1, <3>1 DEF ViewTypeOK, Anyone, Manages
    <3> QED
      BY <3>1, <3>2, <1>1
  <2>2. /\ ownerOf' \in [ContactIds -> Anyone] /\ agentOf' \in [LeadIds -> Anyone]
        /\ quoterOf' \in [QuoteIds -> Anyone \cup {NoParent}] /\ creatorOf' \in [SequenceIds -> Anyone]
    BY DEF SetRole, ViewTypeOK
  <2> QED
    BY <2>1, <2>2, <1>1, <1>2 DEF ViewTypeOK, Manages
<1>4. TeamsStayInCompany'
  BY <1>2 DEF TeamsStayInCompany
<1>5. RowsHaveColleagues'
  BY DEF SetRole, RowsHaveColleagues, ContactsHaveColleagues, LeadsHaveColleagues, QuotesHaveColleagues
<1> QED
  BY <1>3, <1>4, <1>5

LEMMA JoinTeamKeepsViews ==
  ASSUME ViewInv, NEW m \in Viewers, NEW a \in Viewers, JoinTeam(m, a)
  PROVE  ViewInv'
<1> USE DEF ViewInv
<1>1. ViewTypeOK'
  BY DEF JoinTeam, ViewTypeOK, Anyone, Manages
<1>2. TeamsStayInCompany'
  BY DEF JoinTeam, TeamsStayInCompany, ViewTypeOK
<1>3. RowsHaveColleagues'
  BY DEF JoinTeam, RowsHaveColleagues, ContactsHaveColleagues, LeadsHaveColleagues, QuotesHaveColleagues
<1> QED
  BY <1>1, <1>2, <1>3

LEMMA HandsLeadToKeepsViews ==
  ASSUME ViewInv, NEW v \in Viewers, NEW l \in LeadIds, NEW to \in Viewers, HandsLeadTo(v, l, to)
  PROVE  ViewInv'
<1> USE DEF ViewInv
<1>1. CompanyOf[to] = ContactCompany[ContactOfLead[l]]
  BY DEF HandsLeadTo, LeadsOfCompany, ContactsOfCompany
<1>2. agentOf' \in [LeadIds -> Anyone] /\ \A k \in LeadIds : agentOf'[k] = IF k = l THEN to ELSE agentOf[k]
  BY DEF HandsLeadTo, ViewTypeOK, Anyone
<1>3. \A q \in QuoteIds : quoterOf'[q] = IF quoterOf[q] # NoParent /\ LeadOfQuote[q] = l THEN to ELSE quoterOf[q]
  BY DEF HandsLeadTo, Created
<1>4. quoterOf' \in [QuoteIds -> Anyone \cup {NoParent}]
  BY <1>3 DEF HandsLeadTo, ViewTypeOK, Anyone
<1>5. ViewTypeOK'
  BY <1>2, <1>4 DEF HandsLeadTo, ViewTypeOK, Manages
<1>6. TeamsStayInCompany'
  BY DEF HandsLeadTo, TeamsStayInCompany
<1>7. LeadsHaveColleagues'
  BY <1>1, <1>2 DEF RowsHaveColleagues, LeadsHaveColleagues
<1>8. QuotesHaveColleagues'
  BY <1>1, <1>3 DEF RowsHaveColleagues, QuotesHaveColleagues
<1>9. ContactsHaveColleagues'
  BY DEF HandsLeadTo, RowsHaveColleagues, ContactsHaveColleagues
<1> QED
  BY <1>5, <1>6, <1>7, <1>8, <1>9 DEF RowsHaveColleagues

LEMMA DropsLeadKeepsViews ==
  ASSUME ViewInv, NEW v \in Viewers, NEW l \in LeadIds, DropsLead(v, l)
  PROVE  ViewInv'
<1> USE DEF ViewInv
<1>1. ViewTypeOK'
  BY DEF DropsLead, ViewTypeOK, Anyone, Manages
<1>2. TeamsStayInCompany'
  BY DEF DropsLead, TeamsStayInCompany
<1>3. LeadsHaveColleagues'
  BY DEF DropsLead, RowsHaveColleagues, LeadsHaveColleagues, ViewTypeOK
<1>4. ContactsHaveColleagues' /\ QuotesHaveColleagues'
  BY DEF DropsLead, RowsHaveColleagues, ContactsHaveColleagues, QuotesHaveColleagues
<1> QED
  BY <1>1, <1>2, <1>3, <1>4 DEF RowsHaveColleagues

LEMMA HandsContactToKeepsViews ==
  ASSUME ViewInv, NEW v \in Viewers, NEW c \in ContactIds, NEW to \in Viewers, HandsContactTo(v, c, to)
  PROVE  ViewInv'
<1> USE DEF ViewInv
<1>1. ViewTypeOK'
  BY DEF HandsContactTo, ViewTypeOK, Anyone, Manages
<1>2. TeamsStayInCompany'
  BY DEF HandsContactTo, TeamsStayInCompany
<1>3. ContactsHaveColleagues'
  BY DEF HandsContactTo, RowsHaveColleagues, ContactsHaveColleagues, ContactsOfCompany, ViewTypeOK
<1>4. LeadsHaveColleagues' /\ QuotesHaveColleagues'
  BY DEF HandsContactTo, RowsHaveColleagues, LeadsHaveColleagues, QuotesHaveColleagues
<1> QED
  BY <1>1, <1>2, <1>3, <1>4 DEF RowsHaveColleagues

\* Whoever may quote a lead is a colleague of its contact.
LEMMA QuotersAreColleagues ==
  ASSUME ViewInv, NEW v \in Viewers, NEW l \in LeadIds, l \in Rows(LeadAccessForQuoting(v), LeadIds)
  PROVE  CompanyOf[v] = ContactCompany[ContactOfLead[l]]
<1>1. v # Nobody
  BY ViewConstants
<1>2. \A k \in LeadIds : k \in LeadsOfCompany(v) => CompanyOf[v] = ContactCompany[ContactOfLead[k]]
  BY DEF LeadsOfCompany, ContactsOfCompany
<1>3. \A k \in LeadIds : agentOf[k] = v => CompanyOf[v] = ContactCompany[ContactOfLead[k]]
  BY <1>1 DEF ViewInv, RowsHaveColleagues, LeadsHaveColleagues
<1>4. CASE Manages(v)
  <2>1. l \in SeesLeads(v)
    BY <1>1, <1>4 DEF LeadAccessForQuoting, SeesLeads
  <2> QED
    BY <2>1, <1>2, <1>4, SeenLeads
<1>5. CASE ~Manages(v) /\ CanViewAllQuotesAndBookings(v)
  <2>1. LeadAccessForQuoting(v) = [contact |-> LeadsOfCompany(v)]
    BY <1>1, <1>5 DEF LeadAccessForQuoting
  <2> QED
    BY <2>1, <1>2 DEF Rows
<1>6. CASE ~Manages(v) /\ ~CanViewAllQuotesAndBookings(v)
  <2>1. LeadAccessForQuoting(v) = [assignedAgentId |-> {k \in LeadIds : agentOf[k] = v}]
    BY <1>1, <1>6 DEF LeadAccessForQuoting
  <2> QED
    BY <2>1, <1>3 DEF Rows
<1> QED
  BY <1>4, <1>5, <1>6

LEMMA CreateQuoteForKeepsViews ==
  ASSUME ViewInv, NEW v \in Viewers, NEW q \in QuoteIds, CreateQuoteFor(v, q)
  PROVE  ViewInv'
<1> USE DEF ViewInv
<1>1. LeadOfQuote[q] \in LeadIds
  BY ViewConstants
<1>2. CompanyOf[v] = ContactCompany[ContactOfLead[LeadOfQuote[q]]]
  BY <1>1, QuotersAreColleagues DEF CreateQuoteFor
<1>3. ViewTypeOK'
  BY DEF CreateQuoteFor, ViewTypeOK, Anyone, Manages
<1>4. TeamsStayInCompany'
  BY DEF CreateQuoteFor, TeamsStayInCompany
<1>5. QuotesHaveColleagues'
  BY <1>2 DEF CreateQuoteFor, RowsHaveColleagues, QuotesHaveColleagues, ViewTypeOK
<1>6. ContactsHaveColleagues' /\ LeadsHaveColleagues'
  BY DEF CreateQuoteFor, RowsHaveColleagues, ContactsHaveColleagues, LeadsHaveColleagues
<1> QED
  BY <1>3, <1>4, <1>5, <1>6 DEF RowsHaveColleagues

\* Every change of accounts and records keeps it.
LEMMA ViewStep ==
  ASSUME ViewInv, [ViewNext]_viewVars PROVE ViewInv'
<1>1. CASE ViewNext
  BY <1>1, SetRoleKeepsViews, JoinTeamKeepsViews, DropsLeadKeepsViews, HandsLeadToKeepsViews, HandsContactToKeepsViews,
     CreateQuoteForKeepsViews DEF ViewNext
<1>2. CASE UNCHANGED viewVars
  BY <1>2 DEF viewVars, ViewInv, ViewTypeOK, TeamsStayInCompany, RowsHaveColleagues, ContactsHaveColleagues,
       LeadsHaveColleagues, QuotesHaveColleagues, Manages
<1> QED
  BY <1>1, <1>2

\* What the rules come to with rows of colleagues.
LEMMA OthersAreColleagues ==
  ASSUME ViewInv, NEW v \in Viewers
  PROVE  /\ \A a \in MeOrMyTeam(v) : a \in Viewers /\ CompanyOf[a] = CompanyOf[v]
         /\ \A c \in ContactIds : ownerOf[c] \in MeOrMyTeam(v) => ContactCompany[c] = CompanyOf[v]
         /\ \A l \in LeadIds : agentOf[l] \in MeOrMyTeam(v) => l \in LeadsOfCompany(v)
<1>1. v # Nobody /\ \A a \in Viewers : a # Nobody
  BY ViewConstants
<1>2. \A a \in MeOrMyTeam(v) : a \in Viewers /\ CompanyOf[a] = CompanyOf[v]
  BY <1>1 DEF MeOrMyTeam, OnMyTeam, ViewInv, TeamsStayInCompany
<1>3. \A c \in ContactIds : ownerOf[c] \in MeOrMyTeam(v) => ContactCompany[c] = CompanyOf[v]
  BY <1>1, <1>2 DEF ViewInv, RowsHaveColleagues, ContactsHaveColleagues
<1>4. \A l \in LeadIds : agentOf[l] \in MeOrMyTeam(v) => ContactCompany[ContactOfLead[l]] = CompanyOf[v]
  BY <1>1, <1>2 DEF ViewInv, RowsHaveColleagues, LeadsHaveColleagues
<1>5. \A l \in LeadIds : agentOf[l] \in MeOrMyTeam(v) => l \in LeadsOfCompany(v)
  BY <1>4, ViewConstants DEF LeadsOfCompany, ContactsOfCompany
<1> QED
  BY <1>2, <1>3, <1>5

LEMMA QuotesOfColleagues ==
  ASSUME ViewInv, NEW v \in Viewers, NEW q \in QuotesOf(MeOrMyTeam(v))
  PROVE  q \in QuotesOfCompany(v)
<1>1. q \in QuoteIds /\ quoterOf[q] # NoParent /\ LeadOfQuote[q] \in LeadIds /\ ContactOfLead[LeadOfQuote[q]] \in ContactIds
  BY ViewConstants DEF QuotesOf, Created
<1>2. ContactCompany[ContactOfLead[LeadOfQuote[q]]] = CompanyOf[v]
  <2>1. CASE quoterOf[q] \in MeOrMyTeam(v)
    BY <2>1, <1>1, OthersAreColleagues DEF ViewInv, RowsHaveColleagues, QuotesHaveColleagues
  <2>2. CASE agentOf[LeadOfQuote[q]] \in MeOrMyTeam(v)
    BY <2>2, <1>1, OthersAreColleagues DEF LeadsOfCompany, ContactsOfCompany
  <2>3. CASE ownerOf[ContactOfLead[LeadOfQuote[q]]] \in MeOrMyTeam(v)
    BY <2>3, <1>1, OthersAreColleagues
  <2> QED
    BY <2>1, <2>2, <2>3 DEF QuotesOf
<1> QED
  BY <1>1, <1>2 DEF QuotesOfCompany, LeadsOfCompany, ContactsOfCompany

LEMMA MineAreOfTheTeam ==
  ASSUME NEW v
  PROVE  {v} \subseteq MeOrMyTeam(v) /\ QuotesOf({v}) \subseteq QuotesOf(MeOrMyTeam(v))
         /\ \A company : TasksOwnedBy({v}, company) \subseteq TasksOwnedBy(MeOrMyTeam(v), company)
<1>1. v \in MeOrMyTeam(v)
  BY DEF MeOrMyTeam
<1> QED
  BY <1>1 DEF QuotesOf, TasksOwnedBy

\* Whose company a task is of does not depend on which of its parents one asks.
LEMMA TasksOfColleagues ==
  ASSUME ViewInv, NEW v \in Viewers, NEW t \in TaskIds, NEW people, NEW company,
         t \in TasksOwnedBy(people, company), people \subseteq MeOrMyTeam(v) \/ company = {CompanyOf[v]}
  PROVE  t \in TasksOfCompany(v) /\ t \in TasksOwnedBy(people, {CompanyOf[v]})
<1>1. CASE LeadOfTask[t] # NoParent
  <2>1. LeadOfTask[t] \in LeadIds /\ ContactOfLead[LeadOfTask[t]] \in ContactIds
    BY <1>1, ViewConstants
  <2>2. agentOf[LeadOfTask[t]] \in people /\ ContactCompany[ContactOfLead[LeadOfTask[t]]] \in company
    BY <1>1 DEF TasksOwnedBy
  <2>3. ContactCompany[ContactOfLead[LeadOfTask[t]]] = CompanyOf[v]
    BY <2>1, <2>2, OthersAreColleagues DEF LeadsOfCompany, ContactsOfCompany
  <2> QED
    BY <1>1, <2>1, <2>2, <2>3 DEF TasksOfCompany, TasksOwnedBy, LeadsOfCompany, ContactsOfCompany
<1>2. CASE LeadOfTask[t] = NoParent
  <2>1. ContactOfTask[t] # NoParent /\ ownerOf[ContactOfTask[t]] \in people /\ ContactCompany[ContactOfTask[t]] \in company
    BY <1>2 DEF TasksOwnedBy
  <2>2. ContactOfTask[t] \in ContactIds
    BY <2>1, ViewConstants
  <2>3. ContactCompany[ContactOfTask[t]] = CompanyOf[v]
    BY <2>1, <2>2, OthersAreColleagues
  <2> QED
    BY <1>2, <2>1, <2>2, <2>3 DEF TasksOfCompany, TasksOwnedBy, ContactsOfCompany
<1> QED
  BY <1>1, <1>2

LEMMA SearchedContacts ==
  ASSUME NEW v \in Viewers, NEW found, NEW typed \in BOOLEAN, NEW x \in ContactIds \cup {NoParent}
  PROVE  \A c : c \in SearchContacts(v, found, typed, x) <=>
           /\ c \in ContactIds /\ c # x /\ (typed => c \in found)
           /\ IF Manages(v) /\ typed THEN c \in ContactsOfCompany(v) ELSE c \in SeesContacts(v)
<1> DEFINE w == ContactVisibility(v)
           others == IF x = NoParent THEN <<>> ELSE [id |-> ContactIds \ {x}]
           text == IF typed THEN [OR |-> found] ELSE <<>>
<1>1. v # Nobody /\ NoParent \notin ContactIds
  BY ViewConstants
<1>2. SearchContacts(v, found, typed, x) = Rows(Spread(Spread(w, others), text), ContactIds)
  BY DEF SearchContacts
<1>3. \A c \in ContactIds : (\A key \in DOMAIN others : c \in others[key]) <=> c # x
  BY <1>1
<1>4. \A c : (\A key \in DOMAIN text : c \in text[key]) <=> (typed => c \in found)
  OBVIOUS
<1>5. DOMAIN others \subseteq {"id"} /\ DOMAIN text = (IF typed THEN {"OR"} ELSE {})
  OBVIOUS
<1>6. "id" \notin DOMAIN w /\ ("OR" \in DOMAIN w <=> Manages(v))
  BY <1>1 DEF ContactVisibility
<1>7. \A c : c \in SeesContacts(v) <=> c \in ContactIds /\ \A key \in DOMAIN w : c \in w[key]
  BY DEF SeesContacts, Rows
<1>8. Manages(v) => w = [companyId |-> ContactsOfCompany(v), OR |-> {c \in ContactIds : ownerOf[c] \in MeOrMyTeam(v)}]
  BY <1>1 DEF ContactVisibility
<1>9. Manages(v) => DOMAIN w = {"companyId", "OR"} /\ w["companyId"] = ContactsOfCompany(v)
  BY <1>8
<1> HIDE DEF w, others, text
<1>10. DOMAIN w \cap DOMAIN others = {}
  BY <1>5, <1>6
<1>11. \A c : c \in Rows(Spread(Spread(w, others), text), ContactIds) <=>
         /\ c \in ContactIds /\ \A key \in DOMAIN text : c \in text[key]
         /\ \A key \in DOMAIN Spread(w, others) \ DOMAIN text : c \in Spread(w, others)[key]
  <2> DEFINE m == Spread(w, others)
  <2> HIDE DEF m
  <2>1. \A c : c \in Rows(Spread(m, text), ContactIds) <=>
         /\ c \in ContactIds /\ \A key \in DOMAIN text : c \in text[key]
         /\ \A key \in DOMAIN m \ DOMAIN text : c \in m[key]
    BY DEF Rows, Spread
  <2> QED
    BY <2>1 DEF m
<1>12. \A c : (\A key \in DOMAIN Spread(w, others) \ DOMAIN text : c \in Spread(w, others)[key]) <=>
              /\ \A key \in DOMAIN others \ DOMAIN text : c \in others[key]
              /\ \A key \in DOMAIN w \ DOMAIN text : c \in w[key]
  BY <1>10 DEF Spread
<1>13. DOMAIN others \ DOMAIN text = DOMAIN others
  BY <1>5
<1>14. CASE Manages(v) /\ typed
  <2>1. DOMAIN w \ DOMAIN text = {"companyId"}
    BY <1>5, <1>9, <1>14
  <2> QED
    BY <2>1, <1>2, <1>3, <1>4, <1>9, <1>11, <1>12, <1>13, <1>14
<1>15. CASE ~(Manages(v) /\ typed)
  <2>1. DOMAIN w \ DOMAIN text = DOMAIN w
    BY <1>5, <1>6, <1>15
  <2> QED
    BY <2>1, <1>2, <1>3, <1>4, <1>7, <1>11, <1>12, <1>13, <1>15
<1> QED
  BY <1>14, <1>15

\* The promises, from the invariant.
LEMMA NobodyCrossesCompaniesFollows ==
  ASSUME ViewInv PROVE NobodyCrossesCompanies
<1> SUFFICES ASSUME NEW v \in Viewers
             PROVE  /\ GetContacts(v, ContactIds, Anyone) \subseteq ContactsOfCompany(v)
                    /\ \A typed \in BOOLEAN, x \in ContactIds \cup {NoParent} : SearchContacts(v, ContactIds, typed, x) \subseteq ContactsOfCompany(v)
                    /\ GetLeads(v, LeadIds, Anyone) \subseteq LeadsOfCompany(v)
                    /\ GetQuotes(v, Anyone) \cup GetBookings(v, Anyone) \subseteq QuotesOfCompany(v)
                    /\ \A other \in Anyone : GetTasks(v, other, TaskIds) \subseteq TasksOfCompany(v)
                    /\ \A other \in Anyone : \A s \in GetSequences(v, other) : creatorOf[s] # Nobody => CompanyOf[creatorOf[s]] = CompanyOf[v]
  BY DEF NobodyCrossesCompanies
<1>1. v # Nobody
  BY ViewConstants
<1>2. SeesContacts(v) \subseteq ContactsOfCompany(v)
  <2>1. \A c \in ContactIds : ownerOf[c] = v => ContactCompany[c] = CompanyOf[v]
    BY OthersAreColleagues, MineAreOfTheTeam
  <2> QED
    BY <2>1, SeenContacts DEF ContactsOfCompany
<1>3. GetContacts(v, ContactIds, Anyone) \subseteq SeesContacts(v)
  <2>1. "AND" \notin DOMAIN ContactVisibility(v)
    BY DEF ContactVisibility, NothingVisible
  <2> QED
    BY <2>1, PageFilterNarrows DEF GetContacts, SeesContacts
\* What a manager types replaces the team's part of the filter, and leaves the company.
<1>4. \A typed \in BOOLEAN, x \in ContactIds \cup {NoParent} : SearchContacts(v, ContactIds, typed, x) \subseteq ContactsOfCompany(v)
  BY <1>2, SearchedContacts
<1>5. SeesLeads(v) \subseteq LeadsOfCompany(v)
  <2>1. \A l \in LeadIds : agentOf[l] = v => l \in LeadsOfCompany(v)
    BY OthersAreColleagues, MineAreOfTheTeam
  <2> QED
    BY <2>1, SeenLeads
<1>6. GetLeads(v, LeadIds, Anyone) \subseteq SeesLeads(v)
  <2>1. "AND" \notin DOMAIN LeadVisibility(v)
    BY DEF LeadVisibility, NothingVisible
  <2> QED
    BY <2>1, PageFilterNarrows DEF GetLeads, SeesLeads
<1>7. SeesQuotes(v) \subseteq QuotesOfCompany(v)
  <2>1. QuotesOf({v}) \subseteq QuotesOfCompany(v)
    BY QuotesOfColleagues, MineAreOfTheTeam
  <2> QED
    BY <2>1, SeenQuotes
<1>8. GetQuotes(v, Anyone) \cup GetBookings(v, Anyone) \subseteq SeesQuotes(v)
  <2>1. "agentId" \notin DOMAIN QuoteVisibility(v) /\ "lead" \notin DOMAIN QuoteVisibility(v)
    BY DEF QuoteVisibility, NothingVisible
  <2>2. GetQuotes(v, Anyone) \subseteq SeesQuotes(v)
    BY <2>1, AgentFilterNarrows DEF GetQuotes, SeesQuotes
  <2>3. GetBookings(v, Anyone) \subseteq SeesQuotes(v)
    BY <2>1, LeadFilterNarrows DEF GetBookings, SeesQuotes
  <2> QED
    BY <2>2, <2>3
<1>9. ASSUME NEW other \in Anyone PROVE GetTasks(v, other, TaskIds) \subseteq TasksOfCompany(v)
  <2>1. GetTasks(v, other, TaskIds) \subseteq Rows(TaskVisibility(v, other), TaskIds)
    BY DEF GetTasks, Rows
  <2>2. ASSUME NEW t \in Rows(TaskVisibility(v, other), TaskIds) PROVE t \in TasksOfCompany(v)
    <3>1. t \in TaskIds
      BY DEF Rows
    <3>2. \/ t \in TasksOfCompany(v) \/ t \in TasksOwnedBy(MeOrMyTeam(v), {CompanyOf[v]})
          \/ t \in TasksOwnedBy({other}, {CompanyOf[v]}) \/ t \in TasksOwnedBy({v}, AnyCompany)
      BY SeenTasks
    <3>3. {v} \subseteq MeOrMyTeam(v)
      BY DEF MeOrMyTeam
    <3> QED
      BY <3>1, <3>2, <3>3, TasksOfColleagues
  <2> QED
    BY <2>1, <2>2
<1>10. ASSUME NEW other \in Anyone, NEW s \in GetSequences(v, other), creatorOf[s] # Nobody PROVE CompanyOf[creatorOf[s]] = CompanyOf[v]
  <2>1. CASE CanReassign(v) /\ other # Nobody
    BY <1>1, <1>10, <2>1 DEF GetSequences, SequenceVisibility, Rows
  <2>2. CASE CanReassign(v) /\ other = Nobody
    BY <1>1, <1>10, <2>2 DEF GetSequences, SequenceVisibility, Rows
  <2>3. CASE ~CanReassign(v)
    BY <1>1, <1>10, <2>3 DEF GetSequences, SequenceVisibility, Rows
  <2> QED
    BY <2>1, <2>2, <2>3
<1> QED
  BY <1>2, <1>3, <1>4, <1>5, <1>6, <1>7, <1>8, <1>9, <1>10

\* Whom a manager sees the records of.
LEMMA TeamMembersSee ==
  ASSUME ViewInv, NEW v \in Viewers, NEW a \in OnMyTeam(v)
  PROVE  /\ a \in Viewers /\ a \in MeOrMyTeam(v)
         /\ SeesContacts(a) = {c \in ContactIds : ownerOf[c] = a}
         /\ SeesLeads(a) = {l \in LeadIds : agentOf[l] = a}
         /\ SeesQuotes(a) = QuotesOf({a})
         /\ SeesTasks(a) = TasksOwnedBy({a}, AnyCompany)
<1>1. a \in Viewers /\ a \in MeOrMyTeam(v) /\ roleOf[a] = "TRAVEL_AGENT"
  BY DEF OnMyTeam, MeOrMyTeam
<1>2. ~Manages(a) /\ ~CanViewAllRecords(a) /\ ~CanViewAllQuotesAndBookings(a)
  BY <1>1 DEF Manages, CanViewAllRecords, CanViewAllQuotesAndBookings
<1>3. QuotesOf({a}) \subseteq Created /\ TasksOwnedBy({a}, AnyCompany) \subseteq TaskIds
  BY DEF QuotesOf, TasksOwnedBy
<1>4. SeesTasks(a) = TasksOwnedBy({a}, AnyCompany)
  BY <1>1, <1>2, <1>3, SeenTasks DEF SeesTasks
<1> QED
  BY <1>1, <1>2, <1>3, <1>4, SeenContacts, SeenLeads, SeenQuotes

LEMMA ManagerSeesOwnAndTeamFollows ==
  ASSUME ViewInv PROVE ManagerSeesOwnAndTeam
<1> SUFFICES ASSUME NEW v \in Viewers, Manages(v)
             PROVE  /\ \A found \in SUBSET ContactIds : SearchContacts(v, found, TRUE, NoParent) = found \cap ContactsOfCompany(v)
                    /\ SeesContacts(v) = {c \in ContactIds : ownerOf[c] = v} \cup UNION {SeesContacts(a) : a \in OnMyTeam(v)}
                    /\ SeesLeads(v) = {l \in LeadIds : agentOf[l] = v} \cup UNION {SeesLeads(a) : a \in OnMyTeam(v)}
                    /\ SeesQuotes(v) = QuotesOf({v}) \cup UNION {SeesQuotes(a) : a \in OnMyTeam(v)}
                    /\ SeesTasks(v) = TasksOwnedBy({v}, AnyCompany) \cup UNION {SeesTasks(a) : a \in OnMyTeam(v)}
  BY DEF ManagerSeesOwnAndTeam
<1>0. ASSUME NEW found \in SUBSET ContactIds PROVE SearchContacts(v, found, TRUE, NoParent) = found \cap ContactsOfCompany(v)
  <2>1. NoParent \notin ContactIds /\ ContactsOfCompany(v) \subseteq ContactIds
    BY ViewConstants DEF ContactsOfCompany
  <2>2. \A c : c \in SearchContacts(v, found, TRUE, NoParent) <=> c \in ContactIds /\ c # NoParent /\ c \in found /\ c \in ContactsOfCompany(v)
    BY SearchedContacts
  <2> QED
    BY <2>1, <2>2
<1>1. MeOrMyTeam(v) = {v} \cup OnMyTeam(v)
  BY DEF MeOrMyTeam
<1>2. SeesContacts(v) = {c \in ContactIds : ownerOf[c] = v} \cup UNION {SeesContacts(a) : a \in OnMyTeam(v)}
  <2>1. \A c : c \in SeesContacts(v) <=> c \in ContactIds /\ ownerOf[c] \in MeOrMyTeam(v)
    BY SeenContacts, OthersAreColleagues
  <2>2. \A a \in OnMyTeam(v) : SeesContacts(a) = {c \in ContactIds : ownerOf[c] = a}
    BY TeamMembersSee
  <2> QED
    BY <2>1, <2>2, <1>1
<1>3. SeesLeads(v) = {l \in LeadIds : agentOf[l] = v} \cup UNION {SeesLeads(a) : a \in OnMyTeam(v)}
  <2>1. \A l : l \in SeesLeads(v) <=> l \in LeadIds /\ agentOf[l] \in MeOrMyTeam(v)
    BY SeenLeads, OthersAreColleagues
  <2>2. \A a \in OnMyTeam(v) : SeesLeads(a) = {l \in LeadIds : agentOf[l] = a}
    BY TeamMembersSee
  <2> QED
    BY <2>1, <2>2, <1>1
<1>4. SeesQuotes(v) = QuotesOf({v}) \cup UNION {SeesQuotes(a) : a \in OnMyTeam(v)}
  <2>1. SeesQuotes(v) = QuotesOf(MeOrMyTeam(v))
    BY SeenQuotes, QuotesOfColleagues DEF QuotesOf
  <2>2. \A a \in OnMyTeam(v) : SeesQuotes(a) = QuotesOf({a})
    BY TeamMembersSee
  <2>3. \A q : q \in QuotesOf(MeOrMyTeam(v)) <=> q \in QuotesOf({v}) \/ \E a \in OnMyTeam(v) : q \in QuotesOf({a})
    BY <1>1 DEF QuotesOf
  <2> QED
    BY <2>1, <2>2, <2>3, ZenonT(30)
<1>5. SeesTasks(v) = TasksOwnedBy({v}, AnyCompany) \cup UNION {SeesTasks(a) : a \in OnMyTeam(v)}
  <2>1. SeesTasks(v) = TasksOwnedBy(MeOrMyTeam(v), {CompanyOf[v]})
    BY SeenTasks DEF SeesTasks, TasksOwnedBy
  <2>2. CompanyOf[v] \in AnyCompany
    BY DEF AnyCompany
  <2>3. TasksOwnedBy(MeOrMyTeam(v), {CompanyOf[v]}) = TasksOwnedBy(MeOrMyTeam(v), AnyCompany)
    <3>1. TasksOwnedBy(MeOrMyTeam(v), {CompanyOf[v]}) \subseteq TasksOwnedBy(MeOrMyTeam(v), AnyCompany)
      BY <2>2 DEF TasksOwnedBy
    <3>2. \A t \in TasksOwnedBy(MeOrMyTeam(v), AnyCompany) : t \in TaskIds
      BY DEF TasksOwnedBy
    <3> QED
      BY <3>1, <3>2, TasksOfColleagues
  <2>4. \A a \in OnMyTeam(v) : SeesTasks(a) = TasksOwnedBy({a}, AnyCompany)
    BY TeamMembersSee
  <2>5. \A t : t \in TasksOwnedBy(MeOrMyTeam(v), AnyCompany)
                 <=> t \in TasksOwnedBy({v}, AnyCompany) \/ \E a \in OnMyTeam(v) : t \in TasksOwnedBy({a}, AnyCompany)
    BY <1>1 DEF TasksOwnedBy
  <2> QED
    BY <2>1, <2>3, <2>4, <2>5, ZenonT(30)
<1> QED
  BY <1>0, <1>2, <1>3, <1>4, <1>5

LEMMA TasksFollowTheirParentFollows ==
  ASSUME ViewInv PROVE TasksFollowTheirParent
<1> SUFFICES ASSUME NEW v \in Viewers, NEW t \in TaskIds
             PROVE  t \in SeesTasks(v) <=> IF LeadOfTask[t] # NoParent THEN LeadOfTask[t] \in SeesLeads(v)
                                           ELSE ContactOfTask[t] \in SeesContacts(v)
  BY DEF TasksFollowTheirParent
<1> DEFINE l == LeadOfTask[t]  c == ContactOfTask[t]
<1>1. /\ l # NoParent => l \in LeadIds /\ ContactOfLead[l] \in ContactIds
      /\ c # NoParent => c \in ContactIds
      /\ NoParent \notin LeadIds /\ NoParent \notin ContactIds
  BY ViewConstants
<1>2. l # NoParent /\ c # NoParent => ContactCompany[c] = ContactCompany[ContactOfLead[l]]
  BY TasksStayInCompany
<1>3. v \in MeOrMyTeam(v)
  BY DEF MeOrMyTeam
<1>4. l # NoParent => (l \in LeadsOfCompany(v) <=> ContactCompany[ContactOfLead[l]] = CompanyOf[v])
  BY <1>1 DEF LeadsOfCompany, ContactsOfCompany
<1>5. CASE Manages(v)
  <2>1. t \in SeesTasks(v) <=> t \in TasksOwnedBy(MeOrMyTeam(v), {CompanyOf[v]})
    BY <1>5, SeenTasks DEF SeesTasks
  <2>2. l # NoParent => (l \in SeesLeads(v) <=> l \in LeadsOfCompany(v) /\ agentOf[l] \in MeOrMyTeam(v))
    BY <1>1, <1>5, SeenLeads
  <2>3. c \in SeesContacts(v) <=> c # NoParent /\ ContactCompany[c] = CompanyOf[v] /\ ownerOf[c] \in MeOrMyTeam(v)
    BY <1>1, <1>5, SeenContacts
  <2> QED
    BY <2>1, <2>2, <2>3, <1>4 DEF TasksOwnedBy
<1>6. CASE ~Manages(v) /\ CanViewAllRecords(v)
  <2>1. t \in SeesTasks(v) <=> t \in TasksOfCompany(v)
    BY <1>6, SeenTasks DEF SeesTasks
  <2>2. l # NoParent => (l \in SeesLeads(v) <=> l \in LeadsOfCompany(v))
    BY <1>1, <1>6, SeenLeads
  <2>3. c \in SeesContacts(v) <=> c # NoParent /\ ContactCompany[c] = CompanyOf[v]
    BY <1>1, <1>6, SeenContacts
  <2>4. t \in TasksOfCompany(v) <=> (c # NoParent /\ ContactCompany[c] = CompanyOf[v]) \/ (l # NoParent /\ l \in LeadsOfCompany(v))
    BY <1>1 DEF TasksOfCompany, ContactsOfCompany
  <2> QED
    BY <2>1, <2>2, <2>3, <2>4, <1>2, <1>4
<1>7. CASE ~Manages(v) /\ ~CanViewAllRecords(v)
  <2>1. t \in SeesTasks(v) <=> t \in TasksOwnedBy({v}, AnyCompany)
    BY <1>7, SeenTasks DEF SeesTasks
  <2>2. l # NoParent => (l \in SeesLeads(v) <=> agentOf[l] = v)
    BY <1>1, <1>7, SeenLeads
  <2>3. c \in SeesContacts(v) <=> c # NoParent /\ ownerOf[c] = v
    BY <1>1, <1>7, SeenContacts
  <2>4. \A k \in ContactIds : ContactCompany[k] \in AnyCompany
    BY DEF AnyCompany
  <2> QED
    BY <2>1, <2>2, <2>3, <2>4, <1>1 DEF TasksOwnedBy
<1> QED
  BY <1>5, <1>6, <1>7

LEMMA ParentsOpenTheirQuotesFollows ==
  ASSUME ViewInv PROVE ParentsOpenTheirQuotes
<1> SUFFICES ASSUME NEW v \in Viewers, NEW q \in Created,
                    LeadOfQuote[q] \in SeesLeads(v) \/ ContactOfLead[LeadOfQuote[q]] \in SeesContacts(v)
             PROVE  q \in SeesQuotes(v)
  BY DEF ParentsOpenTheirQuotes
<1> DEFINE l == LeadOfQuote[q]  c == ContactOfLead[LeadOfQuote[q]]
<1>1. q \in QuoteIds /\ l \in LeadIds /\ c \in ContactIds
  BY ViewConstants DEF Created
<1>2. q \in QuotesOfCompany(v) <=> ContactCompany[c] = CompanyOf[v]
  BY <1>1 DEF QuotesOfCompany, LeadsOfCompany, ContactsOfCompany
<1>3. l \in LeadsOfCompany(v) <=> ContactCompany[c] = CompanyOf[v]
  BY <1>1 DEF LeadsOfCompany, ContactsOfCompany
<1>4. v \in MeOrMyTeam(v)
  BY DEF MeOrMyTeam
<1>5. ContactCompany[c] = CompanyOf[v]
  <2>1. agentOf[l] = v => l \in LeadsOfCompany(v)
    BY <1>1, <1>4, OthersAreColleagues
  <2>2. ownerOf[c] = v => ContactCompany[c] = CompanyOf[v]
    BY <1>1, <1>4, OthersAreColleagues
  <2> QED
    BY <2>1, <2>2, <1>3, SeenLeads, SeenContacts
<1>6. CASE Manages(v)
  <2>1. agentOf[l] \in MeOrMyTeam(v) \/ ownerOf[c] \in MeOrMyTeam(v)
    BY <1>6, SeenLeads, SeenContacts
  <2>2. q \in QuotesOf(MeOrMyTeam(v))
    BY <2>1 DEF QuotesOf
  <2> QED
    BY <1>2, <1>5, <1>6, <2>2, SeenQuotes
<1>7. CASE ~Manages(v) /\ CanViewAllQuotesAndBookings(v)
  BY <1>2, <1>5, <1>7, SeenQuotes
<1>8. CASE ~Manages(v) /\ ~CanViewAllQuotesAndBookings(v)
  <2>1. ~CanViewAllRecords(v)
    BY <1>8 DEF CanViewAllQuotesAndBookings
  <2>2. agentOf[l] = v \/ ownerOf[c] = v
    BY <1>8, <2>1, SeenLeads, SeenContacts
  <2>3. q \in QuotesOf({v})
    BY <2>2 DEF QuotesOf
  <2> QED
    BY <1>8, <2>3, SeenQuotes
<1> QED
  BY <1>6, <1>7, <1>8

LEMMA FiltersOnlyNarrowFollows ==
  ASSUME ViewInv PROVE FiltersOnlyNarrow
<1>0. ASSUME NEW v \in Viewers, NEW typed \in BOOLEAN, NEW x \in ContactIds \cup {NoParent}
      PROVE  (Manages(v) /\ typed) \/ SearchContacts(v, ContactIds, typed, x) \subseteq SeesContacts(v) \ {x}
  BY SearchedContacts
<1> SUFFICES ASSUME NEW v \in Viewers, NEW other \in Anyone
             PROVE  /\ GetContacts(v, ContactIds, {other}) \subseteq SeesContacts(v)
                    /\ GetLeads(v, LeadIds, {other}) \subseteq SeesLeads(v)
                    /\ GetQuotes(v, {other}) \cup GetBookings(v, {other}) \subseteq SeesQuotes(v)
                    /\ GetTasks(v, other, TaskIds) \subseteq SeesTasks(v)
                    /\ GetSequences(v, other) \subseteq GetSequences(v, Nobody)
                    /\ GlobalSearch(v, QuoteVisibility(v), Created, Created) = SeesQuotes(v)
  BY <1>0 DEF FiltersOnlyNarrow
<1>1. v # Nobody
  BY ViewConstants
<1>2. /\ "AND" \notin DOMAIN ContactVisibility(v) /\ "AND" \notin DOMAIN LeadVisibility(v)
      /\ "agentId" \notin DOMAIN QuoteVisibility(v) /\ "lead" \notin DOMAIN QuoteVisibility(v)
  BY DEF ContactVisibility, LeadVisibility, QuoteVisibility, NothingVisible
<1>3. GetContacts(v, ContactIds, {other}) \subseteq SeesContacts(v)
  BY <1>2, PageFilterNarrows DEF GetContacts, SeesContacts
<1>4. GetLeads(v, LeadIds, {other}) \subseteq SeesLeads(v)
  BY <1>2, PageFilterNarrows DEF GetLeads, SeesLeads
<1>5. GetQuotes(v, {other}) \subseteq SeesQuotes(v)
  BY <1>2, AgentFilterNarrows DEF GetQuotes, SeesQuotes
<1>6. GetBookings(v, {other}) \subseteq SeesQuotes(v)
  BY <1>2, LeadFilterNarrows DEF GetBookings, SeesQuotes
<1>7. GetTasks(v, other, TaskIds) \subseteq SeesTasks(v)
  <2>1. GetTasks(v, other, TaskIds) \subseteq Rows(TaskVisibility(v, other), TaskIds)
    BY DEF GetTasks, Rows
  <2>2. ASSUME NEW t \in Rows(TaskVisibility(v, other), TaskIds) PROVE t \in Rows(TaskVisibility(v, Nobody), TaskIds)
    <3>1. t \in TaskIds
      BY DEF Rows
    <3>2. t \in TasksOwnedBy({other}, {CompanyOf[v]}) => t \in TasksOfCompany(v)
      BY <3>1, TasksOfColleagues
    <3> QED
      BY <3>1, <3>2, SeenTasks
  <2> QED
    BY <2>1, <2>2 DEF SeesTasks
<1>8. GetSequences(v, other) \subseteq GetSequences(v, Nobody)
  <2> DEFINE theirs == {s \in SequenceIds : creatorOf[s] # Nobody /\ CompanyOf[creatorOf[s]] = CompanyOf[v]}
  <2>1. CASE ~CanReassign(v) \/ other = Nobody
    BY <1>1, <2>1 DEF GetSequences, SequenceVisibility
  <2>2. CASE CanReassign(v) /\ other # Nobody
    <3>1. SequenceVisibility(v, Nobody) = [OR |-> theirs \cup {s \in SequenceIds : creatorOf[s] = Nobody}]
      BY <1>1, <2>2 DEF SequenceVisibility
    <3>2. SequenceVisibility(v, other) = [createdById |-> {s \in SequenceIds : creatorOf[s] = other}, createdBy |-> theirs]
      BY <1>1, <2>2 DEF SequenceVisibility
    <3>3. \A s \in GetSequences(v, other) : s \in theirs
      BY <3>2 DEF GetSequences, Rows
    <3> HIDE DEF theirs
    <3>4. \A s : s \in GetSequences(v, Nobody) <=> s \in SequenceIds /\ s \in theirs \cup {u \in SequenceIds : creatorOf[u] = Nobody}
      BY <3>1 DEF GetSequences, Rows
    <3> QED
      BY <3>3, <3>4 DEF theirs
  <2> QED
    BY <2>1, <2>2
<1>9. GlobalSearch(v, QuoteVisibility(v), Created, Created) = SeesQuotes(v)
  <2> DEFINE R == Rows(QuoteVisibility(v), Created)
  <2>1. R \subseteq Created
    BY DEF Rows
  <2>2. GlobalSearch(v, QuoteVisibility(v), Created, Created) = Rows([AND |-> R \cap Created], Created)
    BY DEF GlobalSearch
  <2> HIDE DEF R
  <2>3. Rows([AND |-> R \cap Created], Created) = R
    BY <2>1 DEF Rows
  <2> QED
    BY <2>2, <2>3 DEF R, SeesQuotes
<1> QED
  BY <1>3, <1>4, <1>5, <1>6, <1>7, <1>8, <1>9

\* Lists, searches and filters of any company follow the rules: nobody sees another
\* company's rows, managers see their own and their team's, tasks are seen with their parent,
\* quotes with their lead and a filter only narrows; except that the search of Referred By shows
\* a manager who types in it the whole company (server/visibility.ts, actions/contacts.ts).
THEOREM ListsHold ==
  ViewSpec => [](ViewTypeOK /\ ViewRules)
<1>1. ViewInit => ViewInv
  BY ViewInitInv
<1>2. ViewInv /\ [ViewNext]_viewVars => ViewInv'
  BY ViewStep
<1>3. ViewInv => ViewTypeOK /\ ViewRules
  BY NobodyCrossesCompaniesFollows, ManagerSeesOwnAndTeamFollows, TasksFollowTheirParentFollows, ParentsOpenTheirQuotesFollows,
     FiltersOnlyNarrowFollows DEF ViewInv, ViewRules
<1> QED
  BY <1>1, <1>2, <1>3, PTL DEF ViewSpec

-----------------------------------------------------------------------------
(* The sales reports *)

\* What an eligibility query returned, and the rows read for it: as long as the
\* books stand still both are what is eligible, and the rows are in the scope.
ListingAnswers(l, r, eligible, scope, quiet) ==
  /\ l = Nothing => r = Nothing
  /\ l # Nothing => l \subseteq Sales /\ (quiet => l = eligible)
  /\ r # Nothing => r \subseteq l /\ (quiet => r = l) /\ \A s \in r : scope = Nothing \/ SentBy[s] = scope

\* No confirmation is recorded for a time to come.
BooksStand ==
  /\ moment \in Moments
  /\ history \in [Sales -> SUBSET Moments] /\ touchedAt \in [Sales -> Moments] /\ profitOf \in [Sales -> Profits \cup {Nothing}]
  /\ confirmed \in [Sales -> BOOLEAN]
  /\ \A s \in Sales : \A t \in history[s] : t <= moment

\* The open report of an account, one query after the other.
PageStands ==
  /\ viewer \in Staff \cup {Nothing} /\ wanted \in Sellers \cup {Nothing}
  /\ viewer = Nothing => listed = Nothing /\ counted = Nothing
  /\ ListingAnswers(listed, rows, EligibleBookings(viewer, wanted, range), Scope(viewer, wanted), ~disturbed)
  /\ ListingAnswers(counted, summed, EligibleBookings(viewer, wanted, range), Scope(viewer, wanted), ~disturbed)

\* A save that no other one crossed knows the booking's status.
SavesKnow ==
  /\ written \in [Sales -> Nat]
  /\ \A w \in saves :
       /\ w.sale \in Sales /\ w.profit \in Profits \cup {Nothing} /\ w.seen \in Nat /\ w.seen <= written[w.sale]
       /\ w.seen = written[w.sale] => (w.was <=> confirmed[w.sale])

\* The invariant behind the reports.
ReportInv == BooksStand /\ SavesKnow /\ PageStands

\* The smallest of some hours is one of them.
LEMMA LeastMoment ==
  ASSUME NEW S, S \subseteq Nat, S # {} PROVE Min(S) \in S
<1>1. \E x \in S : \A y \in S : ~(<<y, x>> \in OpToRel(<, Nat))
  BY NatLessThanWellFounded, WFMin
<1>2. PICK x \in S : \A y \in S : ~(<<y, x>> \in OpToRel(<, Nat))
  BY <1>1
<1>3. \A y \in S : ~(y < x)
  BY <1>2 DEF OpToRel
<1>4. \A y \in S : x <= y
  BY <1>3
<1> QED
  BY <1>4 DEF Min

\* A confirmation recorded now is the last one.
LEMMA NowIsLast ==
  ASSUME NEW S, S \subseteq Nat, NEW m \in Nat, \A t \in S : t <= m PROVE Max(S \cup {m}) = m
<1>1. \A y \in S \cup {m} : m >= y
  OBVIOUS
<1>2. \A x \in S \cup {m} : (\A y \in S \cup {m} : x >= y) => x = m
  OBVIOUS
<1> QED
  BY <1>1, <1>2 DEF Max

LEMMA MomentsAreHours ==
  /\ Min(Moments) \in Moments
  /\ \A m \in Moments : (\E t \in Moments : t > m) => /\ Min({x \in Moments : x > m}) \in Moments
                                                      /\ Min({x \in Moments : x > m}) > m
<1>1. Min(Moments) \in Moments
  BY LeastMoment, SalesConstants
<1>2. ASSUME NEW m \in Moments, \E t \in Moments : t > m PROVE Min({x \in Moments : x > m}) \in {x \in Moments : x > m}
  BY <1>2, LeastMoment, SalesConstants
<1> QED
  BY <1>1, <1>2

LEMMA ReportStarts == ASSUME ReportInit PROVE ReportInv
<1>1. BooksStand
  BY MomentsAreHours DEF ReportInit, BooksStand
<1>2. PageStands
  BY DEF ReportInit, PageStands, ListingAnswers
<1>3. SavesKnow
  BY DEF ReportInit, SavesKnow
<1> QED
  BY <1>1, <1>2, <1>3 DEF ReportInv

\* Books that stand still leave what is eligible.
LEMMA QuietBooks ==
  ASSUME UNCHANGED ledger PROVE \A who, user, r : EligibleBookings(who, user, r)' = EligibleBookings(who, user, r)
BY DEF ledger, EligibleBookings, CountsFor, InRange, SaleAt, Scope

\* A save under way: what it has read, and what it commits.
LEMMA BeginSaveKeepsReport ==
  ASSUME ReportInv, NEW s \in Sales, NEW to \in SavedStatuses, NEW p \in Profits \cup {Nothing}, BeginSave(s, to, p)
  PROVE  ReportInv'
<1> DEFINE w == [number |-> changes', sale |-> s, to |-> to, profit |-> p, was |-> confirmed[s], seen |-> written[s]]
<1>1. saves' = saves \cup {w} /\ UNCHANGED <<moment, ledger, written, page, disturbed>>
  BY DEF BeginSave
<1>2. w.sale = s /\ w.profit = p /\ w.seen = written[s] /\ w.was = confirmed[s]
  OBVIOUS
<1> HIDE DEF w
<1>3. BooksStand'
  BY <1>1 DEF ReportInv, BooksStand, ledger
<1>4. written[s] \in Nat
  BY DEF ReportInv, SavesKnow
<1>5. SavesKnow'
  <2>1. written' = written /\ confirmed' = confirmed
    BY <1>1 DEF ledger
  <2> QED
    BY <1>1, <1>2, <1>4, <2>1 DEF ReportInv, SavesKnow
<1>6. PageStands'
  BY <1>1, QuietBooks DEF ReportInv, PageStands, page, Scope
<1> QED
  BY <1>3, <1>5, <1>6 DEF ReportInv

LEMMA CommitSaveKeepsReport ==
  ASSUME ReportInv, NEW w \in saves, CommitSave(w)
  PROVE  ReportInv'
<1>1. moment \in Moments /\ moment <= moment /\ moment' = moment
  <2>1. moment' = moment
    BY DEF CommitSave, Writes
  <2> QED
    BY <2>1, SalesConstants DEF ReportInv, BooksStand
<1>2. w.sale \in Sales /\ w.profit \in Profits \cup {Nothing} /\ written \in [Sales -> Nat] /\ confirmed \in [Sales -> BOOLEAN]
  BY DEF ReportInv, SavesKnow, BooksStand
<1>3. touchedAt' \in [Sales -> Moments]
  BY <1>1, <1>2 DEF ReportInv, BooksStand, CommitSave, Writes
<1>4. profitOf' \in [Sales -> Profits \cup {Nothing}]
  BY <1>2 DEF ReportInv, BooksStand, CommitSave, Writes
<1>5. confirmed' \in [Sales -> BOOLEAN]
  <2>1. (w.to = "CONFIRMED") \in BOOLEAN
    OBVIOUS
  <2> QED
    BY <1>2, <2>1 DEF CommitSave, Writes
<1>6. history' \in [Sales -> SUBSET Moments] /\ \A x \in Sales : \A t \in history'[x] : t <= moment
  BY <1>1, <1>2 DEF ReportInv, BooksStand, CommitSave
<1>7. BooksStand'
  BY <1>1, <1>3, <1>4, <1>5, <1>6 DEF BooksStand
<1>8. SavesKnow'
  <2>1. written' = [written EXCEPT ![w.sale] = @ + 1] /\ saves' = saves \ {w}
    BY DEF CommitSave, Writes
  <2>2. written' \in [Sales -> Nat] /\ written'[w.sale] = written[w.sale] + 1 /\ \A x \in Sales : x # w.sale => written'[x] = written[x]
    BY <1>2, <2>1
  <2>3. \A x \in Sales : x # w.sale => confirmed'[x] = confirmed[x]
    BY <1>2 DEF CommitSave, Writes
  <2>4. ASSUME NEW v \in saves'
        PROVE  /\ v.sale \in Sales /\ v.profit \in Profits \cup {Nothing} /\ v.seen \in Nat /\ v.seen <= written'[v.sale]
               /\ v.seen = written'[v.sale] => (v.was <=> confirmed'[v.sale])
    <3>1. /\ v.sale \in Sales /\ v.profit \in Profits \cup {Nothing} /\ v.seen \in Nat /\ v.seen <= written[v.sale]
          /\ v.seen = written[v.sale] => (v.was <=> confirmed[v.sale])
      BY <2>1, <2>4 DEF ReportInv, SavesKnow
    <3>2. CASE v.sale = w.sale
      BY <1>2, <2>2, <3>1, <3>2
    <3>3. CASE v.sale # w.sale
      BY <2>2, <2>3, <3>1, <3>3
    <3> QED
      BY <3>2, <3>3
  <2> QED
    BY <2>2, <2>4 DEF SavesKnow
<1>9. PageStands'
  BY DEF ReportInv, PageStands, CommitSave, Writes, page, ListingAnswers, Scope
<1> QED
  BY <1>7, <1>8, <1>9 DEF ReportInv

\* The queries of a page.
LEMMA PageKeepsReport ==
  ASSUME ReportInv, UNCHANGED <<moment, books>>,
         \/ \E who \in Staff, user \in Sellers \cup {Nothing}, kind \in Offers : OpenReport(who, user, kind)
         \/ ListSales \/ FetchRows \/ CountSales \/ SumSales \/ LeaveReport
  PROVE  ReportInv'
<1> DEFINE e == EligibleBookings(viewer, wanted, range)  w == Scope(viewer, wanted)
<1>1. BooksStand' /\ SavesKnow' /\ UNCHANGED ledger
  BY DEF ReportInv, BooksStand, SavesKnow, books, ledger
<1>2. /\ viewer \in Staff \cup {Nothing} /\ wanted \in Sellers \cup {Nothing}
      /\ (viewer = Nothing => listed = Nothing /\ counted = Nothing)
      /\ ListingAnswers(listed, rows, e, w, ~disturbed) /\ ListingAnswers(counted, summed, e, w, ~disturbed)
  BY DEF ReportInv, PageStands
<1>3. /\ e \subseteq Sales /\ (\A s \in e : CountsFor(s, viewer, wanted))
      /\ \A s \in Sales : CountsFor(s, viewer, wanted) => w = Nothing \/ SentBy[s] = w
  BY DEF EligibleBookings, CountsFor
<1>4. e # Nothing /\ \A x : x \subseteq Sales => x # Nothing
  BY <1>3, SalesConstants
<1>5. CASE (\E who \in Staff, user \in Sellers \cup {Nothing}, kind \in Offers : OpenReport(who, user, kind)) \/ LeaveReport
  BY <1>1, <1>5 DEF OpenReport, LeaveReport, ReportInv, PageStands, ListingAnswers
<1>6. ASSUME UNCHANGED <<viewer, wanted, range, disturbed>> PROVE EligibleBookings(viewer, wanted, range)' = e /\ Scope(viewer, wanted)' = w
  BY <1>1, <1>6, QuietBooks DEF Scope
<1> HIDE DEF e, w
<1>7. CASE ListSales
  <2>1. listed' = e /\ viewer # Nothing /\ rows = Nothing /\ UNCHANGED <<viewer, wanted, range, disturbed, rows, counted, summed>>
    BY <1>2, <1>7 DEF ListSales, ListingAnswers, e
  <2>2. ListingAnswers(listed', rows', e, w, ~disturbed)
    BY <2>1, <1>3, <1>4 DEF ListingAnswers
  <2> QED
    BY <2>1, <2>2, <1>1, <1>2, <1>6 DEF ReportInv, PageStands
<1>8. CASE CountSales
  <2>1. counted' = e /\ viewer # Nothing /\ summed = Nothing /\ UNCHANGED <<viewer, wanted, range, disturbed, rows, listed, summed>>
    BY <1>2, <1>8 DEF CountSales, ListingAnswers, e
  <2>2. ListingAnswers(counted', summed', e, w, ~disturbed)
    BY <2>1, <1>3, <1>4 DEF ListingAnswers
  <2> QED
    BY <2>1, <2>2, <1>1, <1>2, <1>6 DEF ReportInv, PageStands
<1>9. ASSUME NEW l, ListingAnswers(l, Nothing, e, w, ~disturbed), l # Nothing
      PROVE  ListingAnswers(l, {s \in l : CountsFor(s, viewer, wanted)}, e, w, ~disturbed)
  BY <1>9, <1>3 DEF ListingAnswers
<1>10. CASE FetchRows
  <2>1. /\ rows' = {s \in listed : CountsFor(s, viewer, wanted)} /\ listed # Nothing /\ rows = Nothing
        /\ UNCHANGED <<viewer, wanted, range, disturbed, listed, counted, summed>>
    BY <1>10 DEF FetchRows
  <2>2. ListingAnswers(listed', rows', e, w, ~disturbed)
    BY <2>1, <1>2, <1>9
  <2> QED
    BY <2>1, <2>2, <1>1, <1>2, <1>6 DEF ReportInv, PageStands
<1>11. CASE SumSales
  <2>1. /\ summed' = {s \in counted : CountsFor(s, viewer, wanted)} /\ counted # Nothing /\ summed = Nothing
        /\ UNCHANGED <<viewer, wanted, range, disturbed, listed, counted, rows>>
    BY <1>11 DEF SumSales
  <2>2. ListingAnswers(counted', summed', e, w, ~disturbed)
    BY <2>1, <1>2, <1>9
  <2> QED
    BY <2>1, <2>2, <1>1, <1>2, <1>6 DEF ReportInv, PageStands
<1> QED
  BY <1>5, <1>7, <1>8, <1>10, <1>11

\* Every write of a booking and every query of a report keeps it.
LEMMA ReportStep ==
  ASSUME ReportInv, [ReportNext]_reportVars PROVE ReportInv'
<1>1. CASE TimeGoesOn
  <2>1. moment \in Moments /\ moment' \in Moments /\ moment' > moment /\ UNCHANGED <<books, page, disturbed>>
    BY <1>1, MomentsAreHours DEF TimeGoesOn, ReportInv, BooksStand
  <2>2. \A t \in Moments : t <= moment => t <= moment'
    BY <2>1, SalesConstants
  <2>3. BooksStand' /\ SavesKnow' /\ UNCHANGED ledger
    BY <2>1, <2>2 DEF ReportInv, BooksStand, SavesKnow, books, ledger
  <2>4. PageStands'
    BY <2>1, <2>3, QuietBooks DEF ReportInv, PageStands, page, Scope
  <2> QED
    BY <2>3, <2>4 DEF ReportInv
<1>2. ASSUME NEW s \in Sales, NEW to \in SavedStatuses, NEW p \in Profits \cup {Nothing}, BeginSave(s, to, p) PROVE ReportInv'
  BY <1>2, BeginSaveKeepsReport
<1>3. ASSUME NEW w \in saves, CommitSave(w) PROVE ReportInv'
  BY <1>3, CommitSaveKeepsReport
<1>4. CASE (\E a \in Sellers : HideAccount(a)) \/ UNCHANGED reportVars
  <2>1. UNCHANGED <<moment, books, page, disturbed>>
    BY <1>4 DEF HideAccount, reportVars
  <2>2. BooksStand' /\ SavesKnow' /\ UNCHANGED ledger
    BY <2>1 DEF ReportInv, BooksStand, SavesKnow, books, ledger
  <2>3. PageStands'
    BY <2>1, <2>2, QuietBooks DEF ReportInv, PageStands, page, Scope
  <2> QED
    BY <2>2, <2>3 DEF ReportInv
<1>5. ASSUME \/ \E who \in Staff, user \in Sellers \cup {Nothing}, kind \in Offers : OpenReport(who, user, kind)
             \/ ListSales \/ FetchRows \/ CountSales \/ SumSales \/ LeaveReport
      PROVE ReportInv'
  <2>1. UNCHANGED <<moment, books>>
    BY <1>5 DEF OpenReport, ListSales, FetchRows, CountSales, SumSales, LeaveReport
  <2> QED
    BY <1>5, <2>1, PageKeepsReport
<1> QED
  BY <1>1, <1>2, <1>3, <1>4, <1>5 DEF ReportNext

\* The promises, from the invariant.
LEMMA ReportPromises ==
  ASSUME ReportInv PROVE ReportTypeOK /\ OthersSalesStayHidden /\ RowsAndTotalsAgree /\ BoardShowsTheSameSales
<1>1. ReportTypeOK
  BY DEF ReportInv, BooksStand, PageStands, ListingAnswers, ReportTypeOK
<1>2. OthersSalesStayHidden
  BY SalesConstants DEF ReportInv, PageStands, ListingAnswers, OthersSalesStayHidden, Scope
<1>3. RowsAndTotalsAgree
  BY DEF ReportInv, PageStands, ListingAnswers, RowsAndTotalsAgree, EligibleBookings, CountsFor
<1>4. BoardShowsTheSameSales
  <2>1. \A a \in Sellers : \A r : EligibleBookings(Boss, a, r) = EligibleBookings(a, Nothing, r)
    BY SalesConstants DEF EligibleBookings, CountsFor, Scope
  <2>2. ASSUME NEW r PROVE /\ \A a \in DOMAIN Salesboard(r) : a \in Sellers /\ shown[a] /\ Salesboard(r)[a] = Profit(EligibleBookings(Boss, a, r))
                           /\ \A a \in Sellers : EligibleBookings(Boss, a, r) # {} => (shown[a] <=> a \in DOMAIN Salesboard(r))
    BY DEF Salesboard
  <2>3. \A r : \A s \in EligibleBookings(Boss, Nothing, r) : SentBy[s] \in Sellers /\ s \in EligibleBookings(SentBy[s], Nothing, r)
    BY SalesConstants DEF EligibleBookings, CountsFor, Scope
  <2> QED
    BY <2>1, <2>2, <2>3 DEF BoardShowsTheSameSales
<1> QED
  BY <1>1, <1>2, <1>3, <1>4

\* What a step may do to the ledger.
LEMMA LedgerStep ==
  ASSUME ReportInv, [ReportNext]_reportVars
  PROVE  \A s \in Sales :
           /\ history[s] # {} /\ PeriodOfSale(s)' # PeriodOfSale(s) =>
                /\ confirmed'[s] /\ (confirmed[s] => CrossedSaveOf(s))
                /\ PeriodOfSale(s)' = PayPeriodContaining(CivilDateInZone(moment))
           /\ ~confirmed[s] /\ confirmed'[s] => SaleAt(s)' = moment \/ CrossedSaveOf(s)
<1> SUFFICES ASSUME NEW s \in Sales
             PROVE  /\ history[s] # {} /\ PeriodOfSale(s)' # PeriodOfSale(s) =>
                         /\ confirmed'[s] /\ (confirmed[s] => CrossedSaveOf(s))
                         /\ PeriodOfSale(s)' = PayPeriodContaining(CivilDateInZone(moment))
                    /\ ~confirmed[s] /\ confirmed'[s] => SaleAt(s)' = moment \/ CrossedSaveOf(s)
  OBVIOUS
<1>1. ASSUME history[s] # {}, history'[s] = history[s] PROVE PeriodOfSale(s)' = PeriodOfSale(s)
  BY <1>1 DEF PeriodOfSale, SaleAt
<1>2. history[s] \subseteq Nat /\ moment \in Nat /\ \A t \in history[s] : t <= moment
  BY SalesConstants DEF ReportInv, BooksStand
<1>3. ASSUME history'[s] = history[s] \cup {moment} PROVE SaleAt(s)' = moment
  BY <1>2, <1>3, NowIsLast DEF SaleAt
<1>4. CASE ~\E w \in saves : CommitSave(w)
  <2>1. history' = history /\ confirmed' = confirmed
    BY <1>4 DEF ReportNext, TimeGoesOn, BeginSave, HideAccount, OpenReport, ListSales, FetchRows, CountSales, SumSales, LeaveReport,
                reportVars, books, ledger
  <2> QED
    BY <1>1, <2>1
<1>5. ASSUME NEW w \in saves, CommitSave(w)
      PROVE  /\ history[s] # {} /\ PeriodOfSale(s)' # PeriodOfSale(s) =>
                  /\ confirmed'[s] /\ (confirmed[s] => CrossedSaveOf(s))
                  /\ PeriodOfSale(s)' = PayPeriodContaining(CivilDateInZone(moment))
             /\ ~confirmed[s] /\ confirmed'[s] => SaleAt(s)' = moment \/ CrossedSaveOf(s)
  <2>1. /\ w.sale \in Sales /\ w \in saves \ saves' /\ history \in [Sales -> SUBSET Moments] /\ confirmed \in [Sales -> BOOLEAN]
        /\ ~Crossed(w) => (w.was <=> confirmed[w.sale])
    BY <1>5 DEF ReportInv, SavesKnow, BooksStand, CommitSave, Writes, Crossed
  <2>2. CASE w.sale # s
    <3>1. history'[s] = history[s] /\ confirmed'[s] = confirmed[s]
      BY <1>5, <2>1, <2>2 DEF CommitSave, Writes
    <3> QED
      BY <1>1, <3>1
  <2>3. CASE w.sale = s /\ w.to = "CONFIRMED" /\ ~w.was
    <3>1. history'[s] = history[s] \cup {moment} /\ confirmed'[s]
      BY <1>5, <2>1, <2>3 DEF CommitSave, Writes
    <3>2. confirmed[s] => CrossedSaveOf(s)
      BY <2>1, <2>3 DEF CrossedSaveOf
    <3> QED
      BY <1>3, <3>1, <3>2 DEF PeriodOfSale
  <2>4. CASE w.sale = s /\ ~(w.to = "CONFIRMED" /\ ~w.was)
    <3>1. history'[s] = history[s] /\ (~confirmed[s] /\ confirmed'[s] => w.was)
      BY <1>5, <2>1, <2>4 DEF CommitSave, Writes
    <3>2. ~confirmed[s] /\ confirmed'[s] => CrossedSaveOf(s)
      BY <2>1, <2>4, <3>1 DEF CrossedSaveOf
    <3> QED
      BY <1>1, <3>1, <3>2
  <2> QED
    BY <2>2, <2>3, <2>4
<1> QED
  BY <1>4, <1>5

\* The reports on any sales: nobody but the administrator sees another's, the rows and the
\* totals of an undisturbed report agree, the board shows the same sales, and unless two saves of
\* it crossed a sale keeps its pay period until it is confirmed again, and then counts in the
\* open one (server/queries/commissions.ts, actions/bookings.ts).
THEOREM ReportsHold ==
  ReportSpec => [](ReportTypeOK /\ OthersSalesStayHidden /\ RowsAndTotalsAgree /\ BoardShowsTheSameSales) /\ SavesMoveNoSale /\ ReturnsCountNow
<1>1. ReportInit => ReportInv
  BY ReportStarts
<1>2. ReportInv /\ [ReportNext]_reportVars => ReportInv'
  BY ReportStep
<1>3. ReportInv => ReportTypeOK /\ OthersSalesStayHidden /\ RowsAndTotalsAgree /\ BoardShowsTheSameSales
  BY ReportPromises
<1>4. ReportInv /\ [ReportNext]_reportVars =>
        [\A s \in Sales : history[s] # {} /\ PeriodOfSale(s)' # PeriodOfSale(s) =>
              /\ confirmed'[s] /\ (confirmed[s] => CrossedSaveOf(s))
              /\ PeriodOfSale(s)' = PayPeriodContaining(CivilDateInZone(moment))]_reportVars
  BY LedgerStep
<1>5. ReportInv /\ [ReportNext]_reportVars =>
        [\A s \in Sales : ~confirmed[s] /\ confirmed'[s] => SaleAt(s)' = moment \/ CrossedSaveOf(s)]_reportVars
  BY LedgerStep
<1> QED
  BY <1>1, <1>2, <1>3, <1>4, <1>5, PTL DEF ReportSpec, SavesMoveNoSale, ReturnsCountNow

-----------------------------------------------------------------------------
(* The calendar: days and their numbers *)

\* The calendar's years, the days in one, the days of a year before a month, and the dates.
Years == FirstYear..LastYear
YearLength(y) == IF IsLeap(y) THEN 366 ELSE 365
MonthStart(y, m) == DaysBefore[m] + (IF m > 2 /\ IsLeap(y) THEN 1 ELSE 0)
Date(y, m, d) == [year |-> y, month |-> m, day |-> d]
Dates == {c \in [year : Years, month : 1..12, day : 1..31] : c.day <= DaysInMonth(c.year, c.month)}

\* A year is followed by the next.
LEMMA YearsFollow ==
  /\ YearsBefore[FirstYear] = 0
  /\ \A y \in FirstYear..(LastYear + 1) : YearsBefore[y] \in Nat
  /\ \A y \in Years : YearsBefore[y + 1] = YearsBefore[y] + YearLength(y)
<1> DEFINE L(y) == {x \in FirstYear..(y - 1) : IsLeap(x)}
<1>1. FirstYear \in Int /\ LastYear \in Int /\ FirstYear < LastYear
  BY CalendarYears
<1>2. \A y \in FirstYear..(LastYear + 1) : YearsBefore[y] = 365 * (y - FirstYear) + Cardinality(L(y))
  BY DEF YearsBefore
<1>3. ASSUME NEW y \in Int PROVE IsFiniteSet(L(y)) /\ Cardinality(L(y)) \in Nat
  <2>1. IsFiniteSet(FirstYear..(y - 1))
    BY <1>1, FS_Interval
  <2>2. IsFiniteSet(L(y))
    BY <2>1, FS_Subset
  <2> QED
    BY <2>2, FS_CardinalityType
<1>4. L(FirstYear) = {}
  BY <1>1
<1>5. ASSUME NEW y \in Years PROVE Cardinality(L(y + 1)) = Cardinality(L(y)) + IF IsLeap(y) THEN 1 ELSE 0
  <2>1. y \in Int /\ y + 1 - 1 = y
    BY <1>1 DEF Years
  <2>2. FirstYear..y = FirstYear..(y - 1) \cup {y} /\ y \notin FirstYear..(y - 1)
    BY <1>1 DEF Years
  <2>3. CASE IsLeap(y)
    <3>1. L(y + 1) = L(y) \cup {y} /\ y \notin L(y)
      BY <2>1, <2>2, <2>3
    <3> HIDE DEF L
    <3>2. Cardinality(L(y) \cup {y}) = Cardinality(L(y)) + 1
      BY <2>1, <3>1, <1>3, FS_AddElement
    <3> QED
      BY <3>1, <3>2, <2>3
  <2>4. CASE ~IsLeap(y)
    <3>1. L(y + 1) = L(y)
      BY <2>1, <2>2, <2>4
    <3> HIDE DEF L
    <3> QED
      BY <3>1, <2>1, <2>4, <1>3
  <2> QED
    BY <2>3, <2>4
<1>6. Cardinality({}) = 0
  BY FS_EmptySet
<1>7. YearsBefore[FirstYear] = 0
  <2>1. YearsBefore[FirstYear] = 365 * (FirstYear - FirstYear) + Cardinality({})
    BY <1>1, <1>2, <1>4
  <2> QED
    BY <2>1, <1>1, <1>6
<1> HIDE DEF L
<1>8. \A y \in FirstYear..(LastYear + 1) : YearsBefore[y] \in Nat
  BY <1>1, <1>2, <1>3
<1>9. \A y \in Years : YearsBefore[y + 1] = YearsBefore[y] + YearLength(y)
  <2> SUFFICES ASSUME NEW y \in Years PROVE YearsBefore[y + 1] = YearsBefore[y] + YearLength(y)
    OBVIOUS
  <2>1. y \in FirstYear..(LastYear + 1) /\ y + 1 \in FirstYear..(LastYear + 1) /\ y \in Int
    BY <1>1 DEF Years
  <2>2. Cardinality(L(y)) \in Nat
    BY <2>1, <1>3
  <2> QED
    BY <2>1, <2>2, <1>1, <1>2, <1>5 DEF YearLength
<1> QED
  BY <1>7, <1>8, <1>9

\* So is every later one, with all the days of the first between them.
LEMMA YearsAscend ==
  ASSUME NEW y \in Years, NEW z \in FirstYear..(LastYear + 1), y < z
  PROVE  YearsBefore[y] + YearLength(y) <= YearsBefore[z]
<1> DEFINE Good(n) == YearsBefore[y] + YearLength(y) <= YearsBefore[n]
           Fails == {n \in (y + 1)..z : ~Good(n)}
<1> SUFFICES ASSUME ~Good(z) PROVE FALSE
  OBVIOUS
<1>1. FirstYear \in Nat /\ LastYear \in Nat /\ y \in Nat /\ z \in Nat /\ y >= FirstYear /\ z <= LastYear + 1
  BY CalendarYears DEF Years
<1>2. Fails # {} /\ Fails \subseteq Nat
  <2>1. z \in Fails
    BY <1>1
  <2> QED
    BY <2>1, <1>1
<1>3. PICK n \in Fails : \A x \in Fails : ~(<<x, n>> \in OpToRel(<, Nat))
  BY <1>2, WFMin, NatLessThanWellFounded
<1>4. n \in (y + 1)..z /\ ~Good(n) /\ \A x \in (y + 1)..z : x < n => Good(x)
  <2> HIDE DEF Good
  <2>1. \A x \in Fails : ~(x < n)
    <3> HIDE DEF Fails
    <3> QED
      BY <1>2, <1>3 DEF OpToRel
  <2> QED
    BY <2>1
<1>5. CASE n = y + 1
  BY <1>1, <1>4, <1>5, YearsFollow DEF YearLength
<1>6. CASE n # y + 1
  <2>1. n - 1 \in (y + 1)..z /\ n - 1 < n /\ n - 1 \in Years /\ n - 1 + 1 = n /\ n \in FirstYear..(LastYear + 1)
        /\ n - 1 \in FirstYear..(LastYear + 1) /\ y \in FirstYear..(LastYear + 1)
    BY <1>1, <1>4, <1>6 DEF Years
  <2>2. YearsBefore[n] = YearsBefore[n - 1] + YearLength(n - 1) /\ YearsBefore[n - 1] \in Nat /\ YearsBefore[n] \in Nat /\ YearsBefore[y] \in Nat
    BY <2>1, YearsFollow
  <2>3. Good(n - 1)
    BY <2>1, <1>4
  <2>4. YearLength(y) \in Nat /\ YearLength(n - 1) \in Nat
    BY DEF YearLength
  <2> HIDE DEF Fails
  <2> QED
    BY <2>2, <2>3, <2>4, <1>4
<1> QED
  BY <1>5, <1>6

\* Where the months begin.
LEMMA MonthStartsAre ==
  ASSUME NEW y \in Int
  PROVE  LET leap == IF IsLeap(y) THEN 1 ELSE 0 IN
         /\ MonthStart(y, 1) = 0 /\ MonthStart(y, 2) = 31 /\ MonthStart(y, 3) = 59 + leap /\ MonthStart(y, 4) = 90 + leap
         /\ MonthStart(y, 5) = 120 + leap /\ MonthStart(y, 6) = 151 + leap /\ MonthStart(y, 7) = 181 + leap
         /\ MonthStart(y, 8) = 212 + leap /\ MonthStart(y, 9) = 243 + leap /\ MonthStart(y, 10) = 273 + leap
         /\ MonthStart(y, 11) = 304 + leap /\ MonthStart(y, 12) = 334 + leap
<1>1. /\ DaysBefore[1] = 0 /\ DaysBefore[2] = 31 /\ DaysBefore[3] = 59 /\ DaysBefore[4] = 90 /\ DaysBefore[5] = 120
      /\ DaysBefore[6] = 151 /\ DaysBefore[7] = 181 /\ DaysBefore[8] = 212 /\ DaysBefore[9] = 243 /\ DaysBefore[10] = 273
      /\ DaysBefore[11] = 304 /\ DaysBefore[12] = 334
  BY DEF DaysBefore
<1> QED
  BY <1>1 DEF MonthStart

\* A month is followed by the next, inside the year.
LEMMA MonthsFollow ==
  ASSUME NEW y \in Int
  PROVE  /\ \A m \in 1..12 : MonthStart(y, m) \in Nat /\ DaysInMonth(y, m) \in 28..31
         /\ \A m \in 1..11 : MonthStart(y, m + 1) = MonthStart(y, m) + DaysInMonth(y, m)
         /\ MonthStart(y, 1) = 0 /\ MonthStart(y, 12) + 31 = YearLength(y) /\ DaysInMonth(y, 12) = 31
         /\ \A m, k \in 1..12 : m < k => MonthStart(y, m) + DaysInMonth(y, m) <= MonthStart(y, k)
         /\ \A m \in 1..12 : MonthStart(y, m) + DaysInMonth(y, m) <= YearLength(y)
<1> DEFINE leap == IF IsLeap(y) THEN 1 ELSE 0
<1>1. leap \in {0, 1} /\ YearLength(y) = 365 + leap
  BY DEF YearLength
<1>2. \A m \in 1..12 : DaysInMonth(y, m) = IF m = 2 THEN 28 + leap ELSE IF m \in {4, 6, 9, 11} THEN 30 ELSE 31
  BY DEF DaysInMonth
<1>3. /\ MonthStart(y, 1) = 0 /\ MonthStart(y, 2) = 31 /\ MonthStart(y, 3) = 59 + leap /\ MonthStart(y, 4) = 90 + leap
      /\ MonthStart(y, 5) = 120 + leap /\ MonthStart(y, 6) = 151 + leap /\ MonthStart(y, 7) = 181 + leap
      /\ MonthStart(y, 8) = 212 + leap /\ MonthStart(y, 9) = 243 + leap /\ MonthStart(y, 10) = 273 + leap
      /\ MonthStart(y, 11) = 304 + leap /\ MonthStart(y, 12) = 334 + leap
  BY MonthStartsAre
<1> HIDE DEF leap
<1>4. \A m \in 1..12 : m \in {1, 2, 3, 4, 5, 6, 7, 8, 9, 10, 11, 12}
  OBVIOUS
<1>5. \A m \in 1..12 : MonthStart(y, m) \in Nat /\ DaysInMonth(y, m) \in 28..31 /\ MonthStart(y, m) + DaysInMonth(y, m) <= YearLength(y)
  BY <1>1, <1>2, <1>3, <1>4
<1>6. \A m \in 1..11 : MonthStart(y, m + 1) = MonthStart(y, m) + DaysInMonth(y, m)
  BY <1>1, <1>2, <1>3, <1>4
<1>7. \A m, k \in 1..12 : m < k => MonthStart(y, m) + DaysInMonth(y, m) <= MonthStart(y, k)
  <2> SUFFICES ASSUME NEW m \in 1..12, NEW k \in 1..12, m < k PROVE MonthStart(y, m) + DaysInMonth(y, m) <= MonthStart(y, k)
    OBVIOUS
  <2>1. m \in 1..11 /\ m + 1 \in 1..12 /\ m + 1 <= k
    OBVIOUS
  <2>2. MonthStart(y, m + 1) = MonthStart(y, m) + DaysInMonth(y, m)
    BY <2>1, <1>6
  <2>3. \A a, b \in 1..12 : a <= b => MonthStart(y, a) <= MonthStart(y, b)
    BY <1>1, <1>3, <1>4
  <2> QED
    BY <2>1, <2>2, <2>3
<1>8. MonthStart(y, 1) = 0 /\ MonthStart(y, 12) + 31 = YearLength(y) /\ DaysInMonth(y, 12) = 31
  BY <1>1, <1>2, <1>3
<1> QED
  BY <1>5, <1>6, <1>7, <1>8

\* How long years and months are.
LEMMA Lengths == \A y \in Int : YearLength(y) \in Nat /\ \A m \in 1..12 : DaysInMonth(y, m) \in 28..31
BY DEF DaysInMonth, YearLength

\* A date as its parts, and its number.
LEMMA DateParts ==
  ASSUME NEW c \in Dates
  PROVE  /\ c.year \in Years /\ c.year \in Int /\ c.month \in 1..12 /\ c.day \in 1..31 /\ c.day <= DaysInMonth(c.year, c.month)
         /\ c = Date(c.year, c.month, c.day)
         /\ DayNumber(c) = YearsBefore[c.year] + MonthStart(c.year, c.month) + c.day - 1
         /\ YearsBefore[c.year] \in Nat /\ MonthStart(c.year, c.month) \in Nat /\ DayNumber(c) \in Nat
         /\ MonthStart(c.year, c.month) + DaysInMonth(c.year, c.month) <= YearLength(c.year)
<1>1. c.year \in Years /\ c.month \in 1..12 /\ c.day \in 1..31 /\ c.day <= DaysInMonth(c.year, c.month) /\ c = Date(c.year, c.month, c.day)
  BY DEF Dates, Date
<1>2. c.year \in Int /\ c.year \in FirstYear..(LastYear + 1)
  BY <1>1, CalendarYears DEF Years
<1>3. YearsBefore[c.year] \in Nat
  BY <1>2, YearsFollow
<1>4. MonthStart(c.year, c.month) \in Nat /\ MonthStart(c.year, c.month) + DaysInMonth(c.year, c.month) <= YearLength(c.year)
      /\ DaysInMonth(c.year, c.month) \in 28..31
  BY <1>1, <1>2, MonthsFollow
<1>5. DaysBefore[c.month] \in Int
  BY <1>1 DEF DaysBefore
<1>6. DayNumber(c) = YearsBefore[c.year] + MonthStart(c.year, c.month) + c.day - 1
  BY <1>1, <1>3, <1>5 DEF DayNumber, MonthStart
<1> QED
  BY <1>1, <1>2, <1>3, <1>4, <1>6

\* A day of a month is a date.
LEMMA DateIn ==
  ASSUME NEW y \in Years, NEW m \in 1..12, NEW d \in 1..31, d <= DaysInMonth(y, m)
  PROVE  Date(y, m, d) \in Dates
BY DEF Date, Dates

\* The order of dates by year, month and day.
Precedes(a, b) ==
  \/ a.year < b.year
  \/ a.year = b.year /\ a.month < b.month
  \/ a.year = b.year /\ a.month = b.month /\ a.day < b.day

\* Dates are numbered in their order.
LEMMA DatesAscend ==
  ASSUME NEW a \in Dates, NEW b \in Dates
  PROVE  DayNumber(a) < DayNumber(b) <=> Precedes(a, b)
<1>1. ASSUME NEW x \in Dates, NEW z \in Dates, Precedes(x, z) PROVE DayNumber(x) < DayNumber(z)
  <2>0. /\ DayNumber(x) = YearsBefore[x.year] + MonthStart(x.year, x.month) + x.day - 1
        /\ DayNumber(z) = YearsBefore[z.year] + MonthStart(z.year, z.month) + z.day - 1
        /\ YearsBefore[x.year] \in Nat /\ YearsBefore[z.year] \in Nat
        /\ MonthStart(x.year, x.month) \in Nat /\ MonthStart(z.year, z.month) \in Nat
        /\ x.day \in 1..31 /\ z.day \in 1..31 /\ x.day <= DaysInMonth(x.year, x.month)
        /\ MonthStart(x.year, x.month) + DaysInMonth(x.year, x.month) <= YearLength(x.year)
        /\ x.month \in 1..12 /\ z.month \in 1..12 /\ x.year \in Int /\ z.year \in Int
    BY DateParts
  <2>1. DaysInMonth(x.year, x.month) \in 28..31 /\ YearLength(x.year) \in Nat
    BY <2>0, Lengths
  <2>2. CASE x.year < z.year
    <3>1. YearsBefore[x.year] + YearLength(x.year) <= YearsBefore[z.year]
      <4>1. x.year \in Years /\ z.year \in FirstYear..(LastYear + 1)
        BY DateParts, CalendarYears DEF Years
      <4> QED
        BY <4>1, <2>2, YearsAscend
    <3> QED
      BY <2>0, <2>1, <3>1
  <2>3. CASE x.year = z.year /\ x.month < z.month
    <3>1. MonthStart(x.year, x.month) + DaysInMonth(x.year, x.month) <= MonthStart(z.year, z.month)
      BY <2>0, <2>3, MonthsFollow
    <3> QED
      BY <2>0, <2>1, <2>3, <3>1
  <2>4. CASE x.year = z.year /\ x.month = z.month /\ x.day < z.day
    BY <2>0, <2>4
  <2> QED
    BY <1>1, <2>2, <2>3, <2>4 DEF Precedes
<1>2. Precedes(a, b) \/ Precedes(b, a) \/ a = b
  <2>1. /\ a.year \in Int /\ a.month \in 1..12 /\ a.day \in 1..31 /\ a = Date(a.year, a.month, a.day)
        /\ b.year \in Int /\ b.month \in 1..12 /\ b.day \in 1..31 /\ b = Date(b.year, b.month, b.day)
    BY DateParts
  <2>2. a.year = b.year /\ a.month = b.month /\ a.day = b.day => a = b
    BY <2>1
  <2> QED
    BY <2>1, <2>2 DEF Precedes
<1>3. DayNumber(a) \in Nat /\ DayNumber(b) \in Nat
  BY DateParts
<1> QED
  BY <1>1, <1>2, <1>3

\* Two dates have two numbers.
LEMMA NumbersDiffer ==
  ASSUME NEW a \in Dates, NEW b \in Dates, DayNumber(a) = DayNumber(b) PROVE a = b
<1>1. ~Precedes(a, b) /\ ~Precedes(b, a)
  BY DatesAscend, DateParts
<1>2. /\ a.year \in Int /\ a.month \in 1..12 /\ a.day \in 1..31 /\ a = Date(a.year, a.month, a.day)
      /\ b.year \in Int /\ b.month \in 1..12 /\ b.day \in 1..31 /\ b = Date(b.year, b.month, b.day)
  BY DateParts
<1>3. a.year = b.year /\ a.month = b.month /\ a.day = b.day
  BY <1>1, <1>2 DEF Precedes
<1> QED
  BY <1>2, <1>3

\* The days of a year, and of a month, are numbered from its first.
LEMMA DaysOfYear ==
  ASSUME NEW c \in Dates, NEW y \in Years
  PROVE  /\ Date(y, 1, 1) \in Dates /\ DayNumber(Date(y, 1, 1)) = YearsBefore[y]
         /\ DayNumber(c) - DayNumber(Date(y, 1, 1)) \in 0..(IF IsLeap(y) THEN 365 ELSE 364) <=> c.year = y
<1>1. y \in Int /\ y \in FirstYear..(LastYear + 1) /\ y + 1 \in FirstYear..(LastYear + 1)
  BY CalendarYears DEF Years
<1>2. Date(y, 1, 1) \in Dates
  <2>1. DaysInMonth(y, 1) \in 28..31
    BY <1>1, Lengths
  <2> QED
    BY <2>1, DateIn
<1>3. DayNumber(Date(y, 1, 1)) = YearsBefore[y] /\ YearsBefore[y] \in Nat
  <2>1. Date(y, 1, 1).year = y /\ Date(y, 1, 1).month = 1 /\ Date(y, 1, 1).day = 1
    BY DEF Date
  <2>2. MonthStart(y, 1) = 0 /\ YearsBefore[y] \in Nat
    BY <1>1, MonthsFollow, YearsFollow
  <2> QED
    BY <1>2, <2>1, <2>2, DateParts
<1>4. /\ c.year \in Years /\ c.year \in Int /\ c.month \in 1..12 /\ c.day \in 1..31 /\ c.day <= DaysInMonth(c.year, c.month)
      /\ DayNumber(c) = YearsBefore[c.year] + MonthStart(c.year, c.month) + c.day - 1
      /\ YearsBefore[c.year] \in Nat /\ MonthStart(c.year, c.month) \in Nat /\ DayNumber(c) \in Nat
      /\ MonthStart(c.year, c.month) + DaysInMonth(c.year, c.month) <= YearLength(c.year)
      /\ DaysInMonth(c.year, c.month) \in 28..31 /\ YearLength(c.year) \in Nat
  <2>1. c.year \in Int /\ c.month \in 1..12
    BY DateParts
  <2> QED
    BY <2>1, DateParts, Lengths
<1>5. YearsBefore[c.year] <= DayNumber(c) /\ DayNumber(c) < YearsBefore[c.year] + YearLength(c.year)
  BY <1>4
<1>6. YearLength(y) = (IF IsLeap(y) THEN 365 ELSE 364) + 1
  BY DEF YearLength
<1> DEFINE N == DayNumber(c)  F == DayNumber(Date(y, 1, 1))  L == IF IsLeap(y) THEN 365 ELSE 364
<1>7. N \in Nat /\ F \in Nat /\ L \in Nat /\ F = YearsBefore[y] /\ YearLength(y) = L + 1
      /\ YearsBefore[c.year] <= N /\ N < YearsBefore[c.year] + YearLength(c.year)
  BY <1>3, <1>4, <1>5, <1>6
<1> HIDE DEF N, F, L
<1>8. ASSUME c.year = y PROVE N - F \in 0..L
  BY <1>7, <1>8
<1>9. ASSUME c.year < y PROVE ~(N - F \in 0..L)
  <2>1. YearsBefore[c.year] + YearLength(c.year) <= YearsBefore[y]
    BY <1>1, <1>4, <1>9, YearsAscend
  <2>2. N < F
    BY <2>1, <1>4, <1>7
  <2> QED
    BY <2>2, <1>1, <1>4, <1>7, <1>9
<1>10. ASSUME y < c.year PROVE ~(N - F \in 0..L)
  <2>1. YearsBefore[y] + YearLength(y) <= YearsBefore[c.year]
    <3>1. c.year \in FirstYear..(LastYear + 1)
      BY <1>4, CalendarYears DEF Years
    <3> QED
      BY <3>1, <1>10, YearsAscend
  <2>2. F + L < N
    BY <2>1, <1>4, <1>7
  <2> QED
    BY <2>2, <1>1, <1>4, <1>7, <1>10
<1>11. N - F \in 0..L <=> c.year = y
  BY <1>1, <1>4, <1>8, <1>9, <1>10
<1> QED
  BY <1>2, <1>3, <1>11 DEF N, F, L

\* A date's month is the one whose days its number is among.
LEMMA DaysOfMonth ==
  ASSUME NEW c \in Dates, NEW m \in 1..12
  PROVE  /\ Date(c.year, m, 1) \in Dates /\ DayNumber(c) - DayNumber(Date(c.year, c.month, 1)) = c.day - 1
         /\ DayNumber(c) - DayNumber(Date(c.year, m, 1)) \in 0..(DaysInMonth(c.year, m) - 1) <=> c.month = m
<1> DEFINE y == c.year
<1>1. /\ y \in Years /\ y \in Int /\ c.month \in 1..12 /\ c.day \in 1..31 /\ c.day <= DaysInMonth(y, c.month)
      /\ DayNumber(c) = YearsBefore[y] + MonthStart(y, c.month) + c.day - 1
      /\ YearsBefore[y] \in Nat /\ DayNumber(c) \in Nat
  BY DateParts
<1> HIDE DEF y
<1>2. \A k \in 1..12 : MonthStart(y, k) \in Nat /\ DaysInMonth(y, k) \in 28..31
  BY <1>1, Lengths, MonthsFollow
<1>3. ASSUME NEW k \in 1..12 PROVE Date(y, k, 1) \in Dates /\ DayNumber(Date(y, k, 1)) = YearsBefore[y] + MonthStart(y, k)
  <2>1. Date(y, k, 1) \in Dates
    BY <1>1, <1>2, DateIn
  <2>2. Date(y, k, 1).year = y /\ Date(y, k, 1).month = k /\ Date(y, k, 1).day = 1
    BY DEF Date
  <2> QED
    BY <1>1, <1>2, <2>1, <2>2, DateParts
<1>4. \A i, k \in 1..12 : i < k => MonthStart(y, i) + DaysInMonth(y, i) <= MonthStart(y, k)
  BY <1>1, MonthsFollow
<1> DEFINE N == DayNumber(c)  Y == YearsBefore[y]  S == MonthStart(y, c.month)  T == MonthStart(y, m)
           J == DaysInMonth(y, c.month)  K == DaysInMonth(y, m)
<1>5. /\ N \in Nat /\ Y \in Nat /\ S \in Nat /\ T \in Nat /\ J \in 28..31 /\ K \in 28..31
      /\ N = Y + S + c.day - 1 /\ c.day \in 1..J /\ m \in Int /\ c.month \in Int
  BY <1>1, <1>2
<1>6. DayNumber(Date(y, c.month, 1)) = Y + S /\ DayNumber(Date(y, m, 1)) = Y + T
  BY <1>1, <1>3
<1>7. (m < c.month => T + K <= S) /\ (c.month < m => S + J <= T) /\ (c.month = m => S = T /\ J = K)
  BY <1>1, <1>4
<1> HIDE DEF N, Y, S, T, J, K
<1>8. N - (Y + T) \in 0..(K - 1) <=> c.month = m
  <2>1. CASE c.month = m
    BY <2>1, <1>5, <1>7
  <2>2. CASE c.month < m
    BY <2>2, <1>5, <1>7
  <2>3. CASE m < c.month
    BY <2>3, <1>5, <1>7
  <2> QED
    BY <2>1, <2>2, <2>3, <1>5
<1>9. N - (Y + S) = c.day - 1
  BY <1>1, <1>5
<1> QED
  BY <1>3, <1>6, <1>8, <1>9 DEF y, N, K

\* The calendar ends with its last year.
LEMMA LastDayIs ==
  LastDay \in Nat /\ \A c \in Dates : DayNumber(c) \in 0..LastDay /\ (DayNumber(c) = LastDay => c = Date(LastYear, 12, 31))
<1> DEFINE z == Date(LastYear, 12, 31)
<1>1. LastYear \in Years /\ LastYear \in Int
  BY CalendarYears DEF Years
<1>2. z \in Dates
  <2>1. 31 <= DaysInMonth(LastYear, 12)
    BY <1>1, MonthsFollow
  <2> QED
    BY <1>1, <2>1, DateIn
<1>3. LastDay = DayNumber(z) /\ LastDay \in Nat
  BY <1>2, DateParts DEF LastDay, Date
<1>4. ASSUME NEW c \in Dates PROVE DayNumber(c) <= LastDay
  <2>1. ~Precedes(z, c)
    <3>1. z.year = LastYear /\ z.month = 12 /\ z.day = 31
      BY DEF Date
    <3>2. c.year <= LastYear /\ c.year \in Int /\ c.month \in 1..12 /\ c.day \in 1..31
      BY DateParts, CalendarYears DEF Years
    <3> HIDE DEF z
    <3> QED
      BY <1>1, <3>1, <3>2 DEF Precedes
  <2> HIDE DEF z
  <2>2. ~(DayNumber(z) < DayNumber(c))
    BY <2>1, <1>2, DatesAscend
  <2> QED
    BY <1>2, <1>3, <2>2, DateParts
<1> HIDE DEF z
<1>5. \A c \in Dates : DayNumber(c) = LastDay => c = z
  BY <1>2, <1>3, NumbersDiffer
<1> QED
  BY <1>3, <1>4, <1>5, DateParts DEF z
\* The calculator finds the date of every number.
LEMMA DateOfNumber == ASSUME NEW c \in Dates PROVE DateOfDay[DayNumber(c)] = c
<1> DEFINE n == DayNumber(c)
           InYear(y) == n - DayNumber([year |-> y, month |-> 1, day |-> 1]) \in 0..(IF IsLeap(y) THEN 365 ELSE 364)
           theYear == CHOOSE y \in FirstYear..LastYear : InYear(y)
           InMonth(y, m) == n - DayNumber([year |-> y, month |-> m, day |-> 1]) \in 0..(DaysInMonth(y, m) - 1)
           theMonth(y) == CHOOSE m \in 1..12 : InMonth(y, m)
<1>1. DateOfDay[n] = [year |-> theYear, month |-> theMonth(theYear), day |-> n - DayNumber([year |-> theYear, month |-> theMonth(theYear), day |-> 1]) + 1]
  BY LastDayIs DEF DateOfDay
<1>2. \A y \in FirstYear..LastYear : InYear(y) <=> c.year = y
  BY DaysOfYear, ZenonT(30) DEF Date, Years
<1>3. c.year \in FirstYear..LastYear /\ c.month \in 1..12 /\ c = [year |-> c.year, month |-> c.month, day |-> c.day] /\ c.day \in Int
  BY DateParts DEF Date, Years
<1>4. \A m \in 1..12 : InMonth(c.year, m) <=> c.month = m
  BY DaysOfMonth DEF Date
<1>5. theYear = c.year
  <2> HIDE DEF InYear
  <2> QED
    BY <1>2, <1>3
<1>6. theMonth(c.year) = c.month
  <2> HIDE DEF InMonth
  <2> QED
    BY <1>3, <1>4
<1>7. n - DayNumber([year |-> c.year, month |-> c.month, day |-> 1]) = c.day - 1
  BY <1>3, DaysOfMonth DEF Date
<1> HIDE DEF n, theYear, theMonth
<1>8. DateOfDay[n] = [year |-> c.year, month |-> c.month, day |-> c.day - 1 + 1]
  BY <1>1, <1>5, <1>6, <1>7
<1> QED
  BY <1>3, <1>8 DEF n

\* The day after a day.
Next(c) ==
  IF c.day < DaysInMonth(c.year, c.month) THEN Date(c.year, c.month, c.day + 1)
  ELSE IF c.month < 12 THEN Date(c.year, c.month + 1, 1) ELSE Date(c.year + 1, 1, 1)

\* The day after a day has the next number.
LEMMA NextIs ==
  ASSUME NEW c \in Dates, c # Date(LastYear, 12, 31)
  PROVE  Next(c) \in Dates /\ DayNumber(Next(c)) = DayNumber(c) + 1
<1> DEFINE y == c.year  m == c.month  d == c.day
<1>1. /\ y \in Years /\ y \in Int /\ m \in 1..12 /\ d \in 1..31 /\ d <= DaysInMonth(y, m) /\ c = Date(y, m, d)
      /\ DayNumber(c) = YearsBefore[y] + MonthStart(y, m) + d - 1 /\ YearsBefore[y] \in Nat /\ MonthStart(y, m) \in Nat
  BY DateParts
<1>2. DaysInMonth(y, m) \in 28..31
  BY <1>1, Lengths
<1>3. \A a \in Years, b \in 1..12, e \in 1..31 : e <= DaysInMonth(a, b) =>
        /\ Date(a, b, e) \in Dates /\ DayNumber(Date(a, b, e)) = YearsBefore[a] + MonthStart(a, b) + e - 1
  <2> SUFFICES ASSUME NEW a \in Years, NEW b \in 1..12, NEW e \in 1..31, e <= DaysInMonth(a, b)
               PROVE  Date(a, b, e) \in Dates /\ DayNumber(Date(a, b, e)) = YearsBefore[a] + MonthStart(a, b) + e - 1
    OBVIOUS
  <2>1. Date(a, b, e) \in Dates
    BY DateIn
  <2>2. Date(a, b, e).year = a /\ Date(a, b, e).month = b /\ Date(a, b, e).day = e
    BY DEF Date
  <2> QED
    BY <2>1, <2>2, DateParts
<1>4. Next(c) = IF d < DaysInMonth(y, m) THEN Date(y, m, d + 1) ELSE IF m < 12 THEN Date(y, m + 1, 1) ELSE Date(y + 1, 1, 1)
  BY DEF Next
<1> HIDE DEF y, m, d
<1>5. CASE d < DaysInMonth(y, m)
  <2>1. d + 1 \in 1..31 /\ d + 1 <= DaysInMonth(y, m)
    BY <1>1, <1>2, <1>5
  <2>2. Next(c) = Date(y, m, d + 1)
    BY <1>4, <1>5
  <2>3. Date(y, m, d + 1) \in Dates /\ DayNumber(Date(y, m, d + 1)) = YearsBefore[y] + MonthStart(y, m) + (d + 1) - 1
    BY <2>1, <1>1, <1>3
  <2> QED
    BY <2>2, <2>3, <1>1
<1>6. CASE ~(d < DaysInMonth(y, m)) /\ m < 12
  <2>1. m + 1 \in 1..12 /\ m \in 1..11 /\ d = DaysInMonth(y, m)
    BY <1>1, <1>2, <1>6
  <2>2. 1 <= DaysInMonth(y, m + 1)
    <3>1. DaysInMonth(y, m + 1) \in 28..31
      BY <2>1, <1>1, Lengths
    <3> QED
      BY <3>1
  <2>3. Date(y, m + 1, 1) \in Dates /\ DayNumber(Date(y, m + 1, 1)) = YearsBefore[y] + MonthStart(y, m + 1) + 1 - 1
    BY <2>1, <2>2, <1>1, <1>3
  <2>4. MonthStart(y, m + 1) = MonthStart(y, m) + DaysInMonth(y, m)
    BY <2>1, <1>1, MonthsFollow
  <2> QED
    BY <2>1, <2>3, <2>4, <1>1, <1>4, <1>6
<1>7. CASE ~(d < DaysInMonth(y, m)) /\ m = 12
  <2>1. d = 31 /\ MonthStart(y, 12) + 31 = YearLength(y) /\ DaysInMonth(y, 12) = 31
    BY <1>1, <1>2, <1>7, MonthsFollow
  <2>2. y # LastYear
    BY <2>1, <1>1, <1>7
  <2>3. y + 1 \in Years
    BY <2>2, <1>1, CalendarYears DEF Years
  <2>4. DaysInMonth(y + 1, 1) \in 28..31 /\ MonthStart(y + 1, 1) = 0
    <3> DEFINE z == y + 1
    <3>1. z \in Int
      BY <1>1
    <3> HIDE DEF z
    <3>2. DaysInMonth(z, 1) \in 28..31
      BY <3>1, Lengths
    <3>3. MonthStart(z, 1) = 0
      BY <3>1, MonthStartsAre
    <3> QED
      BY <3>2, <3>3 DEF z
  <2>5. Date(y + 1, 1, 1) \in Dates /\ DayNumber(Date(y + 1, 1, 1)) = YearsBefore[y + 1] + MonthStart(y + 1, 1) + 1 - 1
    BY <2>3, <2>4, <1>3
  <2>6. YearsBefore[y + 1] = YearsBefore[y] + YearLength(y) /\ YearLength(y) \in Nat
    BY <1>1, YearsFollow, Lengths
  <2> QED
    BY <2>1, <2>4, <2>5, <2>6, <1>1, <1>4, <1>7
<1> QED
  BY <1>1, <1>5, <1>6, <1>7

\* Every number is that of a date.
LEMMA EveryNumberIsADate == \A n \in 0..LastDay : DateOfDay[n] \in Dates /\ DayNumber(DateOfDay[n]) = n
<1> DEFINE Found(n) == \E c \in Dates : DayNumber(c) = n
           Fails == {n \in 0..LastDay : ~Found(n)}
<1>1. \A n \in 0..LastDay : Found(n)
  <2> SUFFICES ASSUME NEW k \in 0..LastDay, ~Found(k) PROVE FALSE
    OBVIOUS
  <2>1. Fails # {} /\ Fails \subseteq Nat
    BY LastDayIs
  <2>2. PICK n \in Fails : \A x \in Fails : ~(<<x, n>> \in OpToRel(<, Nat))
    BY <2>1, WFMin, NatLessThanWellFounded
  <2>3. n \in 0..LastDay /\ n \in Nat /\ ~Found(n) /\ \A x \in 0..LastDay : x < n => Found(x)
    <3> HIDE DEF Found
    <3>1. \A x \in Fails : ~(x < n)
      <4> HIDE DEF Fails
      <4> QED
        BY <2>1, <2>2 DEF OpToRel
    <3> QED
      BY <2>1, <3>1
  <2>4. n # 0
    <3>1. FirstYear \in Years
      BY CalendarYears DEF Years
    <3>2. DaysInMonth(FirstYear, 1) \in 28..31
      BY CalendarYears, Lengths
    <3>3. Date(FirstYear, 1, 1) \in Dates
      BY <3>1, <3>2, DateIn
    <3>4. DayNumber(Date(FirstYear, 1, 1)) = 0
      BY <3>1, <3>3, DaysOfYear, YearsFollow
    <3> QED
      BY <2>3, <3>3, <3>4
  <2>5. n - 1 \in 0..LastDay /\ n - 1 < n
    BY <2>3, <2>4, LastDayIs
  <2>6. PICK c \in Dates : DayNumber(c) = n - 1
    BY <2>3, <2>5
  <2>7. c # Date(LastYear, 12, 31)
    <3>1. LastDay = DayNumber(Date(LastYear, 12, 31))
      BY DEF LastDay, Date
    <3> QED
      BY <3>1, <2>3, <2>6, LastDayIs
  <2>8. Next(c) \in Dates /\ DayNumber(Next(c)) = n
    BY <2>3, <2>6, <2>7, NextIs
  <2> QED
    BY <2>3, <2>8
<1> QED
  BY <1>1, DateOfNumber

\* A day more and a day less.
LEMMA DayAfter ==
  ASSUME NEW c \in Dates, c # Date(LastYear, 12, 31)
  PROVE  Next(c) \in Dates /\ AddDays(c, 1) = Next(c) /\ AddDays(Next(c), -1) = c
<1>1. Next(c) \in Dates /\ DayNumber(Next(c)) = DayNumber(c) + 1 /\ DayNumber(c) \in Nat
  BY NextIs, DateParts
<1>2. DayNumber(c) + 1 + -1 = DayNumber(c)
  BY <1>1
<1> QED
  BY <1>1, <1>2, DateOfNumber DEF AddDays

\* Days are counted forth and back.
LEMMA DaysLater ==
  ASSUME NEW c \in Dates, NEW n \in Int, DayNumber(c) + n \in 0..LastDay
  PROVE  AddDays(c, n) \in Dates /\ DayNumber(AddDays(c, n)) = DayNumber(c) + n
BY EveryNumberIsADate DEF AddDays
-----------------------------------------------------------------------------
(* Pay periods *)

\* The months beside one.
Prior(y, m) == IF m = 1 THEN [year |-> y - 1, month |-> 12] ELSE [year |-> y, month |-> m - 1]
After(y, m) == IF m = 12 THEN [year |-> y + 1, month |-> 1] ELSE [year |-> y, month |-> m + 1]

\* The period that ends on the fifth of a month, and the one that follows it.
Early(y, m) == Period([year |-> y, month |-> m], 1, On(Prior(y, m), 21), Date(y, m, 5))
Late(y, m) == Period([year |-> y, month |-> m], 2, Date(y, m, 6), Date(y, m, 20))

\* Adding a month to a date, or taking one away.
LEMMA MonthsBeside ==
  ASSUME NEW y \in Int, NEW m \in 1..12, NEW c, c.year = y, c.month = m
  PROVE  AddMonths(c, 1) = After(y, m) /\ AddMonths(c, -1) = Prior(y, m)
<1>1. /\ y * 12 + m - 1 + 1 = 12 * y + m /\ y * 12 + m - 1 + -1 = 12 * y + (m - 2)
  OBVIOUS
<1>2. CASE m = 12
  <2>1. (12 * y + m) \div 12 = y + 1 /\ (12 * y + m) % 12 = 0 /\ (12 * y + (m - 2)) \div 12 = y /\ (12 * y + (m - 2)) % 12 = 10
    BY <1>2
  <2> QED
    BY <1>1, <1>2, <2>1 DEF AddMonths, After, Prior
<1>3. CASE m = 1
  <2>1. (12 * y + m) \div 12 = y /\ (12 * y + m) % 12 = 1 /\ (12 * y + (m - 2)) \div 12 = y - 1 /\ (12 * y + (m - 2)) % 12 = 11
    BY <1>3
  <2> QED
    BY <1>1, <1>3, <2>1 DEF AddMonths, After, Prior
<1>4. CASE m \notin {1, 12}
  <2>1. (12 * y + m) \div 12 = y /\ (12 * y + m) % 12 = m /\ (12 * y + (m - 2)) \div 12 = y /\ (12 * y + (m - 2)) % 12 = m - 2
    BY <1>4
  <2> QED
    BY <1>1, <1>4, <2>1 DEF AddMonths, After, Prior
<1> QED
  BY <1>2, <1>3, <1>4

\* The month before the one after a month is that month, and the reverse.
LEMMA BesideEachOther ==
  ASSUME NEW y \in Int, NEW m \in 1..12
  PROVE  /\ LET a == After(y, m) IN a.year \in Int /\ a.month \in 1..12 /\ Prior(a.year, a.month) = [year |-> y, month |-> m]
         /\ LET b == Prior(y, m) IN b.year \in Int /\ b.month \in 1..12 /\ After(b.year, b.month) = [year |-> y, month |-> m]
BY DEF After, Prior

\* The period of a date, by its day.
LEMMA PeriodOfDate ==
  ASSUME NEW y \in Int, NEW m \in 1..12, NEW d \in 1..31
  PROVE  PayPeriodContaining(Date(y, m, d)) =
           IF d <= 5 THEN Early(y, m) ELSE IF d <= 20 THEN Late(y, m) ELSE Early(After(y, m).year, After(y, m).month)
<1> DEFINE c == Date(y, m, d)
<1>1. c.year = y /\ c.month = m /\ c.day = d
  BY DEF Date
<1>2. AddMonths(c, 1) = After(y, m) /\ AddMonths(c, -1) = Prior(y, m)
  BY <1>1, MonthsBeside
<1> HIDE DEF c
<1>3. \A day : On(c, day) = Date(y, m, day)
  BY <1>1 DEF On, Date
<1>4. Prior(After(y, m).year, After(y, m).month) = [year |-> y, month |-> m]
  BY BesideEachOther
<1>5. \A n, s, e : Period(c, n, s, e) = Period([year |-> y, month |-> m], n, s, e)
  BY <1>1 DEF Period
<1>6. CASE d <= 5
  <2>1. PayPeriodContaining(c) = Period(c, 1, On(AddMonths(c, -1), 21), On(c, 5))
    BY <1>1, <1>6 DEF PayPeriodContaining
  <2> QED
    BY <2>1, <1>2, <1>3, <1>5, <1>6 DEF Early, c
<1>7. CASE d > 5 /\ d <= 20
  <2>1. PayPeriodContaining(c) = Period(c, 2, On(c, 6), On(c, 20))
    BY <1>1, <1>7 DEF PayPeriodContaining
  <2> QED
    BY <2>1, <1>3, <1>5, <1>7 DEF Late, c
<1>8. CASE d > 20
  <2>1. PayPeriodContaining(c) = Period(AddMonths(c, 1), 1, On(c, 21), On(AddMonths(c, 1), 5))
    BY <1>1, <1>8 DEF PayPeriodContaining
  <2> DEFINE a == After(y, m)
  <2>2. Early(a.year, a.month) = Period([year |-> a.year, month |-> a.month], 1, On([year |-> y, month |-> m], 21), Date(a.year, a.month, 5))
    BY <1>4 DEF Early
  <2>3. On([year |-> y, month |-> m], 21) = Date(y, m, 21) /\ On(a, 5) = Date(a.year, a.month, 5)
    BY DEF On, Date
  <2>4. \A n, s, e : Period(a, n, s, e) = Period([year |-> a.year, month |-> a.month], n, s, e)
    BY DEF Period
  <2> HIDE DEF a
  <2>5. Period(AddMonths(c, 1), 1, On(c, 21), On(AddMonths(c, 1), 5)) = Early(a.year, a.month)
    BY <2>2, <2>3, <2>4, <1>2, <1>3 DEF a
  <2> QED
    BY <2>1, <2>5, <1>8 DEF a, c
<1> QED
  BY <1>6, <1>7, <1>8

\* The days from the first to the twenty-eighth of a month.
LEMMA DaysInside ==
  ASSUME NEW y \in Years, NEW m \in 1..12, NEW d \in 1..27
  PROVE  /\ Date(y, m, d) \in Dates /\ Date(y, m, d + 1) \in Dates
         /\ AddDays(Date(y, m, d), 1) = Date(y, m, d + 1) /\ AddDays(Date(y, m, d + 1), -1) = Date(y, m, d)
<1>1. y \in Int
  BY CalendarYears DEF Years
<1>2. DaysInMonth(y, m) \in 28..31
  BY <1>1, Lengths
<1>3. Date(y, m, d) \in Dates /\ Date(y, m, d + 1) \in Dates /\ d < DaysInMonth(y, m)
  BY <1>2, DateIn
<1> DEFINE c == Date(y, m, d)
<1>4. c.year = y /\ c.month = m /\ c.day = d
  BY DEF Date
<1>5. c # Date(LastYear, 12, 31)
  BY <1>4 DEF Date
<1>6. Next(c) = Date(y, m, d + 1)
  BY <1>3, <1>4 DEF Next
<1> HIDE DEF c
<1>7. AddDays(c, 1) = Next(c) /\ AddDays(Next(c), -1) = c
  BY <1>3, <1>5, DayAfter DEF c
<1> QED
  BY <1>3, <1>6, <1>7 DEF c

\* The periods beside one.
LEMMA PeriodsBeside ==
  ASSUME NEW y \in Years, NEW m \in 1..12, Prior(y, m).year \in Years
  PROVE  /\ NextPayPeriod(Late(y, m)) = Early(After(y, m).year, After(y, m).month)
         /\ PreviousPayPeriod(Late(y, m)) = Early(y, m)
         /\ NextPayPeriod(Early(y, m)) = Late(y, m)
         /\ PreviousPayPeriod(Early(y, m)) = Late(Prior(y, m).year, Prior(y, m).month)
         /\ AddDays(Early(y, m).end, 1) = Late(y, m).start
         /\ AddDays(Late(y, m).end, 1) = Early(After(y, m).year, After(y, m).month).start
         /\ AddDays(Late(Prior(y, m).year, Prior(y, m).month).end, 1) = Early(y, m).start
<1> DEFINE b == Prior(y, m)  a == After(y, m)
<1>1. y \in Int /\ b.year \in Int /\ b.month \in 1..12 /\ b.year \in Years
  BY CalendarYears DEF Years, Prior
<1>2. Prior(a.year, a.month) = [year |-> y, month |-> m]
  BY <1>1, BesideEachOther
<1>3. /\ Early(y, m).start = Date(b.year, b.month, 21) /\ Early(y, m).end = Date(y, m, 5)
      /\ Late(y, m).start = Date(y, m, 6) /\ Late(y, m).end = Date(y, m, 20)
      /\ Late(b.year, b.month).end = Date(b.year, b.month, 20)
  BY DEF Early, Late, Period, On, Date
<1>4. Early(a.year, a.month).start = Date(y, m, 21)
  BY <1>2 DEF Early, Period, On, Date
<1>5. /\ AddDays(Date(y, m, 5), 1) = Date(y, m, 6) /\ AddDays(Date(y, m, 6), -1) = Date(y, m, 5)
      /\ AddDays(Date(y, m, 20), 1) = Date(y, m, 21)
  BY DaysInside
<1> HIDE DEF b, a
<1>6. AddDays(Date(b.year, b.month, 21), -1) = Date(b.year, b.month, 20) /\ AddDays(Date(b.year, b.month, 20), 1) = Date(b.year, b.month, 21)
  BY <1>1, DaysInside
<1>7. /\ PayPeriodContaining(Date(y, m, 6)) = Late(y, m) /\ PayPeriodContaining(Date(y, m, 5)) = Early(y, m)
      /\ PayPeriodContaining(Date(y, m, 21)) = Early(a.year, a.month)
  <2>1. \A d \in 1..31 : PayPeriodContaining(Date(y, m, d)) =
           IF d <= 5 THEN Early(y, m) ELSE IF d <= 20 THEN Late(y, m) ELSE Early(After(y, m).year, After(y, m).month)
    BY <1>1, PeriodOfDate
  <2>2. 6 \in 1..31 /\ 5 \in 1..31 /\ 21 \in 1..31 /\ ~(6 <= 5) /\ 6 <= 20 /\ 5 <= 5 /\ ~(21 <= 5) /\ ~(21 <= 20)
    OBVIOUS
  <2> QED
    BY <2>1, <2>2 DEF a
<1>8. PayPeriodContaining(Date(b.year, b.month, 20)) = Late(b.year, b.month)
  <2>1. \A d \in 1..31 : PayPeriodContaining(Date(b.year, b.month, d)) =
           IF d <= 5 THEN Early(b.year, b.month) ELSE IF d <= 20 THEN Late(b.year, b.month)
           ELSE Early(After(b.year, b.month).year, After(b.year, b.month).month)
    BY <1>1, PeriodOfDate
  <2>2. 20 \in 1..31 /\ ~(20 <= 5) /\ 20 <= 20
    OBVIOUS
  <2> QED
    BY <2>1, <2>2
<1> QED
  BY <1>3, <1>4, <1>5, <1>6, <1>7, <1>8 DEF NextPayPeriod, PreviousPayPeriod, a, b

\* There is room after the first month of the last year.
LEMMA RoomAfter == ASSUME NEW c \in Dates, c.year = LastYear => c.month = 1 PROVE DayNumber(c) + 300 <= LastDay
<1>1. LastYear \in Years /\ LastYear \in Int
  BY CalendarYears DEF Years
<1>2. LastDay = YearsBefore[LastYear] + MonthStart(LastYear, 12) + 31 - 1 /\ YearsBefore[LastYear] \in Nat
  <2> DEFINE z == Date(LastYear, 12, 31)
  <2>1. z.year = LastYear /\ z.month = 12 /\ z.day = 31 /\ LastDay = DayNumber(z)
    BY DEF LastDay, Date
  <2>2. DaysInMonth(LastYear, 12) = 31
    BY <1>1, MonthsFollow
  <2>3. z \in Dates
    BY <1>1, <2>2, DateIn
  <2> HIDE DEF z
  <2> QED
    BY <2>1, <2>3, DateParts
<1>3. MonthStart(LastYear, 12) >= 334 /\ MonthStart(LastYear, 12) \in Nat /\ MonthStart(LastYear, 1) = 0
  <2>1. MonthStart(LastYear, 12) = 334 + (IF IsLeap(LastYear) THEN 1 ELSE 0) /\ MonthStart(LastYear, 1) = 0
    BY <1>1, MonthStartsAre
  <2> QED
    BY <2>1
<1>4. /\ c.year \in Years /\ c.year \in Int /\ c.day \in 1..31 /\ c.month \in 1..12 /\ c.day <= DaysInMonth(c.year, c.month)
      /\ DayNumber(c) = YearsBefore[c.year] + MonthStart(c.year, c.month) + c.day - 1
      /\ YearsBefore[c.year] \in Nat /\ MonthStart(c.year, c.month) \in Nat
      /\ MonthStart(c.year, c.month) + DaysInMonth(c.year, c.month) <= YearLength(c.year)
  BY DateParts
<1>5. YearLength(c.year) \in Nat /\ DaysInMonth(c.year, c.month) \in 28..31
  BY <1>4, Lengths
<1>6. CASE c.year = LastYear
  BY <1>2, <1>3, <1>4, <1>6
<1>7. CASE c.year # LastYear
  <2>1. c.year < LastYear /\ LastYear \in FirstYear..(LastYear + 1)
    BY <1>1, <1>4, <1>7, CalendarYears DEF Years
  <2>2. YearsBefore[c.year] + YearLength(c.year) <= YearsBefore[LastYear]
    BY <2>1, <1>4, YearsAscend
  <2>3. DayNumber(c) < YearsBefore[LastYear]
    BY <2>2, <1>2, <1>4, <1>5
  <2> QED
    BY <2>3, <1>2, <1>3, DateParts
<1> QED
  BY <1>6, <1>7

\* The days of a period are those between its ends.
LEMMA DaysAre ==
  ASSUME NEW p, p.start \in Dates, p.end \in Dates, p.start.year = LastYear => p.start.month = 1
  PROVE  /\ \A c \in Days(p) : c \in Dates /\ ~Precedes(c, p.start) /\ ~Precedes(p.end, c)
         /\ \A c \in Dates : DayNumber(c) - DayNumber(p.start) \in 0..40 /\ ~Precedes(p.end, c) => c \in Days(p)
<1> DEFINE s == p.start  e == p.end
<1>1. DayNumber(s) \in Nat /\ DayNumber(e) \in Nat /\ DayNumber(s) + 300 <= LastDay /\ LastDay \in Nat
  BY RoomAfter, DateParts, LastDayIs
<1>2. \A n \in 0..40 : AddDays(s, n) \in Dates /\ DayNumber(AddDays(s, n)) = DayNumber(s) + n
  <2> SUFFICES ASSUME NEW n \in 0..40 PROVE AddDays(s, n) \in Dates /\ DayNumber(AddDays(s, n)) = DayNumber(s) + n
    OBVIOUS
  <2>1. n \in Int /\ DayNumber(s) + n \in 0..LastDay
    BY <1>1
  <2> QED
    BY <2>1, DaysLater
<1> HIDE DEF s, e
<1>3. s \in Dates /\ e \in Dates /\ Days(p) = {c \in {AddDays(s, n) : n \in 0..40} : ~Earlier(e, c)}
  BY DEF Days, s, e
<1>4. ASSUME NEW c \in Days(p) PROVE c \in Dates /\ ~Precedes(c, s) /\ ~Precedes(e, c)
  <2> PICK n \in 0..40 : c = AddDays(s, n)
    BY <1>3
  <2>1. c \in Dates /\ DayNumber(c) = DayNumber(s) + n /\ ~Earlier(e, c)
    BY <1>2, <1>3
  <2>2. ~(DayNumber(c) < DayNumber(s)) /\ ~(DayNumber(e) < DayNumber(c))
    BY <1>1, <2>1 DEF Earlier
  <2> QED
    BY <1>3, <2>1, <2>2, DatesAscend
<1>5. ASSUME NEW c \in Dates, DayNumber(c) - DayNumber(s) \in 0..40, ~Precedes(e, c) PROVE c \in Days(p)
  <2> DEFINE n == DayNumber(c) - DayNumber(s)
  <2>1. DayNumber(c) \in Nat
    BY DateParts
  <2>2. DayNumber(s) + n = DayNumber(c) /\ n \in 0..40
    BY <1>1, <1>5, <2>1
  <2> HIDE DEF n
  <2>3. c = AddDays(s, n)
    BY <2>2, DateOfNumber DEF AddDays
  <2>4. ~Earlier(e, c)
    BY <1>3, <1>5, DatesAscend DEF Earlier
  <2> QED
    BY <1>3, <2>2, <2>3, <2>4
<1> QED
  BY <1>4, <1>5 DEF s, e

\* The days of a period lead to it.
LEMMA LateDays ==
  ASSUME NEW y \in Years, NEW m \in 1..12, y = LastYear => m = 1
  PROVE  \A c \in Days(Late(y, m)) : PayPeriodContaining(c) = Late(y, m)
<1> DEFINE p == Late(y, m)
<1>1. p.start = Date(y, m, 6) /\ p.end = Date(y, m, 20)
  BY DEF Late, Period
<1>2. Date(y, m, 6) \in Dates /\ Date(y, m, 20) \in Dates
  BY DaysInside
<1>3. Date(y, m, 6).year = y /\ Date(y, m, 6).month = m /\ Date(y, m, 6).day = 6
      /\ Date(y, m, 20).year = y /\ Date(y, m, 20).month = m /\ Date(y, m, 20).day = 20
  BY DEF Date
<1> HIDE DEF p
<1> SUFFICES ASSUME NEW c \in Days(p) PROVE PayPeriodContaining(c) = p
  BY DEF p
<1>4. c \in Dates /\ ~Precedes(c, Date(y, m, 6)) /\ ~Precedes(Date(y, m, 20), c)
  BY <1>1, <1>2, <1>3, DaysAre
<1>5. c.year \in Int /\ c.month \in 1..12 /\ c.day \in 1..31 /\ c = Date(c.year, c.month, c.day) /\ y \in Int
  BY <1>4, DateParts, CalendarYears DEF Years
<1>6. c.year = y /\ c.month = m /\ c.day >= 6 /\ c.day <= 20
  BY <1>3, <1>4, <1>5 DEF Precedes
<1>7. \A d \in 1..31 : PayPeriodContaining(Date(y, m, d)) =
        IF d <= 5 THEN Early(y, m) ELSE IF d <= 20 THEN Late(y, m) ELSE Early(After(y, m).year, After(y, m).month)
  BY <1>5, PeriodOfDate
<1>8. c = Date(y, m, c.day) /\ ~(c.day <= 5) /\ c.day <= 20
  BY <1>5, <1>6
<1>9. PayPeriodContaining(Date(y, m, c.day)) = Late(y, m)
  BY <1>5, <1>7, <1>8
<1> QED
  BY <1>8, <1>9 DEF p

\* So do those of a period that spans two months.
LEMMA EarlyDays ==
  ASSUME NEW y \in Years, NEW m \in 1..12, Prior(y, m).year \in Years, y = LastYear => m \in {1, 2}
  PROVE  \A c \in Days(Early(y, m)) : PayPeriodContaining(c) = Early(y, m)
<1> DEFINE p == Early(y, m)  b == Prior(y, m)
<1>0. y \in Int /\ LastYear \in Int /\ y <= LastYear
  BY CalendarYears DEF Years
<1>1. /\ b.year \in Years /\ b.month \in 1..12 /\ b.year \in Int
      /\ After(b.year, b.month) = [year |-> y, month |-> m]
      /\ (b.year = y /\ b.month = m - 1) \/ (b.year = y - 1 /\ b.month = 12 /\ m = 1)
      /\ (b.year = LastYear) => (b.month = 1)
  <2>1. After(b.year, b.month) = [year |-> y, month |-> m]
    BY <1>0, BesideEachOther
  <2>2. CASE m = 1
    <3>1. b = [year |-> y - 1, month |-> 12]
      BY <2>2 DEF Prior
    <3> QED
      BY <3>1, <2>1, <2>2, <1>0
  <2>3. CASE m # 1
    <3>1. b = [year |-> y, month |-> m - 1]
      BY <2>3 DEF Prior
    <3>2. (m - 1) \in 1..12 /\ ((y = LastYear) => (m - 1 = 1))
      BY <2>3, <1>0
    <3>3. b.year = y /\ b.month = m - 1
      BY <3>1
    <3> HIDE DEF b
    <3> QED
      BY <3>2, <3>3, <2>1, <1>0
  <2> QED
    BY <2>2, <2>3
<1>2. p.start = Date(b.year, b.month, 21) /\ p.end = Date(y, m, 5)
  BY DEF Early, Period, On, Date
<1> HIDE DEF p, b
<1>3. Date(b.year, b.month, 21) \in Dates /\ Date(y, m, 5) \in Dates
  BY <1>1, DaysInside
<1>4. Date(b.year, b.month, 21).year = b.year /\ Date(b.year, b.month, 21).month = b.month /\ Date(b.year, b.month, 21).day = 21
      /\ Date(y, m, 5).year = y /\ Date(y, m, 5).month = m /\ Date(y, m, 5).day = 5
  BY DEF Date
<1> SUFFICES ASSUME NEW c \in Days(p) PROVE PayPeriodContaining(c) = p
  BY DEF p
<1>5. c \in Dates /\ ~Precedes(c, Date(b.year, b.month, 21)) /\ ~Precedes(Date(y, m, 5), c)
  BY <1>1, <1>2, <1>3, <1>4, DaysAre
<1>6. c.year \in Int /\ c.month \in 1..12 /\ c.day \in 1..31 /\ c = Date(c.year, c.month, c.day)
  BY <1>5, DateParts
<1>7. (c.year = b.year /\ c.month = b.month /\ c.day > 20) \/ (c.year = y /\ c.month = m /\ c.day <= 5)
  BY <1>0, <1>1, <1>4, <1>5, <1>6 DEF Precedes
<1>8. CASE c.year = b.year /\ c.month = b.month /\ c.day > 20
  <2>1. \A d \in 1..31 : PayPeriodContaining(Date(b.year, b.month, d)) =
          IF d <= 5 THEN Early(b.year, b.month) ELSE IF d <= 20 THEN Late(b.year, b.month)
          ELSE Early(After(b.year, b.month).year, After(b.year, b.month).month)
    BY <1>1, PeriodOfDate
  <2>2. After(b.year, b.month).year = y /\ After(b.year, b.month).month = m
    BY <1>1
  <2>3. c = Date(b.year, b.month, c.day) /\ ~(c.day <= 5) /\ ~(c.day <= 20)
    BY <1>6, <1>8
  <2>4. PayPeriodContaining(Date(b.year, b.month, c.day)) = Early(After(b.year, b.month).year, After(b.year, b.month).month)
    BY <2>1, <2>3, <1>6
  <2> QED
    BY <2>2, <2>3, <2>4 DEF p
<1>9. CASE c.year = y /\ c.month = m /\ c.day <= 5
  <2>1. \A d \in 1..31 : PayPeriodContaining(Date(y, m, d)) =
          IF d <= 5 THEN Early(y, m) ELSE IF d <= 20 THEN Late(y, m) ELSE Early(After(y, m).year, After(y, m).month)
    BY <1>0, PeriodOfDate
  <2>2. c = Date(y, m, c.day)
    BY <1>6, <1>9
  <2>3. PayPeriodContaining(Date(y, m, c.day)) = Early(y, m)
    BY <2>1, <1>6, <1>9
  <2> QED
    BY <2>2, <2>3 DEF p
<1> QED
  BY <1>7, <1>8, <1>9

\* What is said of a period: its neighbours, its days and its key.
Tiles(p) ==
  /\ NextPayPeriod(PreviousPayPeriod(p)) = p /\ PreviousPayPeriod(NextPayPeriod(p)) = p
  /\ AddDays(PreviousPayPeriod(p).end, 1) = p.start /\ AddDays(p.end, 1) = NextPayPeriod(p).start
  /\ \A c \in Days(p) : PayPeriodContaining(c) = p
  /\ \A c \in Days(PreviousPayPeriod(p)) \cup Days(NextPayPeriod(p)) : PayPeriodContaining(c) # p
  /\ PayPeriodFromKey(p.payYear, p.payMonth, p.number) = p
  /\ p.payYear = p.end.year /\ p.payMonth = p.end.month

\* Both periods of a month have their place.
LEMMA PeriodsTile ==
  ASSUME NEW y \in Years, NEW m \in 1..12, Prior(y, m).year \in Years, y = LastYear => m = 1
  PROVE  Tiles(Early(y, m)) /\ Tiles(Late(y, m))
<1> DEFINE E == Early(y, m)  L == Late(y, m)  b == Prior(y, m)  a == After(y, m)
           B == Late(b.year, b.month)  A == Early(a.year, a.month)
<1>0. y \in Int /\ FirstYear \in Int /\ LastYear \in Int /\ FirstYear <= y /\ y <= LastYear
  BY CalendarYears DEF Years
<1>1. /\ b.year \in Years /\ b.month \in 1..12 /\ b.year \in Int
      /\ After(b.year, b.month) = [year |-> y, month |-> m]
      /\ b.year # LastYear
  <2>1. After(b.year, b.month) = [year |-> y, month |-> m]
    BY <1>0, BesideEachOther
  <2>2. CASE m = 1
    <3>1. b = [year |-> y - 1, month |-> 12]
      BY <2>2 DEF Prior
    <3> QED
      BY <3>1, <2>1, <2>2, <1>0
  <2>3. CASE m # 1
    <3>1. b = [year |-> y, month |-> m - 1]
      BY <2>3 DEF Prior
    <3>2. (m - 1) \in 1..12 /\ y # LastYear /\ y \in Years
      BY <2>3, <1>0
    <3>3. b.year = y /\ b.month = m - 1
      BY <3>1
    <3> HIDE DEF b
    <3> QED
      BY <3>2, <3>3, <2>1, <1>0
  <2> QED
    BY <2>2, <2>3
<1>2. /\ a.year \in Years /\ a.month \in 1..12 /\ Prior(a.year, a.month) = [year |-> y, month |-> m]
      /\ (a.year = LastYear) => (a.month \in {1, 2})
  <2>1. Prior(a.year, a.month) = [year |-> y, month |-> m]
    BY <1>0, BesideEachOther
  <2>2. CASE m = 12
    <3>1. a = [year |-> y + 1, month |-> 1]
      BY <2>2 DEF After
    <3>2. y + 1 \in Years
      BY <2>2, <1>0 DEF Years
    <3> QED
      BY <3>1, <3>2, <2>1
  <2>3. CASE m # 12
    <3>1. a = [year |-> y, month |-> m + 1]
      BY <2>3 DEF After
    <3>2. (m + 1) \in 1..12 /\ ((y = LastYear) => (m + 1 \in {1, 2}))
      BY <2>3, <1>0
    <3>3. a.year = y /\ a.month = m + 1
      BY <3>1
    <3> HIDE DEF a
    <3> QED
      BY <3>2, <3>3, <2>1
  <2> QED
    BY <2>2, <2>3
<1>3. /\ NextPayPeriod(L) = A /\ PreviousPayPeriod(L) = E /\ NextPayPeriod(E) = L /\ PreviousPayPeriod(E) = B
      /\ AddDays(E.end, 1) = L.start /\ AddDays(L.end, 1) = A.start /\ AddDays(B.end, 1) = E.start
  BY PeriodsBeside
<1>4. NextPayPeriod(B) = E
  <2>1. CASE Prior(b.year, b.month).year \in Years
    BY <2>1, <1>1, PeriodsBeside
  <2>2. CASE Prior(b.year, b.month).year \notin Years
    <3>1. B.end = Date(b.year, b.month, 20) /\ AddDays(Date(b.year, b.month, 20), 1) = Date(b.year, b.month, 21)
      <4>1. B.end = Date(b.year, b.month, 20)
        BY DEF Late, Period
      <4> HIDE DEF b, B
      <4> QED
        BY <4>1, <1>1, DaysInside
    <3>2. PayPeriodContaining(Date(b.year, b.month, 21)) = Early(After(b.year, b.month).year, After(b.year, b.month).month)
      <4> HIDE DEF b
      <4>1. \A d \in 1..31 : PayPeriodContaining(Date(b.year, b.month, d)) =
              IF d <= 5 THEN Early(b.year, b.month) ELSE IF d <= 20 THEN Late(b.year, b.month)
              ELSE Early(After(b.year, b.month).year, After(b.year, b.month).month)
        BY <1>1, PeriodOfDate
      <4>2. 21 \in 1..31 /\ ~(21 <= 5) /\ ~(21 <= 20)
        OBVIOUS
      <4> QED
        BY <4>1, <4>2
    <3> QED
      BY <3>1, <3>2, <1>1 DEF NextPayPeriod
  <2> QED
    BY <2>1, <2>2
<1>5. PreviousPayPeriod(A) = L
  BY <1>2, PeriodsBeside
<1>6. /\ \A c \in Days(E) : PayPeriodContaining(c) = E
      /\ \A c \in Days(L) : PayPeriodContaining(c) = L
  BY EarlyDays, LateDays
<1>7. \A c \in Days(B) : PayPeriodContaining(c) = B
  BY <1>1, LateDays
<1>8. \A c \in Days(A) : PayPeriodContaining(c) = A
  BY <1>2, EarlyDays
<1>9. /\ E.number = 1 /\ A.number = 1 /\ L.number = 2 /\ B.number = 2
      /\ E.payYear = y /\ E.payMonth = m /\ L.payYear = y /\ L.payMonth = m
      /\ E.end.year = y /\ E.end.month = m /\ L.end.year = y /\ L.end.month = m
  BY DEF Early, Late, Period, Date
<1>10. PayPeriodFromKey(y, m, 1) = E /\ PayPeriodFromKey(y, m, 2) = L
  <2>1. \A d \in 1..31 : PayPeriodContaining(Date(y, m, d)) = IF d <= 5 THEN E ELSE IF d <= 20 THEN L ELSE A
    BY <1>0, PeriodOfDate
  <2>2. PayPeriodFromKey(y, m, 1) = PayPeriodContaining(Date(y, m, 1)) /\ PayPeriodFromKey(y, m, 2) = PayPeriodContaining(Date(y, m, 10))
    BY DEF PayPeriodFromKey, Date
  <2>3. 1 \in 1..31 /\ 10 \in 1..31 /\ 1 <= 5 /\ ~(10 <= 5) /\ 10 <= 20
    OBVIOUS
  <2> HIDE DEF E, L, A
  <2> QED
    BY <2>1, <2>2, <2>3
<1> HIDE DEF E, L, A, B
<1>11. Tiles(E)
  BY <1>3, <1>4, <1>6, <1>7, <1>9, <1>10 DEF Tiles
<1>12. Tiles(L)
  BY <1>3, <1>5, <1>6, <1>8, <1>9, <1>10 DEF Tiles
<1> QED
  BY <1>11, <1>12 DEF E, L

\* ---- every day of the calendar
CalendarInv ==
  /\ today \in Dates /\ today.year >= FirstYear + 2
  /\ (today.year = LastYear) => (today.month = 1 /\ today.day = 1)

\* The calendar begins in its third year and moves day by day.
LEMMA CalendarStarts == ASSUME CalendarInit PROVE CalendarInv
<1> DEFINE y == FirstYear + 2
<1>1. y \in Years /\ y \in Int
  BY CalendarYears DEF Years
<1>2. today = Date(y, 1, 1)
  BY DEF CalendarInit, Date
<1>3. DaysInMonth(y, 1) \in 28..31
  BY <1>1, Lengths
<1> HIDE DEF y
<1>4. today \in Dates
  BY <1>1, <1>2, <1>3, DateIn
<1>5. today.year = y /\ today.month = 1 /\ today.day = 1
  BY <1>2 DEF Date
<1> QED
  BY <1>1, <1>4, <1>5 DEF CalendarInv, y

LEMMA CalendarStep == CalendarInv /\ [CalendarNext]_today => CalendarInv'
<1> SUFFICES ASSUME CalendarInv, [CalendarNext]_today PROVE CalendarInv'
  OBVIOUS
<1>1. CASE UNCHANGED today
  BY <1>1 DEF CalendarInv, Dates, Years, DaysInMonth, IsLeap
<1>2. CASE CalendarNext
  <2>1. today.year < LastYear /\ today' = AddDays(today, 1) /\ today \in Dates /\ today.year >= FirstYear + 2
    BY <1>2 DEF CalendarNext, DayPasses, CalendarInv
  <2>2. Date(LastYear, 12, 31).year = LastYear
    BY DEF Date
  <2>3. today # Date(LastYear, 12, 31) /\ today.year \in Int /\ FirstYear \in Int /\ LastYear \in Int
    BY <2>1, <2>2, DateParts, CalendarYears
  <2>4. today' = Next(today) /\ Next(today) \in Dates
    BY <2>1, <2>3, DayAfter
  <2>5. \/ Next(today).year = today.year
        \/ Next(today).year = today.year + 1 /\ Next(today).month = 1 /\ Next(today).day = 1
    BY <2>3 DEF Next, Date
  <2>6. /\ today' \in Dates /\ today'.year >= FirstYear + 2
        /\ (today'.year = LastYear) => (today'.month = 1 /\ today'.day = 1)
    BY <2>1, <2>3, <2>4, <2>5
  <2> QED
    BY <2>6 DEF CalendarInv, Dates, Years, DaysInMonth, IsLeap
<1> QED
  BY <1>1, <1>2

\* Where a day's number lies in its year, and how many days came before the year.
LEMMA NumberInYear ==
  ASSUME NEW c \in Dates
  PROVE  /\ YearsBefore[c.year] <= DayNumber(c) /\ DayNumber(c) < YearsBefore[c.year] + YearLength(c.year)
         /\ YearsBefore[c.year] \in Nat /\ YearLength(c.year) \in 365..366
         /\ c.year >= FirstYear + 1 => YearsBefore[c.year] >= 365
         /\ c.year >= FirstYear + 2 => YearsBefore[c.year] >= 730
<1>1. /\ c.year \in Years /\ c.year \in Int /\ c.day \in 1..31 /\ c.day <= DaysInMonth(c.year, c.month)
      /\ DayNumber(c) = YearsBefore[c.year] + MonthStart(c.year, c.month) + c.day - 1
      /\ YearsBefore[c.year] \in Nat /\ MonthStart(c.year, c.month) \in Nat
      /\ MonthStart(c.year, c.month) + DaysInMonth(c.year, c.month) <= YearLength(c.year) /\ c.month \in 1..12
  BY DateParts
<1>2. DaysInMonth(c.year, c.month) \in 28..31
  BY <1>1, Lengths
<1>3. \A y : YearLength(y) \in 365..366
  BY DEF YearLength
<1>4. c.year \in FirstYear..(LastYear + 1) /\ FirstYear \in Int /\ LastYear \in Int /\ FirstYear \in Years
  BY <1>1, CalendarYears DEF Years
<1>5. YearsBefore[FirstYear] = 0
  BY YearsFollow
<1> DEFINE s == FirstYear + 1
<1>6. s \in Years /\ s \in FirstYear..(LastYear + 1) /\ FirstYear < s /\ s = FirstYear + 1
  BY CalendarYears DEF Years
<1> HIDE DEF s
<1>7. YearsBefore[FirstYear] + YearLength(FirstYear) <= YearsBefore[s] /\ YearsBefore[s] \in Nat
  BY <1>4, <1>6, YearsAscend, YearsFollow
<1>8. YearsBefore[s] >= 365
  BY <1>3, <1>5, <1>7
<1>9. c.year > s => YearsBefore[s] + YearLength(s) <= YearsBefore[c.year]
  BY <1>4, <1>6, YearsAscend
<1>10. c.year >= FirstYear + 1 => YearsBefore[c.year] >= 365
  <2>1. CASE c.year = s
    BY <2>1, <1>8
  <2>2. CASE c.year > s
    <3>1. YearLength(s) \in 365..366
      BY <1>3
    <3> QED
      BY <2>2, <3>1, <1>8, <1>9, <1>7, <1>1
  <2> QED
    BY <2>1, <2>2, <1>1, <1>4, <1>6
<1>11. c.year >= FirstYear + 2 => YearsBefore[c.year] >= 730
  <2>1. YearLength(s) \in 365..366
    BY <1>3
  <2> QED
    BY <2>1, <1>8, <1>9, <1>7, <1>1, <1>4, <1>6
<1>12. YearsBefore[c.year] <= DayNumber(c) /\ DayNumber(c) < YearsBefore[c.year] + YearLength(c.year)
  <2>1. YearLength(c.year) \in 365..366
    BY <1>3
  <2> QED
    BY <2>1, <1>1, <1>2
<1> QED
  BY <1>1, <1>3, <1>10, <1>11, <1>12

\* The last day of a period is one of its own.
LEMMA PeriodEnds ==
  ASSUME NEW y \in Int, NEW m \in 1..12
  PROVE  PayPeriodContaining(Early(y, m).end) = Early(y, m) /\ PayPeriodContaining(Late(y, m).end) = Late(y, m)
<1>1. Early(y, m).end = Date(y, m, 5) /\ Late(y, m).end = Date(y, m, 20)
  BY DEF Early, Late, Period
<1>2. \A d \in 1..31 : PayPeriodContaining(Date(y, m, d)) =
        IF d <= 5 THEN Early(y, m) ELSE IF d <= 20 THEN Late(y, m) ELSE Early(After(y, m).year, After(y, m).month)
  BY PeriodOfDate
<1>3. 5 \in 1..31 /\ 20 \in 1..31 /\ 5 <= 5 /\ ~(20 <= 5) /\ 20 <= 20
  OBVIOUS
<1> QED
  BY <1>1, <1>2, <1>3

\* The fifth month's end follows the month before by its length.
LEMMA DaysAcross ==
  ASSUME NEW y \in Years, NEW m \in 1..12, NEW d \in 1..5, Prior(y, m).year \in Years
  PROVE  DayNumber(Date(y, m, d)) - DayNumber(Date(Prior(y, m).year, Prior(y, m).month, 21)) \in 0..40
<1> DEFINE b == Prior(y, m)  s == Date(b.year, b.month, 21)  c == Date(y, m, d)
<1>1. y \in Int /\ b.year \in Int /\ b.month \in 1..12 /\ b.year \in Years
  BY CalendarYears DEF Years, Prior
<1>2. DaysInMonth(y, m) \in 28..31 /\ DaysInMonth(b.year, b.month) \in 28..31
  BY <1>1, Lengths
<1> HIDE DEF b
<1>3. s \in Dates /\ c \in Dates
  <2>1. d \in 1..31 /\ d <= DaysInMonth(y, m)
    BY <1>2
  <2>2. 21 \in 1..31 /\ 21 <= DaysInMonth(b.year, b.month)
    BY <1>2
  <2> QED
    BY <1>1, <2>1, <2>2, DateIn
<1>4. s.year = b.year /\ s.month = b.month /\ s.day = 21 /\ c.year = y /\ c.month = m /\ c.day = d
  BY DEF Date
<1> HIDE DEF s, c
<1>5. DayNumber(s) = YearsBefore[b.year] + MonthStart(b.year, b.month) + 21 - 1 /\ YearsBefore[b.year] \in Nat /\ MonthStart(b.year, b.month) \in Nat
  BY <1>3, <1>4, DateParts
<1>6. DayNumber(c) = YearsBefore[y] + MonthStart(y, m) + d - 1 /\ YearsBefore[y] \in Nat /\ MonthStart(y, m) \in Nat
  BY <1>3, <1>4, DateParts
<1>7. CASE m = 1
  <2>1. b = [year |-> y - 1, month |-> 12]
    BY <1>7 DEF Prior, b
  <2>2. b.year = y - 1 /\ b.month = 12
    BY <2>1
  <2>3. \A z \in Years : YearsBefore[z + 1] = YearsBefore[z] + YearLength(z)
    BY YearsFollow
  <2>4. YearsBefore[y] = YearsBefore[b.year] + YearLength(b.year)
    <3>1. b.year + 1 = y
      BY <1>1, <2>2
    <3> QED
      BY <1>1, <2>3, <3>1
  <2>5. MonthStart(b.year, 12) + 31 = YearLength(b.year)
    BY <1>1, MonthsFollow
  <2>6. MonthStart(y, 1) = 0
    BY <1>1, MonthsFollow
  <2>7. YearLength(b.year) \in Nat
    BY <1>1, Lengths
  <2>8. DayNumber(c) - DayNumber(s) = d + 10
    BY <1>5, <1>6, <1>7, <2>2, <2>4, <2>5, <2>6, <2>7
  <2> QED
    BY <2>8 DEF s, c, b
<1>8. CASE m # 1
  <2>1. b = [year |-> y, month |-> m - 1]
    BY <1>8 DEF Prior, b
  <2>2. b.year = y /\ b.month = m - 1 /\ b.month \in 1..11 /\ b.month + 1 = m
    BY <2>1, <1>8, <1>1
  <2>3. \A k \in 1..11 : MonthStart(y, k + 1) = MonthStart(y, k) + DaysInMonth(y, k)
    BY <1>1, MonthsFollow
  <2>4. MonthStart(y, m) = MonthStart(y, b.month) + DaysInMonth(y, b.month)
    BY <2>2, <2>3
  <2>5. DayNumber(c) - DayNumber(s) = DaysInMonth(b.year, b.month) + d - 21
    BY <1>2, <1>5, <1>6, <2>2, <2>4
  <2>6. DayNumber(c) - DayNumber(s) \in 0..40
    BY <2>5, <1>2
  <2> QED
    BY <2>6 DEF s, c, b
<1> QED
  BY <1>7, <1>8

\* A date is one of the days of its period, and its period has its place.
LEMMA InItsPeriod ==
  ASSUME CalendarInv
  PROVE  today \in Days(PayPeriodContaining(today)) /\ Tiles(PayPeriodContaining(today))
<1> DEFINE y == today.year  m == today.month  d == today.day  a == After(y, m)  b == Prior(y, m)
<1>1. /\ y \in Years /\ y \in Int /\ m \in 1..12 /\ d \in 1..31 /\ d <= DaysInMonth(y, m) /\ today = Date(y, m, d)
      /\ today \in Dates
      /\ DayNumber(today) = YearsBefore[y] + MonthStart(y, m) + d - 1 /\ YearsBefore[y] \in Nat /\ MonthStart(y, m) \in Nat
  BY DateParts DEF CalendarInv
<1>2. FirstYear \in Int /\ LastYear \in Int /\ y >= FirstYear + 2 /\ y <= LastYear /\ ((y = LastYear) => (m = 1 /\ d = 1))
  BY CalendarYears DEF CalendarInv, Years, Dates
<1> HIDE DEF y, m, d
<1>3. b.year \in Years /\ b.year \in Int /\ b.month \in 1..12 /\ b.year # LastYear
  <2>1. CASE m = 1
    <3>1. b = [year |-> y - 1, month |-> 12] /\ y - 1 \in Years /\ y - 1 # LastYear
      BY <2>1, <1>1, <1>2 DEF Prior, Years
    <3> QED
      BY <3>1, <1>1, <1>2
  <2>2. CASE m # 1
    <3>1. b = [year |-> y, month |-> m - 1] /\ m - 1 \in 1..12 /\ y # LastYear
      BY <2>2, <1>1, <1>2 DEF Prior
    <3> QED
      BY <3>1, <1>1, <1>2
  <2> QED
    BY <2>1, <2>2
<1>4. \A e \in 1..31 : PayPeriodContaining(Date(y, m, e)) =
        IF e <= 5 THEN Early(y, m) ELSE IF e <= 20 THEN Late(y, m) ELSE Early(a.year, a.month)
  BY <1>1, PeriodOfDate
<1>5. PayPeriodContaining(today) = IF d <= 5 THEN Early(y, m) ELSE IF d <= 20 THEN Late(y, m) ELSE Early(a.year, a.month)
  BY <1>1, <1>4
<1>6. Tiles(Early(y, m)) /\ Tiles(Late(y, m))
  <2>1. y = LastYear => m = 1
    BY <1>2
  <2> QED
    BY <1>1, <1>3, <2>1, PeriodsTile
<1>7. CASE d <= 5
  <2>1. d \in 1..5
    BY <1>1, <1>7
  <2>2. DayNumber(today) - DayNumber(Date(b.year, b.month, 21)) \in 0..40
    BY <1>1, <1>3, <2>1, DaysAcross
  <2> DEFINE p == Early(y, m)
  <2>3. p.start = Date(b.year, b.month, 21) /\ p.end = Date(y, m, 5)
    BY DEF Early, Period, On, Date
  <2>4. Date(b.year, b.month, 21) \in Dates /\ Date(y, m, 5) \in Dates /\ Date(b.year, b.month, 21).year = b.year
    <3>1. 21 \in 1..27 /\ 5 \in 1..27
      OBVIOUS
    <3>2. Date(b.year, b.month, 21) \in Dates /\ Date(y, m, 5) \in Dates
      <4> HIDE DEF b
      <4> QED
        BY <1>1, <1>3, <3>1, DaysInside
    <3> QED
      BY <3>2 DEF Date
  <2>5. ~Precedes(Date(y, m, 5), today)
    <3>1. Date(y, m, 5).year = y /\ Date(y, m, 5).month = m /\ Date(y, m, 5).day = 5
      BY DEF Date
    <3> QED
      BY <3>1, <1>1, <1>7 DEF Precedes, y, m, d
  <2> HIDE DEF p
  <2>6. today \in Days(p)
    BY <1>1, <1>3, <2>2, <2>3, <2>4, <2>5, DaysAre
  <2> QED
    BY <1>5, <1>6, <1>7, <2>6 DEF p
<1>8. CASE d > 5 /\ d <= 20
  <2> DEFINE p == Late(y, m)
  <2>1. p.start = Date(y, m, 6) /\ p.end = Date(y, m, 20)
    BY DEF Late, Period
  <2>2. Date(y, m, 6) \in Dates /\ Date(y, m, 20) \in Dates
    BY <1>1, DaysInside
  <2>3. Date(y, m, 6).year = y /\ Date(y, m, 6).month = m /\ Date(y, m, 6).day = 6
    BY DEF Date
  <2>4. DayNumber(Date(y, m, 6)) = YearsBefore[y] + MonthStart(y, m) + 6 - 1
    BY <2>2, <2>3, DateParts
  <2>5. DayNumber(today) - DayNumber(Date(y, m, 6)) \in 0..40
    BY <1>1, <1>8, <2>4
  <2>6. ~Precedes(Date(y, m, 20), today)
    <3>1. Date(y, m, 20).year = y /\ Date(y, m, 20).month = m /\ Date(y, m, 20).day = 20
      BY DEF Date
    <3> QED
      BY <3>1, <1>1, <1>8 DEF Precedes, y, m, d
  <2> HIDE DEF p
  <2>7. Date(y, m, 6).year = LastYear => Date(y, m, 6).month = 1
    BY <1>2, <2>3
  <2>8. today \in Days(p)
    BY <1>1, <2>1, <2>2, <2>5, <2>6, <2>7, DaysAre
  <2>9. ~(d <= 5) /\ d <= 20
    BY <1>1, <1>8
  <2> QED
    BY <1>5, <1>6, <2>8, <2>9 DEF p
<1>9. CASE d > 20
  <2> DEFINE p == Early(a.year, a.month)
  <2>1. y # LastYear /\ y < LastYear
    BY <1>1, <1>2, <1>9
  <2>2. Prior(a.year, a.month) = [year |-> y, month |-> m] /\ a.year \in Int /\ a.month \in 1..12
    BY <1>1, BesideEachOther
  <2>3. /\ a.year \in Years /\ ((a.year = LastYear) => (a.month = 1))
        /\ \/ a.year > y
           \/ a.year = y /\ a.month > m
    <3>1. CASE m = 12
      <4>1. a = [year |-> y + 1, month |-> 1] /\ y + 1 \in Years
        BY <3>1, <1>1, <1>2, <2>1 DEF After, Years
      <4> QED
        BY <4>1, <1>1
    <3>2. CASE m # 12
      <4>1. a = [year |-> y, month |-> m + 1]
        BY <3>2 DEF After
      <4> QED
        BY <4>1, <1>1, <2>1
    <3> QED
      BY <3>1, <3>2
  <2> HIDE DEF a
  <2>4. Prior(a.year, a.month).year \in Years
    BY <2>2, <1>1
  <2>5. Tiles(p)
    BY <2>2, <2>3, <2>4, PeriodsTile
  <2>6. p.start = Date(y, m, 21) /\ p.end = Date(a.year, a.month, 5)
    BY <2>2 DEF Early, Period, On, Date
  <2>7. Date(y, m, 21) \in Dates /\ Date(a.year, a.month, 5) \in Dates
    BY <1>1, <2>2, <2>3, DaysInside
  <2>8. Date(y, m, 21).year = y /\ Date(y, m, 21).month = m /\ Date(y, m, 21).day = 21
    BY DEF Date
  <2>9. DayNumber(Date(y, m, 21)) = YearsBefore[y] + MonthStart(y, m) + 21 - 1
    BY <2>7, <2>8, DateParts
  <2>10. DayNumber(today) - DayNumber(Date(y, m, 21)) \in 0..40
    BY <1>1, <1>9, <2>9
  <2>11. ~Precedes(Date(a.year, a.month, 5), today)
    <3>1. Date(a.year, a.month, 5).year = a.year /\ Date(a.year, a.month, 5).month = a.month /\ Date(a.year, a.month, 5).day = 5
      BY DEF Date
    <3> QED
      BY <3>1, <1>1, <2>2, <2>3 DEF Precedes, y, m, d
  <2> HIDE DEF p
  <2>12. today \in Days(p)
    BY <1>1, <2>1, <2>6, <2>7, <2>8, <2>10, <2>11, DaysAre
  <2>13. ~(d <= 5) /\ ~(d <= 20)
    BY <1>1, <1>9
  <2> QED
    BY <1>5, <2>5, <2>12, <2>13 DEF p
<1>10. d <= 5 \/ (d > 5 /\ d <= 20) \/ d > 20
  BY <1>1
<1> QED
  BY <1>7, <1>8, <1>9, <1>10

\* Today's period has its place in the calendar.
LEMMA TilingPromised == CalendarInv => PeriodsTileTheCalendar
<1> SUFFICES ASSUME CalendarInv PROVE PeriodsTileTheCalendar
  OBVIOUS
<1> DEFINE p == PayPeriodContaining(today)
<1>1. today \in Days(p) /\ Tiles(p)
  BY InItsPeriod
<1> HIDE DEF p
<1>2. today \notin Days(PreviousPayPeriod(p)) /\ today \notin Days(NextPayPeriod(p))
  BY <1>1 DEF Tiles, p
<1> QED
  BY <1>1, <1>2 DEF PeriodsTileTheCalendar, Tiles, p

\* ---- days and instants

\* Weekdays are counted from a known one.
LEMMA WeekdayIn == \A c \in Dates : FirstWeekday \in 0..6 /\ Weekday(c) \in 0..6 /\ Weekday(c) = (FirstWeekday + DayNumber(c)) % 7
<1>1. IsFiniteSet({x \in 1901..(FirstYear - 1) : IsLeap(x)})
  <2> DEFINE all == 1901..(FirstYear - 1)  some == {x \in 1901..(FirstYear - 1) : IsLeap(x)}
  <2>1. 1901 \in Int /\ FirstYear - 1 \in Int
    BY CalendarYears
  <2>2. IsFiniteSet(all)
    BY <2>1, FS_Interval
  <2>3. some \in SUBSET all
    OBVIOUS
  <2> HIDE DEF all, some
  <2>4. IsFiniteSet(some)
    BY <2>2, <2>3, FS_Subset
  <2> QED
    BY <2>4 DEF some
<1>2. Cardinality({x \in 1901..(FirstYear - 1) : IsLeap(x)}) \in Nat
  BY <1>1, FS_CardinalityType
<1>3. FirstWeekday \in 0..6
  <2> DEFINE k == Cardinality({x \in 1901..(FirstYear - 1) : IsLeap(x)})
  <2>1. FirstWeekday = (2 + 365 * (FirstYear - 1901) + k) % 7 /\ k \in Nat /\ FirstYear \in Int
    BY <1>2, CalendarYears DEF FirstWeekday
  <2> HIDE DEF k
  <2> QED
    BY <2>1
<1> SUFFICES ASSUME NEW c \in Dates PROVE Weekday(c) \in 0..6 /\ Weekday(c) = (FirstWeekday + DayNumber(c)) % 7
  BY <1>3
<1>4. DayNumber(c) \in Nat /\ Weekday(c) = (FirstWeekday + DayNumber(c)) % 7
  BY DateParts DEF Weekday
<1> HIDE DEF Weekday
<1> QED
  BY <1>3, <1>4

\* Seven days in a row have their Sunday: the clocks change on a date.
LEMMA SundayIn ==
  ASSUME NEW y \in Years, NEW m \in 1..12, NEW k \in {1, 2}
  PROVE  NthSunday(y, m, k) \in Dates
<1> DEFINE f == 7 * k - 6
           week == {[year |-> y, month |-> m, day |-> d] : d \in (7 * k - 6)..(7 * k)}
<1>1. y \in Int /\ f \in {1, 8} /\ 7 * k = f + 6
  BY CalendarYears DEF Years
<1>2. DaysInMonth(y, m) \in 28..31
  BY <1>1, Lengths
<1> HIDE DEF f
<1>3. \A d \in f..(f + 6) : Date(y, m, d) \in Dates
  <2> SUFFICES ASSUME NEW d \in f..(f + 6) PROVE Date(y, m, d) \in Dates
    OBVIOUS
  <2>1. d \in 1..31 /\ d <= DaysInMonth(y, m)
    BY <1>1, <1>2
  <2> QED
    BY <2>1, DateIn
<1>4. \A d \in f..(f + 6) : DayNumber(Date(y, m, d)) = DayNumber(Date(y, m, f)) + (d - f)
  <2> SUFFICES ASSUME NEW d \in f..(f + 6) PROVE DayNumber(Date(y, m, d)) = DayNumber(Date(y, m, f)) + (d - f)
    OBVIOUS
  <2>1. f \in f..(f + 6) /\ d \in Int /\ f \in Int
    BY <1>1
  <2>2. /\ Date(y, m, d).year = y /\ Date(y, m, d).month = m /\ Date(y, m, d).day = d
        /\ Date(y, m, f).year = y /\ Date(y, m, f).month = m /\ Date(y, m, f).day = f
    BY DEF Date
  <2>3. DayNumber(Date(y, m, d)) = YearsBefore[y] + MonthStart(y, m) + d - 1 /\ YearsBefore[y] \in Nat /\ MonthStart(y, m) \in Nat
    BY <1>3, <2>1, <2>2, DateParts
  <2>4. DayNumber(Date(y, m, f)) = YearsBefore[y] + MonthStart(y, m) + f - 1
    BY <1>3, <2>1, <2>2, DateParts
  <2> QED
    BY <2>1, <2>3, <2>4
<1>5. \E d \in f..(f + 6) : Weekday(Date(y, m, d)) = 0
  <2> DEFINE n == DayNumber(Date(y, m, f))  w == (FirstWeekday + n) % 7  e == IF w = 0 THEN f ELSE f + (7 - w)
  <2>1. f \in f..(f + 6)
    BY <1>1
  <2>2. n \in Nat /\ FirstWeekday \in 0..6
    BY <1>3, <2>1, DateParts, WeekdayIn
  <2>3. w \in 0..6
    BY <2>2
  <2>4. e \in f..(f + 6) /\ (FirstWeekday + (n + (e - f))) % 7 = 0
    <3> HIDE DEF n
    <3>1. CASE w = 0
      BY <3>1, <1>1, <2>2
    <3>2. CASE w # 0
      BY <3>2, <1>1, <2>2
    <3> QED
      BY <3>1, <3>2
  <2>5. DayNumber(Date(y, m, e)) = n + (e - f) /\ Date(y, m, e) \in Dates
    BY <1>3, <1>4, <2>4
  <2> HIDE DEF n, e, w
  <2>6. Weekday(Date(y, m, e)) = 0
    BY <2>4, <2>5, WeekdayIn
  <2> QED
    BY <2>4, <2>6
<1>6. week = {Date(y, m, d) : d \in f..(f + 6)}
  BY <1>1 DEF Date, f
<1>7. NthSunday(y, m, k) = CHOOSE c \in week : Weekday(c) = 0
  BY DEF NthSunday
<1>8. \E c \in week : Weekday(c) = 0
  <2> HIDE DEF week
  <2> QED
    BY <1>5, <1>6
<1> HIDE DEF week
<1>9. NthSunday(y, m, k) \in week
  BY <1>7, <1>8
<1> QED
  BY <1>3, <1>6, <1>9

\* The zone's offset is one of two, and the same in the three hours around a midnight.
LEMMA MidnightOffset ==
  ASSUME NEW n \in Int
  PROVE  /\ \A h : ZoneOffset(h) \in {-7, -8}
         /\ ZoneOffset(24 * n + 7) = ZoneOffset(24 * n + 8) /\ ZoneOffset(24 * n + 6) = ZoneOffset(24 * n + 8)
<1> DEFINE from(y) == DayNumber(NthSunday(y, 3, 2))  to(y) == DayNumber(NthSunday(y, 11, 1))
           Between(y) == (24 * from(y) + 10)..(24 * to(y) + 8)
<1>1. \A y \in Years : from(y) \in Int /\ to(y) \in Int
  <2> SUFFICES ASSUME NEW y \in Years PROVE from(y) \in Int /\ to(y) \in Int
    OBVIOUS
  <2>1. 3 \in 1..12 /\ 11 \in 1..12 /\ 1 \in {1, 2} /\ 2 \in {1, 2}
    OBVIOUS
  <2>2. NthSunday(y, 3, 2) \in Dates /\ NthSunday(y, 11, 1) \in Dates
    BY <2>1, SundayIn
  <2> QED
    BY <2>2, DateParts
<1>2. Summer = UNION {Between(y) : y \in Years}
  BY DEF Summer, Years
<1> HIDE DEF from, to
<1>3. \A y \in Years : /\ 24 * n + 7 \in Between(y) <=> 24 * n + 8 \in Between(y)
                       /\ 24 * n + 6 \in Between(y) <=> 24 * n + 8 \in Between(y)
  <2> SUFFICES ASSUME NEW y \in Years PROVE /\ 24 * n + 7 \in Between(y) <=> 24 * n + 8 \in Between(y)
                                            /\ 24 * n + 6 \in Between(y) <=> 24 * n + 8 \in Between(y)
    OBVIOUS
  <2> QED
    BY <1>1
<1> HIDE DEF Between
<1>4. (24 * n + 7 \in Summer <=> 24 * n + 8 \in Summer) /\ (24 * n + 6 \in Summer <=> 24 * n + 8 \in Summer)
  BY <1>2, <1>3
<1> QED
  BY <1>4 DEF ZoneOffset

\* A day begins at local midnight, also when the clocks change that day.
LEMMA MidnightPromised == CalendarInv => DaysBeginAtLocalMidnight
<1> SUFFICES ASSUME CalendarInv PROVE DaysBeginAtLocalMidnight
  OBVIOUS
<1> DEFINE n == DayNumber(today)  start == StartOfCivilDay(today)  z == ZoneOffset(24 * n + 8)
<1>1. today \in Dates /\ n \in Nat /\ today.year >= FirstYear + 2
  BY DateParts DEF CalendarInv
<1>2. n - 1 \in 0..LastDay /\ LastDay \in Nat
  <2>1. n >= 730
    BY <1>1, NumberInYear
  <2> QED
    BY <1>1, <2>1, LastDayIs
<1>3. AddDays(today, -1) = DateOfDay[n - 1]
  BY <1>1 DEF AddDays
<1>4. DateOfDay[n] = today
  BY <1>1, DateOfNumber
<1>5. StartOfCivilDay(today) = 24 * n - ZoneOffset(24 * n - ZoneOffset(24 * n))
  BY DEF StartOfCivilDay
<1> HIDE DEF n
<1>6. /\ z \in {-7, -8} /\ ZoneOffset(24 * n) \in {-7, -8} /\ ZoneOffset(24 * n + 7) = z /\ ZoneOffset(24 * n + 6) = z
  BY <1>1, MidnightOffset
<1>7. ZoneOffset(24 * n + 8) = z
  OBVIOUS
<1> HIDE DEF z
<1>8. ZoneOffset(24 * n - ZoneOffset(24 * n)) = z
  <2>1. CASE ZoneOffset(24 * n) = -7
    <3>1. 24 * n - ZoneOffset(24 * n) = 24 * n + 7
      BY <2>1, <1>1
    <3> QED
      BY <3>1, <1>6
  <2>2. CASE ZoneOffset(24 * n) = -8
    <3>1. 24 * n - ZoneOffset(24 * n) = 24 * n + 8
      BY <2>2, <1>1
    <3> QED
      BY <3>1, <1>7
  <2> QED
    BY <2>1, <2>2, <1>6
<1>9. start = 24 * n - z
  BY <1>5, <1>8
<1> HIDE DEF start
<1>10. start \in Int /\ ZoneOffset(start) = z /\ ZoneOffset(start - 1) = z
  <2>1. CASE z = -7
    <3>1. start = 24 * n + 7 /\ start - 1 = 24 * n + 6
      BY <2>1, <1>9, <1>1
    <3> QED
      BY <3>1, <1>6, <1>1
  <2>2. CASE z = -8
    <3>1. start = 24 * n + 8 /\ start - 1 = 24 * n + 7
      BY <2>2, <1>9, <1>1
    <3> QED
      BY <3>1, <1>6, <1>7, <1>1
  <2> QED
    BY <2>1, <2>2, <1>6
<1>11. start + z = 24 * n /\ start - 1 + z = 24 * n - 1
  BY <1>6, <1>9, <1>1
<1>12. (24 * n) \div 24 = n /\ (24 * n - 1) \div 24 = n - 1
  BY <1>1
<1>13. CivilDateInZone(start) = today /\ CivilDateInZone(start - 1) = AddDays(today, -1)
  BY <1>3, <1>4, <1>10, <1>11, <1>12 DEF CivilDateInZone
<1>14. start + ZoneOffset(start) = 24 * n
  BY <1>10, <1>11
<1> QED
  BY <1>13, <1>14 DEF DaysBeginAtLocalMidnight, start, n

\* ---- ranges and what they are compared with
ComparedWell(r) ==
  LET before == PreviousEquivalentRange(r) IN
  /\ AddDays(before.to, 1) = r.from
  /\ \/ DaysBetween(before.from, before.to) = DaysBetween(r.from, r.to)
     \/ WholeMonth(before) /\ WholeMonth(r)
     \/ PayPeriodContaining(before.to).start = before.from /\ NextPayPeriod(PayPeriodContaining(before.to)) = r.payPeriod

\* The month before a month ends the day before it begins.
LEMMA MonthBefore ==
  ASSUME NEW y \in Years, NEW m \in 1..12, y > FirstYear
  PROVE  /\ Prior(y, m).year \in Years /\ Prior(y, m).year \in Int /\ Prior(y, m).month \in 1..12
         /\ AddDays(Date(Prior(y, m).year, Prior(y, m).month, DaysInMonth(Prior(y, m).year, Prior(y, m).month)), 1) = Date(y, m, 1)
<1> DEFINE b == Prior(y, m)  k == DaysInMonth(b.year, b.month)  c == Date(b.year, b.month, k)
<1>1. y \in Int /\ FirstYear \in Int /\ LastYear \in Int /\ y <= LastYear
  BY CalendarYears DEF Years
<1>2. /\ b.year \in Years /\ b.month \in 1..12 /\ b.year \in Int
      /\ b.month < 12 => (b.year = y /\ b.month + 1 = m)
      /\ ~(b.month < 12) => (b.year + 1 = y /\ m = 1 /\ b.year < LastYear)
      /\ (b.year = LastYear) => (b.month < 12)
  <2>1. CASE m = 1
    <3>1. b = [year |-> y - 1, month |-> 12] /\ y - 1 \in Years
      BY <2>1, <1>1 DEF Prior, Years
    <3>2. b.year = y - 1 /\ b.month = 12
      BY <3>1
    <3> HIDE DEF b
    <3> QED
      BY <2>1, <3>1, <3>2, <1>1
  <2>2. CASE m # 1
    <3>1. b = [year |-> y, month |-> m - 1]
      BY <2>2 DEF Prior
    <3>2. b.year = y /\ b.month = m - 1 /\ m - 1 \in 1..11
      BY <3>1, <2>2
    <3> HIDE DEF b
    <3> QED
      BY <2>2, <3>2, <1>1
  <2> QED
    BY <2>1, <2>2
<1> HIDE DEF b
<1>3. k \in 28..31 /\ k <= k
  BY <1>2, Lengths
<1>4. c \in Dates
  <2>1. k \in 1..31
    BY <1>3
  <2> QED
    BY <1>2, <1>3, <2>1, DateIn
<1>5. c.year = b.year /\ c.month = b.month /\ c.day = k
  BY DEF Date
<1>6. c # Date(LastYear, 12, 31)
  <2>1. Date(LastYear, 12, 31).year = LastYear /\ Date(LastYear, 12, 31).month = 12
    BY DEF Date
  <2> QED
    BY <2>1, <1>2, <1>5
<1>7. ~(c.day < DaysInMonth(c.year, c.month))
  BY <1>3, <1>5
<1> HIDE DEF c
<1>8. Next(c) = Date(y, m, 1)
  BY <1>2, <1>5, <1>7 DEF Next
<1>9. AddDays(c, 1) = Date(y, m, 1)
  BY <1>4, <1>6, <1>8, DayAfter
<1> QED
  BY <1>2, <1>9 DEF c, b

\* A range of days is compared with as many days before it, a month with a month.
LEMMA RangeBefore ==
  ASSUME NEW r, r.payPeriod = NoPeriod, r.from \in Dates, r.to \in Dates, r.from.year > FirstYear,
         DayNumber(r.from) <= DayNumber(r.to), DayNumber(r.to) - DayNumber(r.from) < DayNumber(r.from)
  PROVE  ComparedWell(r)
<1> DEFINE f == r.from  g == r.to  y == f.year  m == f.month  b == Prior(y, m)  before == PreviousEquivalentRange(r)
<1>1. /\ y \in Years /\ y \in Int /\ m \in 1..12 /\ f.day \in 1..31 /\ f = Date(y, m, f.day) /\ DayNumber(f) \in Nat
      /\ DayNumber(g) \in Nat
  BY DateParts
<1>2. CASE WholeMonth(r)
  <2> DEFINE k == DaysInMonth(b.year, b.month)
  <2>1. AddMonths(f, -1) = b
    <3> HIDE DEF f
    <3> QED
      BY <1>1, MonthsBeside
  <2>2. before = MonthRange(AddMonths(f, -1))
    BY <1>2 DEF PreviousEquivalentRange
  <2> HIDE DEF b
  <2>3. before = [from |-> On(b, 1), to |-> On(b, k)]
    BY <2>1, <2>2 DEF MonthRange
  <2>4. On(b, 1) = Date(b.year, b.month, 1) /\ On(b, k) = Date(b.year, b.month, k)
    BY DEF On, Date
  <2>5. before.from = Date(b.year, b.month, 1) /\ before.to = Date(b.year, b.month, k)
    BY <2>3, <2>4
  <2> HIDE DEF before
  <2>6. WholeMonth(before)
    <3>1. before.from.day = 1 /\ before.from.year = b.year /\ before.from.month = b.month
      BY <2>5 DEF Date
    <3>2. MonthRange(before.from).to = On(before.from, DaysInMonth(b.year, b.month))
      BY <3>1 DEF MonthRange
    <3>3. On(before.from, k) = Date(b.year, b.month, k)
      BY <3>1 DEF On, Date
    <3> QED
      BY <3>1, <3>2, <3>3, <2>5 DEF WholeMonth
  <2>7. f = Date(y, m, 1)
    BY <1>1, <1>2 DEF WholeMonth
  <2>8. AddDays(before.to, 1) = f
    <3> HIDE DEF f, k
    <3>1. y > FirstYear
      BY DEF f
    <3>2. AddDays(Date(b.year, b.month, k), 1) = Date(y, m, 1)
      <4> USE DEF k, b
      <4> HIDE DEF y, m
      <4> QED
        BY <1>1, <3>1, MonthBefore
    <3> QED
      BY <2>5, <2>7, <3>2
  <2> QED
    BY <1>2, <2>6, <2>8 DEF ComparedWell, before
<1>3. CASE ~WholeMonth(r)
  <2> DEFINE length == DaysBetween(f, g) + 1  to == AddDays(f, -1)  start == AddDays(to, -(length - 1))
  <2>1. before = [from |-> start, to |-> to]
    BY <1>3 DEF PreviousEquivalentRange
  <2>2. LastDay \in Nat /\ DayNumber(f) \in 0..LastDay /\ DayNumber(g) \in 0..LastDay
    BY LastDayIs
  <2>3. length = DayNumber(g) - DayNumber(f) + 1 /\ length \in Int
    BY <1>1 DEF DaysBetween
  <2>4. to \in Dates /\ DayNumber(to) = DayNumber(f) - 1
    <3>1. -1 \in Int /\ DayNumber(f) + -1 \in 0..LastDay /\ DayNumber(f) + -1 = DayNumber(f) - 1
      BY <1>1, <2>2
    <3> QED
      BY <3>1, DaysLater
  <2> HIDE DEF to, length, f, g
  <2>5. start \in Dates /\ DayNumber(start) = DayNumber(to) - (length - 1)
    <3> DEFINE j == -(length - 1)
    <3>1. j \in Int /\ DayNumber(to) + j = DayNumber(to) - (length - 1) /\ DayNumber(to) + j \in 0..LastDay
      BY <2>2, <2>3, <2>4, <1>1 DEF f, g
    <3> HIDE DEF j
    <3>2. AddDays(to, j) \in Dates /\ DayNumber(AddDays(to, j)) = DayNumber(to) + j
      BY <3>1, <2>4, DaysLater
    <3> QED
      BY <3>1, <3>2 DEF j
  <2> HIDE DEF start
  <2>6. before.from = start /\ before.to = to
    BY <2>1
  <2> HIDE DEF before
  <2>7. DaysBetween(start, to) = DaysBetween(f, g)
    BY <2>2, <2>3, <2>4, <2>5 DEF DaysBetween
  <2>8. AddDays(to, 1) = f
    <3>1. DayNumber(to) + 1 = DayNumber(f)
      BY <2>4, <2>2
    <3> QED
      BY <3>1, DateOfNumber DEF AddDays, f
  <2> QED
    BY <2>6, <2>7, <2>8 DEF ComparedWell, before, f, g
<1> QED
  BY <1>2, <1>3

\* A pay period is compared with the one before it.
LEMMA PeriodBefore ==
  ASSUME NEW r, r.payPeriod # NoPeriod, r.from = r.payPeriod.start, Tiles(r.payPeriod),
         PayPeriodContaining(PreviousPayPeriod(r.payPeriod).end) = PreviousPayPeriod(r.payPeriod)
  PROVE  ComparedWell(r)
<1> DEFINE before == PreviousEquivalentRange(r)  q == PreviousPayPeriod(r.payPeriod)
<1>1. before = [from |-> q.start, to |-> q.end]
  BY DEF PreviousEquivalentRange
<1>2. AddDays(q.end, 1) = r.from /\ NextPayPeriod(q) = r.payPeriod /\ PayPeriodContaining(q.end) = q
  BY DEF Tiles
<1> HIDE DEF q
<1>3. before.from = q.start /\ before.to = q.end
  BY <1>1
<1> HIDE DEF before
<1> QED
  BY <1>2, <1>3 DEF ComparedWell, before

\* A period and the one before it stand in the calendar.
Standing(p) ==
  LET q == PreviousPayPeriod(p) o == PreviousPayPeriod(q) IN
  /\ Tiles(p) /\ Tiles(q) /\ p.number \in {1, 2} /\ q.number \in {1, 2}
  /\ PayPeriodContaining(q.end) = q /\ PayPeriodContaining(o.end) = o

\* Both periods of a month stand in the calendar, and so does today's.
LEMMA PeriodsStand ==
  ASSUME NEW y \in Years, NEW m \in 1..12, y >= FirstYear + 2, y = LastYear => m = 1
  PROVE  Standing(Early(y, m)) /\ Standing(Late(y, m))
<1> DEFINE b == Prior(y, m)
<1>1. y \in Int /\ FirstYear \in Int /\ LastYear \in Int /\ y <= LastYear
  BY CalendarYears DEF Years
<1>2. b.year \in Years /\ b.year \in Int /\ b.month \in 1..12 /\ b.year >= FirstYear + 1 /\ b.year # LastYear
  <2>1. CASE m = 1
    <3>1. b = [year |-> y - 1, month |-> 12] /\ y - 1 \in Years
      BY <2>1, <1>1 DEF Prior, Years
    <3>2. b.year = y - 1 /\ b.month = 12
      BY <3>1
    <3> HIDE DEF b
    <3> QED
      BY <3>1, <3>2, <1>1
  <2>2. CASE m # 1
    <3>1. b = [year |-> y, month |-> m - 1]
      BY <2>2 DEF Prior
    <3>2. b.year = y /\ b.month = m - 1 /\ m - 1 \in 1..12
      BY <3>1, <2>2
    <3> HIDE DEF b
    <3> QED
      BY <2>2, <3>2, <1>1
  <2> QED
    BY <2>1, <2>2
<1>3. /\ PreviousPayPeriod(Late(y, m)) = Early(y, m)
      /\ PreviousPayPeriod(Early(y, m)) = Late(b.year, b.month)
  BY <1>2, PeriodsBeside
<1>4. Tiles(Early(y, m)) /\ Tiles(Late(y, m))
  BY <1>2, PeriodsTile
<1> HIDE DEF b
<1>5. Prior(b.year, b.month).year \in Years
  <2>1. Prior(b.year, b.month) = IF b.month = 1 THEN [year |-> b.year - 1, month |-> 12] ELSE [year |-> b.year, month |-> b.month - 1]
    BY DEF Prior
  <2>2. Prior(b.year, b.month).year \in {b.year - 1, b.year}
    BY <2>1
  <2> QED
    BY <2>2, <1>1, <1>2 DEF Years
<1>6. PreviousPayPeriod(Late(b.year, b.month)) = Early(b.year, b.month)
  BY <1>2, <1>5, PeriodsBeside
<1>7. Tiles(Late(b.year, b.month))
  BY <1>2, <1>5, PeriodsTile
<1>8. /\ PayPeriodContaining(Early(y, m).end) = Early(y, m) /\ PayPeriodContaining(Late(b.year, b.month).end) = Late(b.year, b.month)
      /\ PayPeriodContaining(Early(b.year, b.month).end) = Early(b.year, b.month)
  BY <1>1, <1>2, PeriodEnds
<1>9. Early(y, m).number = 1 /\ Late(y, m).number = 2 /\ Late(b.year, b.month).number = 2
  BY DEF Early, Late, Period
<1> QED
  BY <1>3, <1>4, <1>6, <1>7, <1>8, <1>9 DEF Standing

LEMMA PeriodOfToday == ASSUME CalendarInv PROVE Standing(PayPeriodContaining(today))
<1> DEFINE y == today.year  m == today.month  d == today.day  a == After(y, m)
<1>1. /\ y \in Years /\ y \in Int /\ m \in 1..12 /\ d \in 1..31 /\ today = Date(y, m, d)
      /\ FirstYear \in Int /\ LastYear \in Int /\ y >= FirstYear + 2 /\ y <= LastYear
      /\ ((y = LastYear) => (m = 1 /\ d = 1))
  BY DateParts, CalendarYears DEF CalendarInv, Years
<1> HIDE DEF y, m, d
<1>2. \A e \in 1..31 : PayPeriodContaining(Date(y, m, e)) =
        IF e <= 5 THEN Early(y, m) ELSE IF e <= 20 THEN Late(y, m) ELSE Early(a.year, a.month)
  BY <1>1, PeriodOfDate
<1>3. PayPeriodContaining(today) = IF d <= 5 THEN Early(y, m) ELSE IF d <= 20 THEN Late(y, m) ELSE Early(a.year, a.month)
  BY <1>1, <1>2
<1>4. Standing(Early(y, m)) /\ Standing(Late(y, m))
  BY <1>1, PeriodsStand
<1>5. CASE d > 20
  <2>1. y < LastYear
    BY <1>1, <1>5
  <2>2. a.year \in Years /\ a.month \in 1..12 /\ a.year >= FirstYear + 2 /\ ((a.year = LastYear) => (a.month = 1))
    <3>1. CASE m = 12
      <4>1. a = [year |-> y + 1, month |-> 1] /\ y + 1 \in Years
        BY <3>1, <1>1, <2>1 DEF After, Years
      <4> QED
        BY <4>1, <1>1
    <3>2. CASE m # 12
      <4>1. a = [year |-> y, month |-> m + 1]
        BY <3>2 DEF After
      <4> QED
        BY <3>2, <4>1, <1>1, <2>1
    <3> QED
      BY <3>1, <3>2
  <2> HIDE DEF a
  <2>3. Standing(Early(a.year, a.month))
    BY <2>2, PeriodsStand
  <2>4. ~(d <= 5) /\ ~(d <= 20)
    BY <1>1, <1>5
  <2> QED
    BY <1>3, <2>3, <2>4
<1>6. CASE ~(d > 20)
  <2>1. d <= 20
    BY <1>1, <1>6
  <2> QED
    BY <1>3, <1>4, <2>1
<1> QED
  BY <1>5, <1>6

\* The ranges a report offers, each well compared.
LEMMA RangesPromised == CalendarInv => ComparesWithTheRangeBefore
<1> SUFFICES ASSUME CalendarInv PROVE ComparesWithTheRangeBefore
  OBVIOUS
<1> DEFINE y == today.year  m == today.month  d == today.day  b == Prior(y, m)  p == PayPeriodContaining(today)
           q == PreviousPayPeriod(p)  n == DayNumber(today)
<1>1. /\ y \in Years /\ y \in Int /\ m \in 1..12 /\ d \in 1..31 /\ today = Date(y, m, d) /\ today \in Dates /\ n \in Nat
      /\ FirstYear \in Int /\ LastYear \in Int /\ y >= FirstYear + 2 /\ y <= LastYear
  BY DateParts, CalendarYears DEF CalendarInv, Years
<1>2. n >= 730 /\ n + 300 <= LastDay /\ LastDay \in Nat
  <2>1. n >= 730
    BY <1>1, NumberInYear
  <2>2. n + 300 <= LastDay
    BY <1>1, RoomAfter DEF CalendarInv
  <2> QED
    BY <2>1, <2>2, LastDayIs
<1>3. /\ Tiles(p) /\ p # NoPeriod /\ Tiles(q) /\ q # NoPeriod
      /\ PayPeriodContaining(q.end) = q /\ PayPeriodContaining(PreviousPayPeriod(q).end) = PreviousPayPeriod(q)
  BY PeriodOfToday DEF Standing, NoPeriod
<1>4. \A kind, from, to, period, current : LET r == Resolved(kind, from, to, period, current) IN
        r.from = from /\ r.to = to /\ r.payPeriod = period
  BY DEF Resolved
<1>5. ASSUME NEW r, NEW f \in Dates, NEW t \in Dates, r.from = f, r.to = t, r.payPeriod = NoPeriod, f.year > FirstYear,
             DayNumber(f) <= DayNumber(t), DayNumber(t) - DayNumber(f) < DayNumber(f)
      PROVE  ComparedWell(r)
  BY <1>5, RangeBefore
<1>6. \A x \in Years, k \in 1..12 : x >= FirstYear + 1 =>
        LET f == Date(x, k, 1) t == Date(x, k, DaysInMonth(x, k)) IN
        /\ f \in Dates /\ t \in Dates /\ f.year = x /\ x > FirstYear /\ DayNumber(f) <= DayNumber(t)
        /\ DayNumber(t) - DayNumber(f) < DayNumber(f)
  <2> SUFFICES ASSUME NEW x \in Years, NEW k \in 1..12, x >= FirstYear + 1
               PROVE  LET f == Date(x, k, 1) t == Date(x, k, DaysInMonth(x, k)) IN
                      /\ f \in Dates /\ t \in Dates /\ f.year = x /\ x > FirstYear /\ DayNumber(f) <= DayNumber(t)
                      /\ DayNumber(t) - DayNumber(f) < DayNumber(f)
    OBVIOUS
  <2> DEFINE j == DaysInMonth(x, k)  f == Date(x, k, 1)  t == Date(x, k, j)
  <2>1. x \in Int /\ x > FirstYear
    BY <1>1 DEF Years
  <2>2. j \in 28..31 /\ j <= j /\ 1 <= j /\ 1 \in 1..31 /\ j \in 1..31
    BY <2>1, Lengths
  <2>3. f \in Dates /\ t \in Dates
    BY <2>2, DateIn
  <2>4. f.year = x /\ f.month = k /\ f.day = 1 /\ t.year = x /\ t.month = k /\ t.day = j
    BY DEF Date
  <2> HIDE DEF f, t, j
  <2>5. DayNumber(f) = YearsBefore[x] + MonthStart(x, k) + 1 - 1 /\ YearsBefore[x] \in Nat /\ MonthStart(x, k) \in Nat
    BY <2>3, <2>4, DateParts
  <2>6. DayNumber(t) = YearsBefore[x] + MonthStart(x, k) + j - 1
    BY <2>3, <2>4, DateParts
  <2>7. YearsBefore[x] >= 365
    BY <2>3, <2>4, NumberInYear
  <2>8. DayNumber(f) <= DayNumber(t) /\ DayNumber(t) - DayNumber(f) < DayNumber(f)
    BY <2>2, <2>5, <2>6, <2>7
  <2> QED
    BY <2>1, <2>3, <2>4, <2>8 DEF f, t, j
<1> HIDE DEF y, m, d, p, q, n, b
<1>7. ComparedWell(QuickRange("pay-period", today))
  <2> DEFINE r == QuickRange("pay-period", today)
  <2>1. r = Resolved("pay-period", p.start, p.end, p, p)
    BY DEF QuickRange, p
  <2>2. r.from = p.start /\ r.payPeriod = p
    BY <2>1, <1>4
  <2> HIDE DEF r
  <2>3. ComparedWell(r)
    BY <2>2, <1>3, PeriodBefore DEF q
  <2> QED
    BY <2>3 DEF r
<1>8. ComparedWell(QuickRange("previous-pay-period", today))
  <2> DEFINE r == QuickRange("previous-pay-period", today)
  <2>1. r = Resolved("previous-pay-period", q.start, q.end, q, p)
    BY DEF QuickRange, p, q
  <2>2. r.from = q.start /\ r.payPeriod = q
    BY <2>1, <1>4
  <2> HIDE DEF r
  <2>3. ComparedWell(r)
    BY <2>2, <1>3, PeriodBefore
  <2> QED
    BY <2>3 DEF r
<1>9. ComparedWell(QuickRange("month", today))
  <2> DEFINE r == QuickRange("month", today)  f == Date(y, m, 1)  t == Date(y, m, DaysInMonth(y, m))
  <2>1. r = Resolved("month", MonthRange(today).from, MonthRange(today).to, NoPeriod, p)
    BY DEF QuickRange, p
  <2>2. MonthRange(today).from = f /\ MonthRange(today).to = t
    BY DEF MonthRange, On, Date, y, m
  <2>3. r.from = f /\ r.to = t /\ r.payPeriod = NoPeriod
    BY <2>1, <2>2, <1>4
  <2>4. f \in Dates /\ t \in Dates /\ f.year > FirstYear /\ DayNumber(f) <= DayNumber(t) /\ DayNumber(t) - DayNumber(f) < DayNumber(f)
    BY <1>1, <1>6
  <2> HIDE DEF r, f, t
  <2>5. ComparedWell(r)
    BY <2>3, <2>4, <1>5
  <2> QED
    BY <2>5 DEF r
<1>10. ComparedWell(QuickRange("previous-month", today))
  <2> DEFINE r == QuickRange("previous-month", today)  f == Date(b.year, b.month, 1)  t == Date(b.year, b.month, DaysInMonth(b.year, b.month))
  <2>1. r = Resolved("previous-month", MonthRange(AddMonths(today, -1)).from, MonthRange(AddMonths(today, -1)).to, NoPeriod, p)
    BY DEF QuickRange, p
  <2>2. AddMonths(today, -1) = b
    BY <1>1, MonthsBeside DEF b, y, m
  <2>3. MonthRange(b).from = f /\ MonthRange(b).to = t
    BY DEF MonthRange, On, Date
  <2>4. r.from = f /\ r.to = t /\ r.payPeriod = NoPeriod
    BY <2>1, <2>2, <2>3, <1>4
  <2>5. b.year \in Years /\ b.month \in 1..12 /\ b.year >= FirstYear + 1
    <3>1. b = IF m = 1 THEN [year |-> y - 1, month |-> 12] ELSE [year |-> y, month |-> m - 1]
      BY DEF b, Prior
    <3>2. CASE m = 1
      <4>1. b.year = y - 1 /\ b.month = 12
        BY <3>1, <3>2
      <4> QED
        BY <4>1, <1>1 DEF Years
    <3>3. CASE m # 1
      <4>1. b.year = y /\ b.month = m - 1
        BY <3>1, <3>3
      <4> QED
        BY <3>3, <4>1, <1>1
    <3> QED
      BY <3>2, <3>3
  <2>6. f \in Dates /\ t \in Dates /\ f.year > FirstYear /\ DayNumber(f) <= DayNumber(t) /\ DayNumber(t) - DayNumber(f) < DayNumber(f)
    BY <2>5, <1>6
  <2> HIDE DEF r, f, t
  <2>7. ComparedWell(r)
    BY <2>4, <2>6, <1>5
  <2> QED
    BY <2>7 DEF r
<1>11. ComparedWell(QuickRange("year", today))
  <2> DEFINE r == QuickRange("year", today)  f == Date(y, 1, 1)  t == Date(y, 12, 31)
  <2>1. r = Resolved("year", On([today EXCEPT !.month = 1], 1), On([today EXCEPT !.month = 12], 31), NoPeriod, p)
    BY DEF QuickRange, p
  <2>2. On([today EXCEPT !.month = 1], 1) = f /\ On([today EXCEPT !.month = 12], 31) = t
    <3>1. [today EXCEPT !.month = 1].year = y /\ [today EXCEPT !.month = 1].month = 1
          /\ [today EXCEPT !.month = 12].year = y /\ [today EXCEPT !.month = 12].month = 12
      BY <1>1 DEF Date
    <3> QED
      BY <3>1 DEF On, Date
  <2>3. r.from = f /\ r.to = t /\ r.payPeriod = NoPeriod
    BY <2>1, <2>2, <1>4
  <2>4. f \in Dates /\ t \in Dates
    <3>1. DaysInMonth(y, 1) = 31 /\ DaysInMonth(y, 12) = 31
      BY DEF DaysInMonth
    <3> QED
      BY <1>1, <3>1, DateIn
  <2>5. f.year = y /\ t.year = y
    BY DEF Date
  <2> HIDE DEF r, f, t
  <2>6. /\ YearsBefore[y] <= DayNumber(f) /\ DayNumber(t) < YearsBefore[y] + YearLength(y) /\ YearsBefore[y] >= 730
        /\ YearLength(y) \in 365..366 /\ YearsBefore[y] \in Nat
    BY <1>1, <2>4, <2>5, NumberInYear
  <2>7. DayNumber(f) \in Nat /\ DayNumber(t) \in Nat /\ DayNumber(f) = YearsBefore[y]
    <3>1. DayNumber(f) = YearsBefore[y]
      BY <1>1, DaysOfYear DEF f
    <3> QED
      BY <2>4, <3>1, DateParts
  <2>8. DayNumber(f) <= DayNumber(t)
    <3>1. YearsBefore[y] <= DayNumber(t)
      BY <2>4, <2>5, NumberInYear
    <3> QED
      BY <3>1, <2>7
  <2>9. DayNumber(t) - DayNumber(f) < DayNumber(f) /\ f.year > FirstYear
    BY <1>1, <2>5, <2>6, <2>7
  <2>10. ComparedWell(r)
    BY <2>3, <2>4, <2>8, <2>9, <1>5
  <2> QED
    BY <2>10 DEF r
<1>12. ComparedWell(QuickRange("today", today))
  <2> DEFINE r == QuickRange("today", today)
  <2>1. r = Resolved("today", today, today, NoPeriod, p)
    BY DEF QuickRange, p
  <2>2. r.from = today /\ r.to = today /\ r.payPeriod = NoPeriod
    BY <2>1, <1>4
  <2>3. today.year > FirstYear /\ DayNumber(today) <= DayNumber(today) /\ DayNumber(today) - DayNumber(today) < DayNumber(today)
    BY <1>1, <1>2 DEF n, y
  <2> HIDE DEF r
  <2>4. ComparedWell(r)
    BY <2>2, <2>3, <1>1, <1>5
  <2> QED
    BY <2>4 DEF r
<1>13. ComparedWell(QuickRange("week", today))
  <2> DEFINE r == QuickRange("week", today)  w == Weekday(today)  f == AddDays(today, -w)  t == AddDays(f, 6)
  <2>1. r = Resolved("week", f, t, NoPeriod, p)
    BY DEF QuickRange, p
  <2>2. r.from = f /\ r.to = t /\ r.payPeriod = NoPeriod
    BY <2>1, <1>4
  <2>3. w \in 0..6
    BY <1>1, WeekdayIn
  <2>4. f \in Dates /\ DayNumber(f) = n - w
    <3> HIDE DEF w
    <3> DEFINE j == -w
    <3>1. j \in Int /\ n + j = n - w /\ n + j \in 0..LastDay
      BY <1>1, <1>2, <2>3
    <3> HIDE DEF j
    <3>2. AddDays(today, j) \in Dates /\ DayNumber(AddDays(today, j)) = DayNumber(today) + j
      BY <1>1, <3>1, DaysLater DEF n
    <3> QED
      BY <3>1, <3>2 DEF j, n
  <2> HIDE DEF w, f
  <2>5. t \in Dates /\ DayNumber(t) = n - w + 6
    <3>1. 6 \in Int /\ DayNumber(f) + 6 = n - w + 6 /\ DayNumber(f) + 6 \in 0..LastDay
      BY <1>1, <1>2, <2>3, <2>4
    <3>2. AddDays(f, 6) \in Dates /\ DayNumber(AddDays(f, 6)) = DayNumber(f) + 6
      BY <3>1, <2>4, DaysLater
    <3> QED
      BY <3>1, <3>2
  <2> HIDE DEF t, r
  <2>6. f.year > FirstYear
    <3>1. f.year \in Years /\ DayNumber(f) < YearsBefore[f.year] + YearLength(f.year) /\ YearLength(f.year) \in 365..366
      BY <2>4, NumberInYear, DateParts
    <3>2. f.year # FirstYear
      <4>1. YearsBefore[FirstYear] = 0
        BY YearsFollow
      <4>2. DayNumber(f) >= 724
        BY <1>1, <1>2, <2>3, <2>4
      <4> QED
        BY <3>1, <4>1, <4>2, <2>4, DateParts
    <3> QED
      BY <3>1, <3>2, <1>1 DEF Years
  <2>7. DayNumber(f) <= DayNumber(t) /\ DayNumber(t) - DayNumber(f) < DayNumber(f)
    BY <1>1, <1>2, <2>3, <2>4, <2>5
  <2>8. ComparedWell(r)
    BY <2>2, <2>4, <2>5, <2>6, <2>7, <1>5
  <2> QED
    BY <2>8 DEF r
<1>14. \A kind \in Kinds \ {"all"} : ComparedWell(QuickRange(kind, today))
  BY <1>7, <1>8, <1>9, <1>10, <1>11, <1>12, <1>13 DEF Kinds
<1> QED
  BY <1>14 DEF ComparesWithTheRangeBefore, ComparedWell

\* The promises, from the invariant.
LEMMA CalendarPromises == CalendarInv => PeriodsTileTheCalendar /\ DaysBeginAtLocalMidnight /\ ComparesWithTheRangeBefore
  BY TilingPromised, MidnightPromised, RangesPromised

\* On every day of the calendar the periods tile it, days begin at local midnight and
\* reports are compared with the range before (pay-period.ts).
THEOREM CalendarHolds ==
  CalendarSpec => [](PeriodsTileTheCalendar /\ DaysBeginAtLocalMidnight /\ ComparesWithTheRangeBefore)
  BY CalendarStarts, CalendarStep, CalendarPromises, PTL DEF CalendarSpec

=============================================================================

------------------------------- MODULE MCDesk -------------------------------
(***************************************************************************)
(* What people read and enter: who sees which records, the calendar and    *)
(* the reports built on it, pasted itineraries, and the forms of agents,   *)
(* administrators and customers with the requests they send.  These share  *)
(* no state, so one of them moves per behaviour, chosen at the start; some *)
(* are cut into parts that together make all of their moves.               *)
(***************************************************************************)
EXTENDS Visibility, SalesReports, GdsItinerary,
        QuoteForm, BookingForm, TicketingForm,
        BulkImport, LeadDesk, NewLeadDialog, AccountEditor

CONSTANTS Screens, t1, t2    \* the parts below that a run looks at; tabs

VARIABLE focus

\* Accounts 1 to 3 are colleagues, 4 is not; task 1 is of a lead, 2 of a contact.
TwoCompanies == [v \in Viewers |-> IF v = 4 THEN "Y" ELSE "X"]
ContactCompanies == [c \in ContactIds |-> IF c = 2 THEN "Y" ELSE "X"]
LeadsContact == [l \in LeadIds |-> l]
QuotesLead == [q \in QuoteIds |-> 1]
TasksLead == [t \in TaskIds |-> IF t = 1 THEN 1 ELSE NoParent]
TasksContact == [t \in TaskIds |-> 1]

D(y, m, d) == [year |-> y, month |-> m, day |-> d]

\* The last hour of a pay period, the first of the next one, and one of the next after.
Hours == {StartOfCivilDay(D(2027, 3, 6)) - 1, StartOfCivilDay(D(2027, 3, 6)), StartOfCivilDay(D(2027, 3, 21))}
Senders == [s \in Sales |-> s]

\* Flights as a reservation system prints them: over the end of a year, on a leap
\* day, with and without the marks that say when they arrive.
Flight == [flight |-> "BA1460Y", on |-> D(0, 12, 25), dep |-> 18, arr |-> 7, mark |-> 0, plus |-> 0, pair |-> Unread,
           weekday |-> Unread, arrivesOn |-> NoDate, from |-> "LHR", to |-> "JFK", split |-> FALSE, loose |-> FALSE,
           operated |-> FALSE]
Plain == {[Flight EXCEPT !.on = d, !.from = a[1], !.to = a[2]] :
            d \in {D(0, 12, 25), D(0, 1, 3), D(0, 2, 29), D(0, 3, 5), D(2027, 12, 24), D(2028, 1, 3)},
            a \in {<<"LHR", "JFK">>, <<"JFK", "LHR">>}}
Odd == {[Flight EXCEPT !.mark = m, !.plus = p, !.pair = w] : m \in {0, 1, -1}, p \in {0, 1, 2}, w \in {Unread, <<4, 5>>, <<6, 6>>}}
       \cup {[Flight EXCEPT !.split = TRUE, !.loose = TRUE, !.operated = TRUE, !.weekday = 5, !.to = "XXX"],
             [Flight EXCEPT !.arrivesOn = D(0, 12, 26), !.to = "NOZ"]}
ThePastes == UNION {[1..n -> Plain \cup Odd] : n \in 1..2} \cup [1..3 -> {f \in Plain : f.from = "LHR"}]
TheZones == [a \in {"LHR", "JFK", "NOZ"} |-> CASE a = "LHR" -> 0 [] a = "JFK" -> -5 [] OTHER -> Unread]
TheDays == {D(2027, 11, 10), D(2028, 1, 2), D(2028, 3, 1)}

\* Cents and a rate that divide into each other or do not, and a fare with extras.
TheTerms == {[total |-> 10000, adults |-> 3, rate |-> 136, extras |-> 0],
             [total |-> 0, adults |-> 1, rate |-> 100, extras |-> 0], [total |-> 5000, adults |-> 1, rate |-> 100, extras |-> 2000]}
CardsOf == [t \in Tabs |-> IF t = t1 THEN 2 ELSE 1]
FirstSigner == CHOOSE s \in Signers : TRUE
OneFare == <<"ADULT">>
OneChild == [p \in {"kid"} |-> "CHILD"]

TheCells == {"Ann", "Lee", "ann@x", "lee@x", "@", "note", "First", "Last", "Email", "Assigned", "Source"}
KindOfCell == [c \in Cells |-> IF c \in {"ann@x", "lee@x", "@"} THEN "email" ELSE "notes"]
HeaderOfCell == [c \in Cells |-> CASE c = "First" -> "firstName" [] c = "Last" -> "lastName" [] c = "Email" -> "email"
                                   [] c = "Assigned" -> "assignedUser" [] OTHER -> "none"]
UsersOfCell == [c \in Cells |-> CASE c = "Lee" -> {"bob"} [] c = "Ann" -> {"bob", "eve"} [] OTHER -> {}]
TheGrids == {<<<<"Email", "Last", "Email", "First", "Assigned">>, <<"ann@x", "Lee", "lee@x", "Ann", "Lee">>>>,
             <<<<"Ann", "Lee", "ann@x", "note", "lee@x">>, <<"Lee", "Ann", "", "", "lee@x">>>>,
             <<<<"First", "Last", "Source">>, <<"Ann", "Lee", "@">>>>}
RoleOfTab == [t \in DeskTabs |-> IF t = t1 THEN "agent" ELSE "manager"]

readings == <<viewVars, reportVars, gdsVars>>
customerForms == <<formVars, bookingFormVars, ticketingVars>>
officeForms == <<importVars, leadDeskVars, newLeadVars, accountEditorVars>>
deskVars == <<readings, customerForms, officeForms, focus>>
-----------------------------------------------------------------------------
\* What is not looked at stands still, in one initial state.
DeskInit ==
  /\ focus \in Screens
  /\ ViewInit /\ creatorOf[1] = 4
  /\ ReportInit
  /\ IF focus = "itineraries" THEN GdsInit ELSE CalendarInit /\ pasted = <<>> /\ itinerary = <<>>
  /\ FormInit /\ (focus # "quote" => builder = "quote")
  /\ BookingFormInit /\ (focus # "booking" => form = [t \in Tabs |-> FormOf(FALSE)])
  /\ TicketingFormInit
  /\ (IF focus = "ticketing" THEN record.fields.status # "TICKETED" ELSE record.fields.fare = 1 /\ record.fields.tax = 1)
  /\ (focus \notin {"ticketing", "confirmations"} => record.fields.numbered /\ record.fields.status = "CONFIRMED")
  /\ BulkImportInit
  /\ LeadDeskInit /\ (focus # "legs" => lead.trip = "ROUND_TRIP" /\ lead.from = NoPlace)
  /\ lead.status = "NEW" /\ (focus # "status" => lead.owner = NoTab)
  /\ NewLeadInit /\ (focus # "new lead" => preset = NoCaller /\ \A c \in Callers : ownerOfCaller[c] = Unowned)
  /\ AccountEditorInit
  /\ (focus # "team" => (\A a \in Members : managedBy[a] = Absent) /\ \A t \in AdminTabs : popover[t].team = "m1")
  /\ (focus # "grants" => grants = {})

\* Who may be re-roled to what: account 1 to anything, account 2 within a team,
\* account 3 and the stranger to agent, once.
Rerolings ==
  /\ roleOf'[2] \in {"MANAGER", "TRAVEL_AGENT"} \cup {roleOf[2]} /\ roleOf'[4] \in {"TRAVEL_AGENT", roleOf[4]}
  /\ roleOf'[3] \in {"TRAVEL_AGENT", roleOf[3]}

\* One account is hidden and shown, between reports and before the saves; the other one opens
\* no report, and nobody but that account is asked for by name.  Time stands still while a
\* page is read.  There are two saves, each written before the next one reads; those that set
\* a status send a cost, and the older sale gets none.
Reading ==
  /\ (shown' = shown \/ (viewer = Nothing /\ changes = 0 /\ shown'[1])) /\ viewer' # 1 /\ wanted' # 2
  /\ changes' <= 2 /\ (saves # {} => saves' = {}) /\ (viewer # Nothing => moment' = moment)
  /\ \A w \in saves' : (w.profit = Nothing <=> w.to = "as it is") /\ (w.sale \in Legacy => w.to = "as it is")

\* Three saves in any order, and no page open.
Saving == viewer' = Nothing /\ shown' = shown

\* The second agent only reads the list of mailboxes while the first one mails.
Confirming ==
  /\ UNCHANGED formsOnly
  /\ \A a \in Agents \ {1} : dialog'[a] = dialog[a]

\* The second agent's saves are of the ticket's cost and confirmation number.
Ticketing == UNCHANGED mailOnly /\ typed'[2].status = typed[2].status /\ typed'[2].tax = typed[2].tax

\* One name for the first tab, any for the second, which does not go back from the review
\* of a form that is complete.
Signing ==
  /\ form[t2].reviewing /\ ~form'[t2].reviewing => ~FilledIn(form[t2])
  /\ \A r \in DOMAIN requests' : requests'[r].tab = t1 => requests'[r].signer = FirstSigner

\* At most two other requests beside the selections, which are of the first status or the last.
Selecting ==
  /\ Cardinality(moving') <= 2
  /\ \A t \in DeskTabs : statusCall'[t] # NoStatusCall => statusCall'[t].to \in {"NEW", "BOOKED"}

OnlyView    == UNCHANGED <<reportVars, gdsVars, customerForms, officeForms>>
OnlyDays    == UNCHANGED <<viewVars, reportVars, pasted, itinerary, customerForms, officeForms>>
OnlyReports == UNCHANGED <<viewVars, gdsVars, customerForms, officeForms>>
OnlyGds     == UNCHANGED <<viewVars, reportVars, customerForms, officeForms>>
OnlyQuote   == UNCHANGED <<readings, bookingFormVars, ticketingVars, officeForms>>
OnlyBooking == UNCHANGED <<readings, formVars, ticketingVars, officeForms>>
OnlyTickets == UNCHANGED <<readings, formVars, bookingFormVars, officeForms>>
OnlyImport  == UNCHANGED <<readings, customerForms, leadDeskVars, newLeadVars, accountEditorVars>>
OnlyLead    == UNCHANGED <<readings, customerForms, importVars, newLeadVars, accountEditorVars>>
OnlyNew     == UNCHANGED <<readings, customerForms, importVars, leadDeskVars, accountEditorVars>>
OnlyAccount == UNCHANGED <<readings, customerForms, importVars, leadDeskVars, newLeadVars>>

DeskMoves ==
  \/ focus = "records" /\ ViewNext /\ OnlyView /\ Rerolings
  \/ focus = "calendar" /\ CalendarNext /\ OnlyDays
  \/ focus = "reports" /\ ReportNext /\ OnlyReports /\ Reading
  \/ focus = "ledger" /\ ReportNext /\ OnlyReports /\ Saving
  \/ focus = "itineraries" /\ GdsNext /\ OnlyGds
  \/ focus = "quote" /\ FormNext /\ OnlyQuote
  \/ focus = "booking" /\ BookingFormNext /\ OnlyBooking /\ Signing
  \/ focus = "ticketing" /\ TicketingFormNext /\ OnlyTickets /\ Ticketing
  \/ focus = "confirmations" /\ TicketingFormNext /\ OnlyTickets /\ Confirming
  \/ focus = "import" /\ BulkImportNext /\ OnlyImport
  \/ focus = "status" /\ StatusNext /\ OnlyLead /\ Selecting
  \/ focus = "legs" /\ (LegsNext \/ RequestNext) /\ OnlyLead
  \/ focus = "new lead" /\ NewLeadNext /\ OnlyNew
  \/ focus = "team" /\ TeamNext /\ OnlyAccount
  \/ focus = "grants" /\ GrantNext /\ OnlyAccount

DeskNext == UNCHANGED focus /\ DeskMoves

DeskSpec == DeskInit /\ [][DeskNext]_deskVars
-----------------------------------------------------------------------------
(* What holds of all that is read and entered. *)

DeskTypeOK == ViewTypeOK /\ ReportTypeOK /\ LeadDeskShape

\* Lists, searches and filters show whom the rules let see: nobody another company's
\* rows, managers their own and their team's, tasks with their parent, quotes with their
\* lead; the search of Referred By shows a manager who types in it the whole company.
ListsFollowTheRules ==
  focus = "records" =>
    /\ NobodyCrossesCompanies /\ ManagerSeesOwnAndTeam /\ TasksFollowTheirParent
    /\ ParentsOpenTheirQuotes /\ FiltersOnlyNarrow

\* On every day of the calendar the pay periods tile it, days begin at local midnight and
\* a range is compared with the one before it; and one set of sales, each person's own,
\* is behind the rows, the totals and the board.
ReportsAreRight ==
  /\ focus = "calendar" => PeriodsTileTheCalendar /\ DaysBeginAtLocalMidnight /\ ComparesWithTheRangeBefore
  /\ focus = "reports" => OthersSalesStayHidden /\ RowsAndTotalsAgree /\ BoardShowsTheSameSales

\* A pasted itinerary is read as it was written, each segment on a day that follows from the
\* days written before it, and its hours add up.
ItinerariesAreRight == focus = "itineraries" => ItinerariesAreSound

\* A sale keeps its pay period until it is confirmed again, and then counts in the one
\* that is open, unless two saves of it crossed.
LedgerIsSettled == SavesMoveNoSale /\ ReturnsCountNow

\* Prices, bookings and tickets are stored as the page that sent them showed, once.
CustomerFormsAreHonest ==
  /\ focus = "quote" => FormsKeepTheirWord
  /\ focus = "booking" => BookingsAreHonest
  /\ focus \in {"ticketing", "confirmations"} => TicketsAreTrue

\* So are imports, leads and accounts.
OfficeFormsAreHonest ==
  /\ focus = "import" => ImportsAreHonest
  /\ focus \in {"status", "legs"} => LeadDeskIsSound
  /\ focus = "new lead" => NewLeadsAreHonest
  /\ focus \in {"team", "grants"} => UsersPageIsHonest
=============================================================================

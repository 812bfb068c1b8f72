------------------------------ MODULE SalesReports ------------------------------
(***************************************************************************)
(* Commissions and Salesboard: bookings that are confirmed, edited and     *)
(* taken back while accounts look at reports.  A save reads the booking,   *)
(* decides whether its status changes, and only then opens the transaction *)
(* that writes it, so saves cross.  A report is several statements on a    *)
(* database that moves in between: the list and its rows, the summary and  *)
(* its rows (server/queries/commissions.ts).                               *)
(***************************************************************************)
EXTENDS PayPeriods, FiniteSetsExt

CONSTANTS
  Sales, SentBy,    \* bookings; [Sales -> Sellers], Quote.sentByAgentId
  Legacy,           \* bookings confirmed before there was a status history
  Sellers, Boss,    \* accounts of the company; Boss is its administrator
  Nothing,          \* no profit yet, no report open
  Moments,          \* the instants at which something happens, in hours
  Profits,          \* what a booking can earn
  Offers,          \* the ranges the page offers: quick selectors
  MaxChanges        \* bound: saves of the bookings

ASSUME SalesConstants ==
  /\ SentBy \in [Sales -> Sellers] /\ Legacy \subseteq Sales
  /\ Boss \notin Sellers /\ Profits \subseteq Int /\ Profits # {} /\ Offers \subseteq Kinds
  /\ Moments \subseteq Nat /\ Moments # {}
  /\ Nothing \notin Int \cup Sellers \cup {Boss} /\ \A sales \in SUBSET Sales : sales # Nothing

Staff == Sellers \cup {Boss}

VARIABLES
  moment,       \* the instant it is
  confirmed,    \* [Sales -> BOOLEAN]: Booking.status = CONFIRMED
  history,      \* [Sales -> SUBSET Moments]: changedAt of the moves to CONFIRMED
  touchedAt,    \* [Sales -> Moments]: Booking.updatedAt
  profitOf,     \* [Sales -> Profits or Nothing]: Booking.profitAmount
  shown,        \* [Staff -> BOOLEAN]: Account.accountsVisible
  changes,      \* 0..MaxChanges
  saves,        \* the saves under way: what they read and what they will write
  written,      \* [Sales -> Nat]: how many saves of the booking have committed
  viewer,       \* whose report is loading, or Nothing
  range,        \* the civil days it covers
  wanted,       \* the "specific user" asked for, or Nothing
  listed,       \* what the eligibility query of the rows returned, or Nothing
  rows,         \* the bookings the page shows, or Nothing
  counted,      \* what the eligibility query of the summary returned, or Nothing
  summed,       \* the bookings the summary adds up, or Nothing
  disturbed     \* a booking changed since the report was opened

ledger == <<confirmed, history, touchedAt, profitOf>>
books == <<ledger, changes, saves, written>>
page == <<viewer, range, wanted, listed, rows, counted, summed>>
reportVars == <<moment, books, shown, page, disturbed>>
-----------------------------------------------------------------------------
(* When a sale counts *)

SaleAt(s) == IF history[s] # {} THEN Max(history[s]) ELSE touchedAt[s]

InRange(s, r) ==
  r.from = NoDate \/ LET days == CivilRange(r.from, r.to) IN days.start <= SaleAt(s) /\ SaleAt(s) < days.endExclusive

PeriodOfSale(s) == PayPeriodContaining(CivilDateInZone(SaleAt(s)))
Today == CivilDateInZone(moment)

\* Defect: the filter of the page decides, whoever asks.
ScopeAsAsked(who, user) == IF user # Nothing THEN user ELSE IF who = Boss THEN Nothing ELSE who

\* Only an administrator chooses whose commissions; everyone else sees their own.
Scope(who, user) == IF who = Boss THEN user ELSE who

CountsFor(s, who, user) ==
  confirmed[s] /\ profitOf[s] # Nothing /\ (Scope(who, user) = Nothing \/ SentBy[s] = Scope(who, user))

EligibleBookings(who, user, r) == {s \in Sales : CountsFor(s, who, user) /\ InRange(s, r)}

Profit(set) == MapThenSumSet(LAMBDA s : profitOf[s], set)

\* The board: what each account that is shown has sold.
Salesboard(r) ==
  [a \in {a \in Sellers : shown[a] /\ \E s \in EligibleBookings(Boss, a, r) : TRUE} |-> Profit(EligibleBookings(Boss, a, r))]
-----------------------------------------------------------------------------
ReportInit ==
  /\ moment = Min(Moments)
  /\ confirmed = [s \in Sales |-> s \in Legacy]
  /\ history = [s \in Sales |-> {}]
  /\ touchedAt = [s \in Sales |-> Min(Moments)]
  /\ profitOf \in [Sales -> Profits \cup {Nothing}] /\ \A s \in Sales : profitOf[s] = Nothing <=> s \notin Legacy
  /\ shown = [a \in Staff |-> TRUE]
  /\ changes = 0 /\ saves = {} /\ written = [s \in Sales |-> 0]
  /\ viewer = Nothing /\ range = QuickRange("all", Today) /\ wanted = Nothing
  /\ listed = Nothing /\ rows = Nothing /\ counted = Nothing /\ summed = Nothing
  /\ disturbed = FALSE

TimeGoesOn ==
  /\ \E t \in Moments : t > moment /\ moment' = Min({x \in Moments : x > moment})
  /\ UNCHANGED <<books, shown, page, disturbed>>

\* A status that a save sets; most leave it alone.
SavedStatuses == {"CONFIRMED", "TICKETED", "as it is"}

\* updateTicketing up to its transaction: it reads the booking and refuses to leave it
\* confirmed without a cost.  p is the profit with the cost sent, Nothing when none is.
BeginSave(s, to, p) ==
  /\ changes < MaxChanges
  /\ to = "CONFIRMED" \/ (to = "as it is" /\ confirmed[s]) => p # Nothing \/ profitOf[s] # Nothing
  /\ changes' = changes + 1
  /\ saves' = saves \cup {[number |-> changes', sale |-> s, to |-> to, profit |-> p, was |-> confirmed[s], seen |-> written[s]]}
  /\ UNCHANGED <<moment, ledger, written, shown, page, disturbed>>

\* The booking, and a row of history when the status differs from the one it read.
Writes(w) ==
  /\ saves' = saves \ {w}
  /\ written' = [written EXCEPT ![w.sale] = @ + 1]
  /\ confirmed' = IF w.to = "as it is" THEN confirmed ELSE [confirmed EXCEPT ![w.sale] = w.to = "CONFIRMED"]
  /\ profitOf' = IF w.profit = Nothing THEN profitOf ELSE [profitOf EXCEPT ![w.sale] = w.profit]
  /\ touchedAt' = [touchedAt EXCEPT ![w.sale] = moment]
  /\ disturbed' = TRUE
  /\ UNCHANGED <<moment, changes, shown, page>>

\* Defect: every save of a confirmed booking is recorded as a confirmation.
EditConfirms(w) ==
  /\ Writes(w)
  /\ history' = IF confirmed'[w.sale] THEN [history EXCEPT ![w.sale] = @ \cup {moment}] ELSE history

\* Its transaction, which looks at the status no more.
CommitSave(w) ==
  /\ Writes(w)
  /\ history' = IF w.to = "CONFIRMED" /\ ~w.was THEN [history EXCEPT ![w.sale] = @ \cup {moment}] ELSE history

HideAccount(a) ==
  /\ shown' = [shown EXCEPT ![a] = ~@]
  /\ UNCHANGED <<moment, books, page, disturbed>>
-----------------------------------------------------------------------------
(* A page of commissions.  Its queries run side by side. *)

OpenReport(who, user, kind) ==
  /\ viewer = Nothing
  /\ viewer' = who /\ wanted' = user
  /\ range' = QuickRange(kind, Today)
  /\ listed' = Nothing /\ rows' = Nothing /\ counted' = Nothing /\ summed' = Nothing
  /\ disturbed' = FALSE
  /\ UNCHANGED <<moment, books, shown>>

ListSales ==
  /\ viewer # Nothing /\ listed = Nothing
  /\ listed' = EligibleBookings(viewer, wanted, range)
  /\ UNCHANGED <<moment, books, shown, viewer, range, wanted, rows, counted, summed, disturbed>>

\* The scope is applied again to the ids; a booking taken back meanwhile drops out.
FetchRows ==
  /\ listed # Nothing /\ rows = Nothing
  /\ rows' = {s \in listed : CountsFor(s, viewer, wanted)}
  /\ UNCHANGED <<moment, books, shown, viewer, range, wanted, listed, counted, summed, disturbed>>

CountSales ==
  /\ viewer # Nothing /\ counted = Nothing
  /\ counted' = EligibleBookings(viewer, wanted, range)
  /\ UNCHANGED <<moment, books, shown, viewer, range, wanted, listed, rows, summed, disturbed>>

SumSales ==
  /\ counted # Nothing /\ summed = Nothing
  /\ summed' = {s \in counted : CountsFor(s, viewer, wanted)}
  /\ UNCHANGED <<moment, books, shown, viewer, range, wanted, listed, rows, counted, disturbed>>

LeaveReport ==
  /\ rows # Nothing /\ summed # Nothing
  /\ viewer' = Nothing /\ wanted' = Nothing /\ range' = QuickRange("all", Today)
  /\ listed' = Nothing /\ rows' = Nothing /\ counted' = Nothing /\ summed' = Nothing
  /\ disturbed' = FALSE
  /\ UNCHANGED <<moment, books, shown>>

ReportNext ==
  \/ TimeGoesOn
  \/ \E s \in Sales, to \in SavedStatuses, p \in Profits \cup {Nothing} : BeginSave(s, to, p)
  \/ \E w \in saves : CommitSave(w)
  \/ \E a \in Sellers : HideAccount(a)
  \/ \E who \in Staff, user \in Sellers \cup {Nothing}, kind \in Offers : OpenReport(who, user, kind)
  \/ ListSales \/ FetchRows \/ CountSales \/ SumSales \/ LeaveReport

ReportSpec == ReportInit /\ [][ReportNext]_reportVars
-----------------------------------------------------------------------------
(***************************************************************************)
(* What the sales reports promise the people who are paid by them.         *)
(***************************************************************************)
ReportTypeOK ==
  /\ moment \in Moments /\ viewer \in Staff \cup {Nothing}
  /\ \A s \in Sales : history[s] \subseteq Moments /\ touchedAt[s] \in Moments /\ profitOf[s] \in Profits \cup {Nothing}
  /\ \A set \in {listed, rows, counted, summed} : set = Nothing \/ set \subseteq Sales
  /\ rows # Nothing => rows \subseteq listed
  /\ summed # Nothing => summed \subseteq counted

(* Nobody but the administrator is ever shown a sale that is not their own, *)
(* whichever user the page was asked for, in the rows or in the totals      *)
(* (commissions.ts:17-25, 262).                                             *)
OthersSalesStayHidden ==
  viewer \in Sellers =>
    \A set \in {rows, summed} : set = Nothing \/ \A s \in set : SentBy[s] = viewer

(* A report during which nothing was written shows one set of sales: the    *)
(* rows, the total number and the summary agree, and all of them are sales  *)
(* of the days asked for (commissions.ts:63-67, 244-246).                    *)
RowsAndTotalsAgree ==
  rows # Nothing /\ summed # Nothing /\ ~disturbed =>
    /\ rows = summed /\ rows = listed
    /\ \A s \in rows : confirmed[s] /\ InRange(s, range)

\* Another save of the same booking committed after this one had read it.
Crossed(w) == w.seen # written[w.sale]

CrossedSaveOf(s) == \E w \in saves \ saves' : w.sale = s /\ Crossed(w)

(* A sale in the ledger leaves its pay period only to be counted in the one *)
(* that is open, and only by being confirmed again: no later save carries   *)
(* it from a period that is over into another (sales-range.ts:28-33,        *)
(* pay-period.ts:8).  Except that of two saves that cross, both to          *)
(* CONFIRMED, each is recorded, and the later row carries the sale away.    *)
(* Sales older than the history keep the earlier rule.                      *)
SavesMoveNoSale ==
  [][\A s \in Sales :
       history[s] # {} /\ PeriodOfSale(s)' # PeriodOfSale(s) =>
         /\ confirmed'[s] /\ (confirmed[s] => CrossedSaveOf(s))
         /\ PeriodOfSale(s)' = PayPeriodContaining(CivilDateInZone(moment))]_reportVars

(* A sale taken back and confirmed again counts when it was confirmed again, *)
(* never silently in the period that had lost it, unless the saves crossed:  *)
(* one that had read CONFIRMED before the sale was taken back leaves no row  *)
(* (sales-range.ts:25-28, bookings.ts:239, 308-310).                         *)
ReturnsCountNow ==
  [][\A s \in Sales : ~confirmed[s] /\ confirmed'[s] => SaleAt(s)' = moment \/ CrossedSaveOf(s)]_reportVars

(* The board's figure for an account is the profit its own commission page  *)
(* lists for the same days, and every sale of the administrator's page is in *)
(* the figure of its seller, unless hidden (salesboard.ts:33-37, 56-61).     *)
BoardShowsTheSameSales ==
  \A kind \in Offers :
    LET r == QuickRange(kind, Today) IN
    /\ \A a \in DOMAIN Salesboard(r) : shown[a] /\ Salesboard(r)[a] = Profit(EligibleBookings(a, Nothing, r))
    /\ \A s \in EligibleBookings(Boss, Nothing, r) :
         shown[SentBy[s]] <=> SentBy[s] \in DOMAIN Salesboard(r) /\ s \in EligibleBookings(SentBy[s], Nothing, r)
=============================================================================

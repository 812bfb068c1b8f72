------------------------------- MODULE PayPeriods -------------------------------
(***************************************************************************)
(* lib/pay-period.ts: the agency's two pay periods a month and the         *)
(* calendar arithmetic under every date-range report.  A civil date is a   *)
(* record; an instant is an hour, counted from 1 January of FirstYear UTC; *)
(* the business zone is Los Angeles, whose two clock changes a year come   *)
(* from the platform's time-zone database.  The state is only the day it   *)
(* is, so that every day of the calendar is somebody's today.              *)
(***************************************************************************)
EXTENDS Integers, FiniteSets

CONSTANTS FirstYear, LastYear   \* the calendar considered

ASSUME CalendarYears == {FirstYear, LastYear} \subseteq Nat /\ FirstYear > 1900 /\ LastYear > FirstYear + 1

VARIABLE today   \* the civil date in the business zone

NoDate == [year |-> 0, month |-> 0, day |-> 0]
NoPeriod == [number |-> 0]
-----------------------------------------------------------------------------
(* Civil dates *)

IsLeap(y) == (y % 4 = 0 /\ y % 100 # 0) \/ y % 400 = 0

DaysInMonth(y, m) ==
  IF m = 2 THEN (IF IsLeap(y) THEN 29 ELSE 28) ELSE IF m \in {4, 6, 9, 11} THEN 30 ELSE 31

\* The calendar calculator: days since 1 January of FirstYear, and back.
DaysBefore == <<0, 31, 59, 90, 120, 151, 181, 212, 243, 273, 304, 334>>   \* the months of a common year
YearsBefore == [y \in FirstYear..(LastYear + 1) |-> 365 * (y - FirstYear) + Cardinality({x \in FirstYear..(y - 1) : IsLeap(x)})]

DayNumber(c) ==
  YearsBefore[c.year] + DaysBefore[c.month] + (IF c.month > 2 /\ IsLeap(c.year) THEN 1 ELSE 0) + c.day - 1

LastDay == DayNumber([year |-> LastYear, month |-> 12, day |-> 31])

DateOfDay == [n \in 0..LastDay |->
                LET y == CHOOSE y \in FirstYear..LastYear :
                           n - DayNumber([year |-> y, month |-> 1, day |-> 1]) \in 0..(IF IsLeap(y) THEN 365 ELSE 364)
                    m == CHOOSE m \in 1..12 : n - DayNumber([year |-> y, month |-> m, day |-> 1]) \in 0..(DaysInMonth(y, m) - 1)
                IN [year |-> y, month |-> m, day |-> n - DayNumber([year |-> y, month |-> m, day |-> 1]) + 1]]

AddDays(c, n) == DateOfDay[DayNumber(c) + n]
AddMonths(c, n) == LET i == c.year * 12 + c.month - 1 + n IN [year |-> i \div 12, month |-> (i % 12) + 1]
DaysBetween(a, b) == DayNumber(b) - DayNumber(a)
Earlier(a, b) == DayNumber(a) < DayNumber(b)
-----------------------------------------------------------------------------
(* Instants *)

\* 1 January 1901 was a Tuesday; 0 is Sunday.
FirstWeekday == (2 + 365 * (FirstYear - 1901) + Cardinality({x \in 1901..(FirstYear - 1) : IsLeap(x)})) % 7
Weekday(c) == (FirstWeekday + DayNumber(c)) % 7

NthSunday(y, m, nth) ==
  CHOOSE c \in {[year |-> y, month |-> m, day |-> d] : d \in (7 * nth - 6)..(7 * nth)} : Weekday(c) = 0

\* Clocks change at 2:00: hour 10 UTC in March, hour 9 UTC in November.
Summer == UNION {(24 * DayNumber(NthSunday(y, 3, 2)) + 10)..(24 * DayNumber(NthSunday(y, 11, 1)) + 8) : y \in FirstYear..LastYear}

ZoneOffset(hour) == IF hour \in Summer THEN -7 ELSE -8

CivilDateInZone(hour) == DateOfDay[(hour + ZoneOffset(hour)) \div 24]

StartOfCivilDay(c) ==
  LET guess == 24 * DayNumber(c) IN guess - ZoneOffset(guess - ZoneOffset(guess))

CivilRange(from, to) == [start |-> StartOfCivilDay(from), endExclusive |-> StartOfCivilDay(AddDays(to, 1))]
-----------------------------------------------------------------------------
(* Pay periods.  The key names the month the period ends in. *)

Period(pay, number, start, end) == [payYear |-> pay.year, payMonth |-> pay.month, number |-> number, start |-> start, end |-> end]
On(month, day) == [year |-> month.year, month |-> month.month, day |-> day]

PayPeriodContaining(c) ==
  CASE c.day <= 5  -> Period(c, 1, On(AddMonths(c, -1), 21), On(c, 5))
    [] c.day \in 6..20 -> Period(c, 2, On(c, 6), On(c, 20))
    [] c.day > 20 -> Period(AddMonths(c, 1), 1, On(c, 21), On(AddMonths(c, 1), 5))

PreviousPayPeriod(p) == PayPeriodContaining(AddDays(p.start, -1))
NextPayPeriod(p) == PayPeriodContaining(AddDays(p.end, 1))

PayPeriodFromKey(year, month, number) ==
  PayPeriodContaining([year |-> year, month |-> month, day |-> IF number = 1 THEN 1 ELSE 10])

MonthRange(m) == [from |-> On(m, 1), to |-> On(m, DaysInMonth(m.year, m.month))]
-----------------------------------------------------------------------------
(* The range a report shows *)

Kinds == {"pay-period", "previous-pay-period", "month", "previous-month", "year", "today", "week", "all"}

Resolved(kind, from, to, period, current) ==
  [kind |-> kind, from |-> from, to |-> to, payPeriod |-> period, isCurrent |-> period # NoPeriod /\ period = current]

QuickRange(kind, day) ==
  LET current == PayPeriodContaining(day)
      before == PreviousPayPeriod(current)
      sunday == AddDays(day, -Weekday(day))
      Month(m) == Resolved(kind, MonthRange(m).from, MonthRange(m).to, NoPeriod, current)
  IN CASE kind = "pay-period" -> Resolved(kind, current.start, current.end, current, current)
       [] kind = "previous-pay-period" -> Resolved(kind, before.start, before.end, before, current)
       [] kind = "month" -> Month(day)
       [] kind = "previous-month" -> Month(AddMonths(day, -1))
       [] kind = "year" -> Resolved(kind, On([day EXCEPT !.month = 1], 1), On([day EXCEPT !.month = 12], 31), NoPeriod, current)
       [] kind = "today" -> Resolved(kind, day, day, NoPeriod, current)
       [] kind = "week" -> Resolved(kind, sunday, AddDays(sunday, 6), NoPeriod, current)
       [] kind = "all" -> Resolved(kind, NoDate, NoDate, NoPeriod, current)

WholeMonth(r) == r.from.day = 1 /\ r.to = MonthRange(r.from).to

PreviousEquivalentRange(r) ==
  LET length == DaysBetween(r.from, r.to) + 1
      to == AddDays(r.from, -1)
      period == PreviousPayPeriod(r.payPeriod)
  IN CASE r.payPeriod # NoPeriod -> [from |-> period.start, to |-> period.end]
       [] r.payPeriod = NoPeriod /\ WholeMonth(r) -> MonthRange(AddMonths(r.from, -1))
       [] OTHER -> [from |-> AddDays(to, -(length - 1)), to |-> to]
-----------------------------------------------------------------------------
CalendarInit == today = [year |-> FirstYear + 2, month |-> 1, day |-> 1]

\* A day goes by; the calendar keeps two years before and one after for the ranges around it.
DayPasses == today.year < LastYear /\ today' = AddDays(today, 1)

CalendarNext == DayPasses
CalendarSpec == CalendarInit /\ [][CalendarNext]_today
-----------------------------------------------------------------------------
(***************************************************************************)
(* What the pay periods owe the reports, on every day of the calendar.     *)
(***************************************************************************)
Days(p) == {c \in {AddDays(p.start, n) : n \in 0..40} : ~Earlier(p.end, c)}

(* The periods cover the calendar without a gap, a day in two or a third    *)
(* period: today's period, the one before and the one after follow each    *)
(* other day by day, today is in its own and in no other, stepping on and  *)
(* back returns, every day of a period leads to that period, and its key   *)
(* leads back to it (pay-period.ts:1-12, 130, 149).                         *)
PeriodsTileTheCalendar ==
  LET p == PayPeriodContaining(today) IN
  /\ today \in Days(p)
  /\ today \notin Days(PreviousPayPeriod(p)) /\ today \notin Days(NextPayPeriod(p))
  /\ NextPayPeriod(PreviousPayPeriod(p)) = p /\ PreviousPayPeriod(NextPayPeriod(p)) = p
  /\ AddDays(PreviousPayPeriod(p).end, 1) = p.start /\ AddDays(p.end, 1) = NextPayPeriod(p).start
  /\ \A c \in Days(p) : PayPeriodContaining(c) = p
  /\ PayPeriodFromKey(p.payYear, p.payMonth, p.number) = p
  /\ p.payYear = p.end.year /\ p.payMonth = p.end.month

(* A day begins at the instant from which the business zone's calendar      *)
(* shows it and an hour before which it showed the day before, summer and   *)
(* winter and on both days the clocks change (pay-period.ts:110, "correct   *)
(* across daylight-saving changes").                                        *)
DaysBeginAtLocalMidnight ==
  LET start == StartOfCivilDay(today) IN
  /\ CivilDateInZone(start) = today
  /\ CivilDateInZone(start - 1) = AddDays(today, -1)
  /\ start + ZoneOffset(start) = 24 * DayNumber(today)

(* What a report compares with ends the day before the report begins, and   *)
(* is as long, unless both are whole months or both are pay periods, which  *)
(* are then consecutive (pay-period.ts:307-311).                            *)
ComparesWithTheRangeBefore ==
  \A kind \in Kinds \ {"all"} :
    LET r == QuickRange(kind, today) before == PreviousEquivalentRange(r) IN
    /\ AddDays(before.to, 1) = r.from
    /\ \/ DaysBetween(before.from, before.to) = DaysBetween(r.from, r.to)
       \/ WholeMonth(before) /\ WholeMonth(r)
       \/ PayPeriodContaining(before.to).start = before.from /\ NextPayPeriod(PayPeriodContaining(before.to)) = r.payPeriod
=============================================================================

----------------------------- MODULE GdsItinerary -----------------------------
(***************************************************************************)
(* Pasting an itinerary: lib/parsers/ reads the lines a reservation system *)
(* shows, lib/itinerary-parse-hydration.ts makes them the segments of the  *)
(* quote builder and lib/flight-duration.ts adds their hours up.  A token  *)
(* is a function from the shapes its text has (a token may look like       *)
(* several things) to what the text means in that shape; a line is a       *)
(* sequence of tokens.  Clock times are whole hours.                       *)
(***************************************************************************)
EXTENDS PayPeriods, SequencesExt

CONSTANTS
  Pastes,       \* sequences of flights as agents write them, one line or two each
  Zones,        \* [airport codes of the reference data -> UTC offset, or Unread]
  PasteDays,    \* the days on which something is pasted
  Unread        \* not found on the line

VARIABLES
  pasted,       \* the flights of the last paste, as written
  itinerary     \* what the builder made of it

gdsVars == <<today, pasted, itinerary>>
-----------------------------------------------------------------------------
(* Lines.  "SS1" also looks like a flight of airline SS, "738" like a time, *)
(* "FR" like an airline, "1830" and "1460" like a flight number.            *)

Status == [knownStatus |-> "SS", flight |-> "SS1", status |-> "SS"]
Equipment == [equipment |-> "738", number |-> "738", time |-> [hour |-> 7, mark |-> 0]]
TimeToken(hour, mark) == [time |-> [hour |-> hour, mark |-> mark], number |-> hour]

Has(part, token) == IF part THEN <<token>> ELSE <<>>

Written(f) ==
  (IF f.split THEN <<[airline |-> f.flight], [number |-> f.flight]>> ELSE <<[flight |-> f.flight]>>)
    \o <<[date |-> f.on]>>
    \o Has(f.weekday # Unread, [weekday |-> f.weekday, airline |-> "FR"])
    \o (IF f.loose THEN <<[airport |-> f.from], [airport |-> f.to]>> ELSE <<[route |-> <<f.from, f.to>>]>>)
    \o <<[star |-> "*"], Status, TimeToken(f.dep, 0), TimeToken(f.arr, f.mark)>>
    \o Has(f.plus # 0, [offset |-> f.plus])
    \o Has(f.arrivesOn # NoDate, [date |-> f.arrivesOn])
    \o Has(f.pair # Unread, [pair |-> f.pair])
    \o <<Equipment>>

Text(flights) ==
  FlattenSeq([i \in DOMAIN flights |-> <<Written(flights[i])>> \o Has(flights[i].operated, <<[operatedBy |-> "another airline"]>>)])
-----------------------------------------------------------------------------
(* One line.  Rules are tried in order on each token. *)

ReadRules == <<"knownStatus", "flight", "airline", "date", "arrivalDate", "route", "airport", "star",
               "offset", "pair", "weekday", "status", "time", "equipment">>

ParseGdsDate(d, year) ==
  LET y == IF d.year = 0 THEN year ELSE d.year
  IN IF d.day <= DaysInMonth(y, d.month) THEN [d EXCEPT !.year = y] ELSE NoDate

Shape(rule) == IF rule = "arrivalDate" THEN "date" ELSE rule

Wants(rule, tokens, i, r, year) ==
  /\ Shape(rule) \in DOMAIN tokens[i]
  /\ rule \in {"flight", "airline"} => r.flight = Unread
  /\ rule = "airline" => i < Len(tokens) /\ "number" \in DOMAIN tokens[i + 1]
  /\ Shape(rule) = "date" => r[rule] = NoDate /\ ParseGdsDate(tokens[i].date, year) # NoDate
  /\ rule = "arrivalDate" => r.date # NoDate
  /\ rule \in {"route", "offset", "pair", "weekday", "equipment"} => r[rule] = Unread
  /\ rule = "airport" => r.route = Unread /\ Len(r.airport) < 2
  /\ rule = "time" => Len(r.time) < 2

Take(rule, token, r, year) ==
  CASE rule \in {"knownStatus", "star", "status"} -> r
    [] rule = "airline" -> [r EXCEPT !.flight = token.airline, !.taken = TRUE]   \* with the number after it
    [] rule = "date" -> [r EXCEPT !.date = ParseGdsDate(token.date, year), !.yearGiven = token.date.year # 0]
    [] rule = "arrivalDate" -> [r EXCEPT !.arrivalDate = ParseGdsDate(token.date, year)]
    [] rule \in {"time", "airport"} -> [r EXCEPT ![rule] = Append(@, token[rule])]
    [] OTHER -> [r EXCEPT ![rule] = token[rule]]

NothingRead ==
  [r \in {"flight", "route", "offset", "pair", "weekday", "equipment"} |-> Unread] @@ [r \in {"time", "airport"} |-> <<>>]
    @@ [date |-> NoDate, arrivalDate |-> NoDate, yearGiven |-> FALSE, taken |-> FALSE]

ReadToken(tokens, year, r, i) ==
  LET rules == {n \in DOMAIN ReadRules : Wants(ReadRules[n], tokens, i, r, year)}
  IN IF r.taken THEN [r EXCEPT !.taken = FALSE]
     ELSE IF rules = {} THEN r
     ELSE Take(ReadRules[CHOOSE n \in rules : \A m \in rules : n <= m], tokens[i], r, year)

ReadLine(tokens, year) ==
  LET read[i \in 0..Len(tokens)] == IF i = 0 THEN NothingRead ELSE ReadToken(tokens, year, read[i - 1], i) IN read[Len(tokens)]

\* Days from one weekday to another, the fewest that fit.
ResolveDayPairOffset(pair) ==
  LET forward == (pair[2] - pair[1] + 7) % 7 IN IF forward <= 3 THEN forward ELSE forward - 7

\* The signals of the arrival day, strongest first.
Signals(r) ==
  Has(r.offset # Unread, r.offset) \o (IF Len(r.time) = 2 /\ r.time[2].mark # 0 THEN <<r.time[2].mark>> ELSE <<>>)
    \o (IF r.pair # Unread THEN <<ResolveDayPairOffset(r.pair)>> ELSE <<>>)

Mark(field, doubtful) == IF doubtful THEN {field} ELSE {}

\* The fields to be reviewed: in doubt, or not found.
Doubts(r, arrives) ==
  LET signals == Signals(r)
      conflict == Cardinality({signals[i] : i \in DOMAIN signals}) > 1
      says == IF r.pair # Unread THEN r.pair[1] ELSE r.weekday
  IN Mark("arrivalDate", \/ arrives = NoDate \/ conflict
                         \/ r.arrivalDate = NoDate /\ signals = <<>> /\ r.time[2].hour < r.time[1].hour
                         \/ r.pair # Unread /\ Weekday(arrives) # r.pair[2])
     \cup Mark("departureDate", r.date = NoDate \/ (says # Unread /\ Weekday(r.date) # says))
     \cup {field \in {"flight", "route"} : r[field] = Unread}

ParseGdsLine(tokens, year) ==
  LET read == ReadLine(tokens, year)
      r == IF read.route = Unread /\ Len(read.airport) = 2 THEN [read EXCEPT !.route = read.airport] ELSE read
      offset == IF Signals(r) = <<>> THEN 0 ELSE Head(Signals(r))
      arrives == CASE r.arrivalDate # NoDate -> r.arrivalDate
                   [] r.arrivalDate = NoDate /\ r.date # NoDate -> AddDays(r.date, offset)
                   [] OTHER -> NoDate
  IN [flight |-> r.flight, from |-> r.route[1], to |-> r.route[2], date |-> r.date, yearGiven |-> r.yearGiven,
      dep |-> r.time[1].hour, arr |-> r.time[2].hour, arrivalDate |-> arrives, equipment |-> r.equipment,
      operatedBy |-> Unread, doubts |-> Doubts(r, arrives), connection |-> "MULTI_CITY"]
-----------------------------------------------------------------------------
(* The whole text *)

\* The day after 28 February stands for a leap day in a common year.
AddYears(c, n) ==
  IF c = NoDate \/ c.day <= DaysInMonth(c.year + n, c.month) THEN (IF c = NoDate THEN c ELSE [c EXCEPT !.year = @ + n])
  ELSE [year |-> c.year + n, month |-> 3, day |-> 1]

Later(s, n) == IF n = 0 \/ s.date = NoDate THEN s ELSE [s EXCEPT !.date = AddYears(@, n), !.arrivalDate = AddYears(@, n)]

\* Defect: a turn of the year is forgotten again by the segment after it.
TurnsOnce(acc, s) ==
  LET turns == s.date # NoDate /\ acc.before # NoDate /\ Earlier(s.date, acc.before)
      moved == Later(s, IF turns THEN 1 ELSE 0)
  IN [done |-> Append(acc.done, moved), years |-> 0, before |-> IF s.date = NoDate THEN acc.before ELSE moved.date]

\* Years already turned carry over to all that follow.
TurnOfYear(acc, s) ==
  LET carried == Later(s, acc.years)
      turns == s.date # NoDate /\ acc.before # NoDate /\ Earlier(carried.date, acc.before)
      moved == Later(carried, IF turns THEN 1 ELSE 0)
  IN [done |-> Append(acc.done, moved), years |-> acc.years + IF turns THEN 1 ELSE 0,
      before |-> IF s.date = NoDate THEN acc.before ELSE moved.date]

CorrectYearRollover(segments) == FoldLeft(TurnOfYear, [done |-> <<>>, years |-> 0, before |-> NoDate], segments).done

RollForwardIfEntirelyPast(segments, day) ==
  LET dated == {i \in DOMAIN segments : segments[i].date # NoDate}
  IN IF /\ \A i \in DOMAIN segments : ~segments[i].yearGiven
        /\ \E i \in dated : Earlier(segments[i].date, day)
     THEN [i \in DOMAIN segments |-> Later(segments[i], 1)] ELSE segments

\* A line of its own names the carrier that flies the segment above it.
AddLine(segments, tokens, year) ==
  IF "operatedBy" \in DOMAIN tokens[1]
  THEN IF segments = <<>> THEN segments ELSE [segments EXCEPT ![Len(segments)].operatedBy = tokens[1].operatedBy]
  ELSE Append(segments, ParseGdsLine(tokens, year))

ParseGdsItinerary(text, year, day) ==
  LET Add(segments, tokens) == AddLine(segments, tokens, year)
  IN CorrectYearRollover(RollForwardIfEntirelyPast(FoldLeft(Add, <<>>, text), day))
-----------------------------------------------------------------------------
(* Hours *)

Zoned(airport) == airport \in DOMAIN Zones /\ Zones[airport] # Unread

\* Elapsed hours; local times are subtracted as they are where a zone is unknown.
Elapsed(fromDate, fromHour, from, toDate, toHour, to) ==
  24 * DaysBetween(fromDate, toDate) + toHour - fromHour - (IF Zoned(from) /\ Zoned(to) THEN Zones[to] - Zones[from] ELSE 0)

Duration(s) == Elapsed(s.date, s.dep, s.from, s.arrivalDate, s.arr, s.to)
Ground(s, next) == Elapsed(s.arrivalDate, s.arr, s.to, next.date, next.dep, next.from)

Complete(s) == s.date # NoDate /\ s.arrivalDate # NoDate

\* The builder's segments: unknown codes are marked, short stops are layovers.
Hydrate(segments) ==
  [i \in DOMAIN segments |->
     [segments[i] EXCEPT
        !.doubts = @ \cup Mark("from", segments[i].from \notin DOMAIN Zones) \cup Mark("to", segments[i].to \notin DOMAIN Zones),
        !.connection =
          IF i > 1 /\ Complete(segments[i - 1]) /\ Complete(segments[i]) /\ Ground(segments[i - 1], segments[i]) \in 0..24
          THEN "LAYOVER" ELSE "MULTI_CITY"]]

\* The journey that begins with segment i: the layovers after it belong to it.
Journey(segments, i) ==
  LET last == CHOOSE j \in i..Len(segments) : /\ \A k \in (i + 1)..j : segments[k].connection = "LAYOVER"
                                              /\ j < Len(segments) => segments[j + 1].connection # "LAYOVER"
  IN SubSeq(segments, i, last)

TotalJourney(legs) ==
  LET last == legs[Len(legs)] IN Elapsed(legs[1].date, legs[1].dep, legs[1].from, last.arrivalDate, last.arr, last.to)
-----------------------------------------------------------------------------
GdsInit == today \in PasteDays /\ pasted = <<>> /\ itinerary = <<>>

\* The text is read against the year it is, which the builder presets.
PasteItinerary(flights) ==
  /\ pasted' = flights
  /\ itinerary' = Hydrate(ParseGdsItinerary(Text(flights), today.year, today))
  /\ UNCHANGED today

GdsNext == pasted = <<>> /\ \E flights \in Pastes : PasteItinerary(flights)

GdsSpec == GdsInit /\ [][GdsNext]_gdsVars
-----------------------------------------------------------------------------
(***************************************************************************)
(* What a pasted itinerary may be relied on for.                           *)
(***************************************************************************)
Undated == \A i \in DOMAIN pasted : pasted[i].on.year = 0
LeapDay(c) == c.month = 2 /\ c.day = 29

(* Every flight is read from its own line or lines, whatever its tokens     *)
(* also look like and in whichever layout it came: airline and number, the  *)
(* airports, both times, the aircraft and the operating carrier; and dates  *)
(* that have their year and are in order are left alone (gds-line.ts:43-56, *)
(* shared.ts:43-47).                                                         *)
WhatIsWrittenIsRead ==
  /\ Len(itinerary) = Len(pasted)
  /\ \A i \in DOMAIN pasted :
       LET f == pasted[i] s == itinerary[i] IN
       /\ <<s.flight, s.from, s.to, s.dep, s.arr>> = <<f.flight, f.from, f.to, f.dep, f.arr>>
       /\ s.equipment = "738" /\ (s.operatedBy # Unread) = f.operated
  /\ (/\ \A i \in DOMAIN pasted : pasted[i].on.year # 0
      /\ \A i \in 2..Len(pasted) : ~Earlier(pasted[i].on, pasted[i - 1].on))
     => \A i \in DOMAIN pasted : itinerary[i].date = pasted[i].on

(* An itinerary written without years lies ahead of the day it is pasted    *)
(* on, and no flight is before the one above it or a year after it          *)
(* (gds-line.ts:409-415, 449-462).                                          *)
UndatedFlightsLieAhead ==
  Undated =>
    LET dated == SelectSeq(itinerary, LAMBDA s : s.date # NoDate) IN
    /\ \A i \in DOMAIN dated : ~Earlier(dated[i].date, today)
    /\ \A i \in 2..Len(dated) : DaysBetween(dated[i - 1].date, dated[i].date) \in 0..366

(* However the years were corrected, a flight arrives as many days after it *)
(* leaves as the strongest sign on its line says; where signs contradict    *)
(* each other the arrival is marked (gds-line.ts:245-271, 313-323).         *)
ArrivalFollowsItsSign ==
  \A i \in DOMAIN pasted :
    LET f == pasted[i] s == itinerary[i]
        pairs == IF f.pair = Unread THEN 0 ELSE ResolveDayPairOffset(f.pair)
    IN f.arrivesOn = NoDate /\ s.date # NoDate /\ ~LeapDay(f.on) =>
         /\ DaysBetween(s.date, s.arrivalDate) = (CASE f.plus # 0 -> f.plus [] f.plus = 0 /\ f.mark # 0 -> f.mark [] OTHER -> pairs)
         /\ (f.plus # 0 /\ f.mark # 0 /\ f.plus # f.mark) => "arrivalDate" \in s.doubts

(* The hours on the cards are those of the summary above them: flights and  *)
(* connections of a journey add up to its total, and none of the            *)
(* connections is negative or longer than a day (flight-duration.ts:56-63,  *)
(* itinerary-parse-hydration.ts:86-89).                                      *)
JourneysAddUp ==
  \A i \in DOMAIN itinerary :
    LET legs == Journey(itinerary, i) n == Len(legs)
        spent[k \in 1..n] == Duration(legs[k]) + IF k = 1 THEN 0 ELSE spent[k - 1] + Ground(legs[k - 1], legs[k])
    IN (\A k \in 1..n : Complete(legs[k]) /\ Zoned(legs[k].from) /\ Zoned(legs[k].to)) =>
         /\ spent[n] = TotalJourney(legs)
         /\ \A k \in 2..n : Ground(legs[k - 1], legs[k]) \in 0..24

ItinerariesAreSound == WhatIsWrittenIsRead /\ UndatedFlightsLieAhead /\ ArrivalFollowsItsSign /\ JourneysAddUp
=============================================================================

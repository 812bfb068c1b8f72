----------------------------- MODULE Desk_proofs -----------------------------
(***************************************************************************)
(* What people read and enter, for any instance: the forms of agents,      *)
(* customers and administrators with the requests they send, and all parts *)
(* of the desk together.                                                   *)
(*                                                                         *)
(* A form's invariant is about the requests under way: what a tab shows,   *)
(* what it sent and what was answered belong to one save, and what is      *)
(* stored is what one of the saves carried.  The import's is about its     *)
(* columns: a row has a list of values for every channel's columns, and    *)
(* the lines last pasted lie in the table as they were pasted.             *)
(***************************************************************************)
EXTENDS MCDesk, Readings_proofs
-----------------------------------------------------------------------------
(* The customer's booking form *)

\* A card's code was typed in after the last definite answer, if it is there.
CardsAfter(h) == Seq([number : BOOLEAN, code : {NoCode, h}])

\* One slot per fare, of its type.
Slotted(ps) == DOMAIN ps = DOMAIN Fares /\ \A i \in DOMAIN Fares : "type" \in DOMAIN ps[i] /\ ps[i].type = Fares[i]

\* A tab's form: a slot for every fare, and cards typed in since the last definite answer.
FormStands(f, h) ==
  f \in [passengers : {f.passengers}, cards : CardsAfter(h), reviewing : BOOLEAN] /\ Slotted(f.passengers)

\* A request of a tab and what it was answered.
RequestStands(q) ==
  /\ q \in [tab : {q.tab}, signer : {q.signer}, passengers : {q.passengers},
            step : {"sent", "prepared", "recheck", "done"}, answer : {"none", "yes", "no", "unknown"}]
  /\ Slotted(q.passengers)
  /\ q.step = "done" <=> q.answer # "none"

Submitted == requests \in Seq({requests[r] : r \in DOMAIN requests}) /\ \A r \in DOMAIN requests : RequestStands(requests[r])

\* Who made the Booking row knows, or is about to look; nobody else is told yes.
BookedStands ==
  /\ booked \in DOMAIN requests \cup {0} /\ (offer = "SIGNED" <=> booked # 0)
  /\ booked # 0 => requests[booked].step \in {"recheck", "done"} /\ requests[booked].answer # "no"
  /\ YesIsBooked

\* What the tabs show and wait for.
PagesStand ==
  /\ heard \in [Tabs -> Nat] /\ waiting \in [Tabs -> DOMAIN requests \cup {0}]
  /\ form \in [Tabs -> {form[t] : t \in Tabs}] /\ \A t \in Tabs : FormStands(form[t], heard[t])

\* The invariant behind the customer's form.
BookInv == Submitted /\ BookedStands /\ PagesStand

\* Taking one member out of a list.
LEMMA RemovesOne ==
  ASSUME NEW S, NEW s \in Seq(S), NEW i \in DOMAIN s PROVE RemoveAt(s, i) \in Seq(S) /\ Len(RemoveAt(s, i)) = Len(s) - 1
<1>1. i \in 1..Len(s) /\ Len(s) \in Nat
  OBVIOUS
<1>2. /\ SubSeq(s, 1, i - 1) \in Seq(S) /\ Len(SubSeq(s, 1, i - 1)) = i - 1
      /\ SubSeq(s, i + 1, Len(s)) \in Seq(S) /\ Len(SubSeq(s, i + 1, Len(s))) = Len(s) - i
  <2>1. \A m, n \in Int : (\A k \in m..n : s[k] \in S) =>
          SubSeq(s, m, n) \in Seq(S) /\ Len(SubSeq(s, m, n)) = IF m <= n THEN n - m + 1 ELSE 0
    BY SubSeqProperties
  <2>2. (\A k \in 1..(i - 1) : s[k] \in S) /\ \A k \in (i + 1)..Len(s) : s[k] \in S
    BY <1>1
  <2>3. /\ SubSeq(s, 1, i - 1) \in Seq(S) /\ Len(SubSeq(s, 1, i - 1)) = (IF 1 <= i - 1 THEN (i - 1) - 1 + 1 ELSE 0)
        /\ SubSeq(s, i + 1, Len(s)) \in Seq(S) /\ Len(SubSeq(s, i + 1, Len(s))) = (IF i + 1 <= Len(s) THEN Len(s) - (i + 1) + 1 ELSE 0)
    <3>1. i - 1 \in Int /\ i + 1 \in Int /\ Len(s) \in Int
      BY <1>1
    <3> QED
      BY <3>1, <2>1, <2>2
  <2> QED
    BY <1>1, <2>3
<1> QED
  <2> DEFINE a == SubSeq(s, 1, i - 1)  b == SubSeq(s, i + 1, Len(s))  n == Len(s)  r == RemoveAt(s, i)
  <2>1. r = a \o b /\ a \in Seq(S) /\ b \in Seq(S) /\ Len(a) = i - 1 /\ Len(b) = n - i /\ i \in Int /\ n \in Int
    BY <1>1, <1>2 DEF RemoveAt
  <2> HIDE DEF a, b, n, r
  <2>2. r \in Seq(S) /\ Len(r) = Len(a) + Len(b)
    BY <2>1, ConcatProperties
  <2>3. r \in Seq(S) /\ Len(r) = n - 1
    BY <2>1, <2>2
  <2> QED
    BY <2>3 DEF r, n

\* A sequence that grows keeps what it holds.
LEMMA GrowsByOne ==
  ASSUME NEW s, s \in Seq({s[r] : r \in DOMAIN s}), NEW x
  PROVE  /\ Append(s, x) \in Seq({Append(s, x)[r] : r \in DOMAIN Append(s, x)})
         /\ Len(s) + 1 \in DOMAIN Append(s, x) /\ DOMAIN s \subseteq DOMAIN Append(s, x)
         /\ Append(s, x)[Len(s) + 1] = x /\ \A r \in DOMAIN s : Append(s, x)[r] = s[r]
         /\ \A r \in DOMAIN Append(s, x) : r \in DOMAIN s \/ r = Len(s) + 1
<1> DEFINE S == {s[r] : r \in DOMAIN s} \cup {x}  a == Append(s, x)
<1>1. s \in Seq(S) /\ Len(s) \in Nat /\ DOMAIN s = 1..Len(s)
  OBVIOUS
<1> HIDE DEF S
<1>2. a \in Seq(S) /\ Len(a) = Len(s) + 1 /\ DOMAIN a = 1..(Len(s) + 1)
  BY <1>1 DEF S
<1>3. a[Len(s) + 1] = x /\ \A r \in 1..Len(s) : a[r] = s[r]
  BY <1>1 DEF S
<1> HIDE DEF a
<1>4. a \in [1..(Len(s) + 1) -> {a[r] : r \in DOMAIN a}]
  <2>1. a \in [1..(Len(s) + 1) -> S]
    BY <1>2
  <2> QED
    BY <2>1
<1>5. a \in Seq({a[r] : r \in DOMAIN a})
  <2> DEFINE R == {a[r] : r \in DOMAIN a}
  <2>1. a \in [1..(Len(s) + 1) -> R] /\ Len(s) + 1 \in Nat
    BY <1>1, <1>4
  <2> HIDE DEF R
  <2>2. a \in Seq(R)
    BY <2>1
  <2> QED
    BY <2>2 DEF R
<1> QED
  BY <1>1, <1>2, <1>3, <1>5 DEF a

\* The form as it is opened, and every move on it.
LEMMA BookingStarts == ASSUME BookingFormInit PROVE BookInv
<1>1. ASSUME NEW exchange \in BOOLEAN PROVE FormStands(FormOf(exchange), 0)
  <2>1. Slotted(Prefilled(exchange))
    BY DEF Prefilled, Slotted
  <2>2. <<EmptyCard>> \in CardsAfter(0)
    BY DEF EmptyCard, CardsAfter
  <2> QED
    BY <2>1, <2>2 DEF FormStands, FormOf
<1>2. Submitted
  BY DEF BookingFormInit, Submitted
<1>3. BookedStands
  BY DEF BookingFormInit, BookedStands, YesIsBooked
<1>4. PagesStand
  <2>1. heard \in [Tabs -> Nat] /\ waiting \in [Tabs -> DOMAIN requests \cup {0}] /\ \A t \in Tabs : heard[t] = 0
    BY DEF BookingFormInit
  <2>2. PICK exchange \in BOOLEAN : form = [t \in Tabs |-> FormOf(exchange)]
    BY DEF BookingFormInit
  <2>3. form \in [Tabs -> {form[t] : t \in Tabs}] /\ \A t \in Tabs : form[t] = FormOf(exchange)
    BY <2>2
  <2> QED
    BY <2>1, <2>3, <1>1 DEF PagesStand
<1> QED
  BY <1>2, <1>3, <1>4 DEF BookInv

LEMMA FillKeepsBookings ==
  ASSUME BookInv, NEW t \in Tabs, NEW next, Fill(t, next), FormStands(next, heard[t]) PROVE BookInv'
<1>1. Submitted' /\ BookedStands'
  BY DEF Fill, BookInv, Submitted, BookedStands, YesIsBooked
<1>2. form' \in [Tabs -> {form'[x] : x \in Tabs}] /\ \A x \in Tabs : form'[x] = IF x = t THEN next ELSE form[x]
  BY DEF Fill, BookInv, PagesStand
<1>3. PagesStand'
  BY <1>2 DEF Fill, BookInv, PagesStand
<1> QED
  BY <1>1, <1>3 DEF BookInv

LEMMA FormMovesKeepBookings ==
  ASSUME BookInv, NEW t \in Tabs,
         \/ AddCard(t) \/ BookFlight(t) \/ EditAgain(t)
         \/ \E i \in DOMAIN Fares, p \in DOMAIN Travellers : ApplyPrevious(t, i, p)
         \/ \E i \in DOMAIN form[t].cards : TypeCard(t, i) \/ RemoveCard(t, i)
  PROVE  BookInv'
<1> DEFINE f == form[t]  h == heard[t]  Was == [number : BOOLEAN, code : {NoCode, h}]
<1>1. /\ f \in [passengers : {f.passengers}, cards : Seq(Was), reviewing : BOOLEAN] /\ Slotted(f.passengers)
  BY DEF BookInv, PagesStand, FormStands, CardsAfter
<1>2. f.cards \in Seq(Was) /\ EmptyCard \in Was /\ [number |-> TRUE, code |-> h] \in Was
  BY <1>1 DEF EmptyCard
<1>3. ASSUME NEW cards \in Seq(Was), Fill(t, [f EXCEPT !.cards = cards]) PROVE BookInv'
  <2>1. FormStands([f EXCEPT !.cards = cards], h)
    BY <1>1, <1>3 DEF FormStands, CardsAfter
  <2> QED
    BY <1>3, <2>1, FillKeepsBookings
<1>4. CASE AddCard(t)
  <2>1. Append(f.cards, EmptyCard) \in Seq(Was)
    BY <1>2
  <2>2. Fill(t, [f EXCEPT !.cards = Append(f.cards, EmptyCard)])
    BY <1>4 DEF AddCard
  <2> QED
    BY <2>1, <2>2, <1>3
<1>5. ASSUME NEW i \in DOMAIN f.cards, RemoveCard(t, i) PROVE BookInv'
  <2>1. RemoveAt(f.cards, i) \in Seq(Was)
    BY <1>2, RemovesOne
  <2>2. Fill(t, [f EXCEPT !.cards = RemoveAt(f.cards, i)])
    BY <1>5 DEF RemoveCard
  <2> QED
    BY <2>1, <2>2, <1>3
<1>6. ASSUME NEW i \in DOMAIN f.cards, TypeCard(t, i) PROVE BookInv'
  <2>1. [f.cards EXCEPT ![i] = [number |-> TRUE, code |-> h]] \in Seq(Was)
    BY <1>2
  <2>2. Fill(t, [f EXCEPT !.cards = [f.cards EXCEPT ![i] = [number |-> TRUE, code |-> h]]])
    BY <1>6 DEF TypeCard
  <2> QED
    BY <2>1, <2>2, <1>3
<1>7. ASSUME NEW b \in BOOLEAN, Fill(t, [f EXCEPT !.reviewing = b]) PROVE BookInv'
  <2>1. FormStands([f EXCEPT !.reviewing = b], h)
    BY <1>1 DEF FormStands, CardsAfter
  <2> QED
    BY <1>7, <2>1, FillKeepsBookings
<1>8. ASSUME NEW i \in DOMAIN Fares, NEW p \in DOMAIN Travellers, ApplyPrevious(t, i, p) PROVE BookInv'
  <2> DEFINE n == [f EXCEPT !.passengers[i].who = p]  ps == [f.passengers EXCEPT ![i].who = p]
  <2>1. Slotted(ps)
    BY <1>1 DEF Slotted
  <2>2. n = [f EXCEPT !.passengers = ps]
    BY <1>1
  <2> HIDE DEF ps
  <2>3. FormStands([f EXCEPT !.passengers = ps], h)
    BY <1>1, <2>1 DEF FormStands, CardsAfter
  <2>4. Fill(t, n)
    BY <1>8 DEF ApplyPrevious
  <2> QED
    BY <2>2, <2>3, <2>4, FillKeepsBookings
<1> QED
  BY <1>4, <1>5, <1>6, <1>7, <1>8 DEF BookFlight, EditAgain

\* Requests: sent, worked on and heard of.
LEMMA SubmissionKeepsBookings ==
  ASSUME BookInv, NEW t \in Tabs, NEW s \in Signers, FinishBooking(t, s) PROVE BookInv'
<1> DEFINE q == [tab |-> t, signer |-> s, passengers |-> form[t].passengers, step |-> "sent", answer |-> "none"]
<1>1. RequestStands(q)
  BY DEF BookInv, PagesStand, FormStands, RequestStands
<1>2. requests' = Append(requests, q) /\ requests \in Seq({requests[r] : r \in DOMAIN requests})
  BY DEF FinishBooking, BookInv, Submitted
<1>3. q.answer = "none"
  OBVIOUS
<1> HIDE DEF q
<1>4. /\ requests' \in Seq({requests'[r] : r \in DOMAIN requests'})
      /\ Len(requests) + 1 \in DOMAIN requests' /\ DOMAIN requests \subseteq DOMAIN requests'
      /\ requests'[Len(requests) + 1] = q /\ \A r \in DOMAIN requests : requests'[r] = requests[r]
      /\ \A r \in DOMAIN requests' : r \in DOMAIN requests \/ r = Len(requests) + 1
  BY <1>2, GrowsByOne
<1>5. Submitted'
  BY <1>1, <1>4 DEF BookInv, Submitted
<1>6. BookedStands'
  <2>1. booked' = booked /\ offer' = offer
    BY DEF FinishBooking
  <2>2. booked # 0 => booked \in DOMAIN requests /\ requests'[booked] = requests[booked]
    BY <1>4 DEF BookInv, BookedStands
  <2>3. YesIsBooked'
    BY <2>1, <2>2, <1>3, <1>4 DEF BookInv, BookedStands, YesIsBooked
  <2> QED
    BY <2>1, <2>2, <2>3, <1>4 DEF BookInv, BookedStands
<1>7. PagesStand'
  <2>1. waiting' = [waiting EXCEPT ![t] = Len(requests) + 1] /\ UNCHANGED <<form, heard>>
    BY DEF FinishBooking
  <2>2. waiting' \in [Tabs -> DOMAIN requests' \cup {0}]
    BY <2>1, <1>4 DEF BookInv, PagesStand
  <2> QED
    BY <2>1, <2>2 DEF BookInv, PagesStand
<1> QED
  BY <1>5, <1>6, <1>7 DEF BookInv

\* A step of the server on one submission that is not answered yet.
LEMMA MoveKeepsBookings ==
  ASSUME BookInv, NEW r \in DOMAIN requests, requests[r].step # "done",
         NEW step \in {"sent", "prepared", "recheck", "done"}, NEW answer \in {"none", "yes", "no", "unknown"},
         step = "done" <=> answer # "none", Moves(r, step, answer),
         booked' \in {booked, r}, offer' = "SIGNED" <=> booked' # 0,
         booked # 0 => booked' = booked,
         booked' = r => step \in {"recheck", "done"} /\ answer # "no",
         answer = "yes" => booked' # 0 /\ requests[booked'].signer = requests[r].signer
  PROVE  BookInv'
<1>1. requests \in Seq({requests[x] : x \in DOMAIN requests}) /\ \A x \in DOMAIN requests : RequestStands(requests[x])
  BY DEF BookInv, Submitted
<1> DEFINE q == [requests[r] EXCEPT !.step = step, !.answer = answer]
<1>2. requests' = [requests EXCEPT ![r] = q] /\ UNCHANGED <<form, at, waiting, heard>>
  BY DEF Moves
<1>3. RequestStands(q) /\ q.step = step /\ q.answer = answer /\ q.signer = requests[r].signer
  BY <1>1 DEF RequestStands
<1> HIDE DEF q
<1>4. /\ DOMAIN requests' = DOMAIN requests /\ \A x \in DOMAIN requests : requests'[x] = IF x = r THEN q ELSE requests[x]
  BY <1>1, <1>2
<1>5. requests' \in Seq({requests'[x] : x \in DOMAIN requests'})
  <2> DEFINE R == {requests'[x] : x \in DOMAIN requests'}
  <2>1. requests' \in [1..Len(requests) -> R] /\ Len(requests) \in Nat
    BY <1>1, <1>2, <1>4
  <2> HIDE DEF R
  <2>2. requests' \in Seq(R)
    BY <2>1
  <2> QED
    BY <2>2 DEF R
<1>6. Submitted'
  BY <1>3, <1>4, <1>5, <1>1 DEF Submitted
<1>7. BookedStands'
  <2>1. booked \in DOMAIN requests \cup {0} /\ booked' \in DOMAIN requests' \cup {0} /\ 0 \notin DOMAIN requests
    BY <1>1, <1>4 DEF BookInv, BookedStands
  <2>2. \A x \in DOMAIN requests : requests'[x].signer = requests[x].signer
    BY <1>3, <1>4
  <2>3. booked' # 0 => requests'[booked'].step \in {"recheck", "done"} /\ requests'[booked'].answer # "no"
    BY <2>1, <1>3, <1>4 DEF BookInv, BookedStands
  <2>4. YesIsBooked'
    <3>1. ASSUME NEW x \in DOMAIN requests, requests'[x].answer = "yes" PROVE booked' # 0 /\ requests'[booked'].signer = requests'[x].signer
      <4>1. CASE x = r
        BY <4>1, <3>1, <2>1, <2>2, <1>3, <1>4
      <4>2. CASE x # r
        <5>1. booked # 0 /\ requests[booked].signer = requests[x].signer
          BY <4>2, <3>1, <1>4 DEF BookInv, BookedStands, YesIsBooked
        <5> QED
          BY <5>1, <2>1, <2>2
      <4> QED
        BY <4>1, <4>2
    <3> QED
      BY <3>1, <1>4 DEF YesIsBooked
  <2> QED
    BY <2>1, <2>3, <2>4 DEF BookedStands
<1>8. PagesStand'
  BY <1>2, <1>4 DEF BookInv, PagesStand
<1> QED
  BY <1>6, <1>7, <1>8 DEF BookInv

LEMMA ServerKeepsBookings ==
  ASSUME BookInv, NEW r \in DOMAIN requests,
         \/ RefuseSubmission(r) \/ ReadQuote(r) \/ LoseRace(r) \/ TransactionFails(r) \/ FunctionDies(r)
         \/ \E known \in BOOLEAN : Sign(r, known) \/ Recheck(r, known)
  PROVE  BookInv'
<1>1. /\ offer = "SIGNED" <=> booked # 0
      /\ booked # 0 => requests[booked].step \in {"recheck", "done"}
      /\ RequestStands(requests[r]) /\ r # 0
  BY DEF BookInv, BookedStands, Submitted
<1>2. CASE RefuseSubmission(r)
  <2>1. requests[r].step = "sent" /\ Moves(r, "done", "no") /\ UNCHANGED <<offer, booked>>
    BY <1>2 DEF RefuseSubmission, Answers
  <2> QED
    BY <2>1, <1>1, MoveKeepsBookings
<1>3. CASE ReadQuote(r)
  <2>1. requests[r].step = "sent" /\ UNCHANGED <<offer, booked>> /\ booked # r
    BY <1>1, <1>3 DEF ReadQuote
  <2>2. CASE booked # 0 /\ SameSigner(r)
    <3>1. Moves(r, "done", "yes")
      BY <1>3, <2>2 DEF ReadQuote, Answers
    <3> QED
      BY <3>1, <2>1, <2>2, <1>1, MoveKeepsBookings DEF SameSigner
  <2>3. CASE (booked # 0 /\ ~SameSigner(r)) \/ (booked = 0 /\ offer # "VIEWED")
    <3>1. Moves(r, "done", "no")
      BY <1>3, <2>3 DEF ReadQuote, Answers
    <3> QED
      BY <3>1, <2>1, <1>1, MoveKeepsBookings
  <2>4. CASE booked = 0 /\ offer = "VIEWED"
    <3>1. Moves(r, "prepared", "none")
      BY <1>3, <2>4 DEF ReadQuote
    <3> QED
      BY <3>1, <2>1, <1>1, MoveKeepsBookings
  <2> QED
    BY <2>2, <2>3, <2>4
<1>4. CASE LoseRace(r)
  <2>1. requests[r].step = "prepared" /\ UNCHANGED <<offer, booked>> /\ booked # r
    BY <1>1, <1>4 DEF LoseRace
  <2>2. CASE SameSigner(r)
    <3>1. Moves(r, "done", "yes")
      BY <1>4, <2>2 DEF LoseRace, Answers
    <3> QED
      BY <3>1, <2>1, <2>2, <1>1, MoveKeepsBookings DEF SameSigner
  <2>3. CASE ~SameSigner(r)
    <3>1. Moves(r, "done", "no")
      BY <1>4, <2>3 DEF LoseRace, Answers
    <3> QED
      BY <3>1, <2>1, <1>1, MoveKeepsBookings
  <2> QED
    BY <2>2, <2>3
<1>5. CASE TransactionFails(r)
  <2>1. requests[r].step = "prepared" /\ Moves(r, "recheck", "none") /\ UNCHANGED <<offer, booked>>
    BY <1>5 DEF TransactionFails
  <2> QED
    BY <2>1, <1>1, MoveKeepsBookings
<1>6. CASE FunctionDies(r)
  <2>1. requests[r].step # "done" /\ Moves(r, "done", "unknown") /\ UNCHANGED <<offer, booked>>
    BY <1>6 DEF FunctionDies, Answers
  <2> QED
    BY <2>1, <1>1, MoveKeepsBookings
<1>7. ASSUME NEW known \in BOOLEAN, Sign(r, known) PROVE BookInv'
  <2>1. requests[r].step = "prepared" /\ booked = 0 /\ booked' = r /\ offer' = "SIGNED"
    BY <1>7 DEF Sign
  <2>2. Moves(r, "done", "yes") \/ Moves(r, "recheck", "none")
    BY <1>7 DEF Sign, Answers
  <2> QED
    BY <2>1, <2>2, <1>1, MoveKeepsBookings
<1>8. ASSUME NEW known \in BOOLEAN, Recheck(r, known) PROVE BookInv'
  <2>1. requests[r].step = "recheck" /\ UNCHANGED <<offer, booked>>
    BY <1>8 DEF Recheck
  <2>2. CASE known /\ SameSigner(r)
    <3>1. Moves(r, "done", "yes")
      BY <1>8, <2>2 DEF Recheck, Answers
    <3> QED
      BY <3>1, <2>1, <2>2, <1>1, MoveKeepsBookings DEF SameSigner
  <2>3. CASE ~(known /\ SameSigner(r))
    <3>1. Moves(r, "done", "unknown")
      BY <1>8, <2>3 DEF Recheck, Answers
    <3> QED
      BY <3>1, <2>1, <1>1, MoveKeepsBookings
  <2> QED
    BY <2>2, <2>3
<1> QED
  BY <1>2, <1>3, <1>4, <1>5, <1>6, <1>7, <1>8

LEMMA HearingKeepsBookings ==
  ASSUME BookInv, NEW t \in Tabs, Hear(t) PROVE BookInv'
<1> DEFINE f == form[t]  h == heard[t]  r == waiting[t]  answer == requests[r].answer
           n == AfterAnswer(f, answer)  k == IF answer = "unknown" THEN h ELSE h + 1
<1>1. /\ f \in [passengers : {f.passengers}, cards : CardsAfter(h), reviewing : BOOLEAN] /\ Slotted(f.passengers)
      /\ h \in Nat /\ f.cards \in CardsAfter(h)
  BY DEF BookInv, PagesStand, FormStands
<1>2. r \in DOMAIN requests /\ answer \in {"yes", "no", "unknown"}
  BY DEF Hear, BookInv, PagesStand, Submitted, RequestStands
<1>3. \A c \in CardsAfter(h) : [i \in DOMAIN c |-> EmptyCard] \in CardsAfter(h + 1) /\ WithoutCodes(c) \in CardsAfter(h + 1)
  <2> DEFINE Was == [number : BOOLEAN, code : {NoCode, h}]  Now == [number : BOOLEAN, code : {NoCode, h + 1}]
  <2>1. EmptyCard \in Now /\ \A x \in Was : [x EXCEPT !.code = NoCode] \in Now
    BY DEF EmptyCard
  <2> HIDE DEF Was, Now
  <2>2. ASSUME NEW c \in Seq(Was) PROVE [i \in DOMAIN c |-> EmptyCard] \in Seq(Now) /\ [i \in DOMAIN c |-> [c[i] EXCEPT !.code = NoCode]] \in Seq(Now)
    <3>1. Len(c) \in Nat /\ DOMAIN c = 1..Len(c) /\ \A i \in DOMAIN c : c[i] \in Was
      BY <2>2
    <3>2. /\ [i \in 1..Len(c) |-> EmptyCard] \in [1..Len(c) -> Now]
          /\ [i \in 1..Len(c) |-> [c[i] EXCEPT !.code = NoCode]] \in [1..Len(c) -> Now]
      BY <3>1, <2>1
    <3> QED
      BY <3>1, <3>2
  <2> QED
    BY <2>2 DEF CardsAfter, WithoutCodes, Was, Now
<1>4. FormStands(n, k)
  <2>1. CASE answer = "unknown"
    BY <2>1, <1>1 DEF AfterAnswer, FormStands
  <2>2. CASE answer = "yes"
    <3>1. n = [f EXCEPT !.cards = [i \in DOMAIN f.cards |-> EmptyCard]] /\ k = h + 1
      BY <2>2 DEF AfterAnswer
    <3>2. [i \in DOMAIN f.cards |-> EmptyCard] \in CardsAfter(h + 1)
      BY <1>1, <1>3
    <3> QED
      BY <3>1, <3>2, <1>1 DEF FormStands
  <2>3. CASE answer = "no"
    <3>1. n = [f EXCEPT !.cards = WithoutCodes(f.cards)] /\ k = h + 1
      BY <2>3 DEF AfterAnswer
    <3>2. WithoutCodes(f.cards) \in CardsAfter(h + 1)
      BY <1>1, <1>3
    <3> QED
      BY <3>1, <3>2, <1>1 DEF FormStands
  <2> QED
    BY <2>1, <2>2, <2>3, <1>2
<1>5. /\ form' = [form EXCEPT ![t] = n] /\ heard' = [heard EXCEPT ![t] = k] /\ waiting' = [waiting EXCEPT ![t] = 0]
      /\ UNCHANGED <<offer, requests, booked>> /\ k \in Nat
  BY <1>1 DEF Hear
<1> HIDE DEF n, k
<1>6. Submitted' /\ BookedStands'
  BY <1>5 DEF BookInv, Submitted, BookedStands, YesIsBooked
<1>7. form' \in [Tabs -> {form'[x] : x \in Tabs}]
      /\ \A x \in Tabs : form'[x] = (IF x = t THEN n ELSE form[x]) /\ heard'[x] = (IF x = t THEN k ELSE heard[x])
  BY <1>5 DEF BookInv, PagesStand
<1>8. PagesStand'
  BY <1>4, <1>5, <1>7 DEF BookInv, PagesStand
<1> QED
  BY <1>6, <1>8 DEF BookInv

LEMMA BookingStep ==
  ASSUME BookInv, [BookingFormNext]_bookingFormVars PROVE BookInv'
<1>1. ASSUME NEW t \in Tabs, Refresh(t) \/ LoseAnswer(t) PROVE BookInv'
  <2>1. UNCHANGED <<offer, form, requests, booked, heard>> /\ (waiting' = waiting \/ waiting' = [waiting EXCEPT ![t] = 0])
    BY <1>1 DEF Refresh, LoseAnswer
  <2>2. Submitted' /\ BookedStands'
    BY <2>1 DEF BookInv, Submitted, BookedStands, YesIsBooked
  <2>3. PagesStand'
    BY <2>1 DEF BookInv, PagesStand
  <2> QED
    BY <2>2, <2>3 DEF BookInv
<1>2. CASE CancelOffer
  BY <1>2 DEF CancelOffer, BookInv, Submitted, BookedStands, YesIsBooked, PagesStand
<1>3. CASE UNCHANGED bookingFormVars
  BY <1>3 DEF bookingFormVars, BookInv, Submitted, BookedStands, YesIsBooked, PagesStand
<1> QED
  BY <1>1, <1>2, <1>3, FormMovesKeepBookings, SubmissionKeepsBookings, ServerKeepsBookings, HearingKeepsBookings DEF BookingFormNext

\* The promises, from the invariant.
LEMMA BookingPromises == ASSUME BookInv PROVE BookingsAreHonest
<1>1. NoIsNotBooked
  <2>1. 0 \notin DOMAIN requests
    BY DEF BookInv, Submitted
  <2> QED
    BY <2>1 DEF BookInv, BookedStands, NoIsNotBooked
<1>2. CodesAreTypedAgain
  <2>1. ASSUME NEW t \in Tabs, NEW i \in DOMAIN form[t].cards PROVE form[t].cards[i].code \in {NoCode, heard[t]}
    <3> DEFINE Was == [number : BOOLEAN, code : {NoCode, heard[t]}]
    <3>1. form[t].cards \in Seq(Was)
      BY DEF BookInv, PagesStand, FormStands, CardsAfter
    <3> HIDE DEF Was
    <3>2. form[t].cards[i] \in Was
      BY <3>1
    <3> QED
      BY <3>2 DEF Was
  <2> QED
    BY <2>1 DEF CodesAreTypedAgain
<1>3. PassengersMatchFares
  BY DEF BookInv, BookedStands, Submitted, RequestStands, Slotted, PassengersMatchFares
<1> QED
  BY <1>1, <1>2, <1>3 DEF BookInv, BookedStands, BookingsAreHonest

\* A customer who is told yes is booked under the name they signed with, one who is told no
\* was not booked by that request, a security code is typed in anew after every answer, and the
\* booking has the passengers it was priced for (booking-flow.tsx, actions/booking.ts).
THEOREM BookingsHold ==
  BookingFormSpec => []BookingsAreHonest
<1>1. BookInv => BookingsAreHonest
  BY BookingPromises
<1>2. BookingFormInit => BookInv
  BY BookingStarts
<1>3. BookInv /\ [BookingFormNext]_bookingFormVars => BookInv'
  BY BookingStep
<1> QED
  BY <1>1, <1>2, <1>3, PTL DEF BookingFormSpec

-----------------------------------------------------------------------------
(* The builders *)

\* A fraction rounded is off by half a unit at most.
LEMMA RoundingIsNear ==
  ASSUME NEW a \in Nat, NEW b \in Nat \ {0}
  PROVE  /\ Rounded(a, b) \in Nat
         /\ 2 * (b * Rounded(a, b)) - 2 * a <= b /\ 2 * a - 2 * (b * Rounded(a, b)) <= b
<1> DEFINE n == 2 * a + b  d == 2 * b  q == n \div d
<1>1. n \in Nat /\ d \in Nat /\ d > 0
  OBVIOUS
<1>2. q \in Nat /\ d * q <= n /\ n < d * q + d
  BY <1>1
<1>3. d * q = 2 * (b * q)
  BY <1>2
<1> QED
  BY <1>2, <1>3 DEF Rounded

\* What an exchange charges is its total but for the rounding.
LEMMA ChargeIsNear ==
  ASSUME NEW t \in TermsShape
  PROVE  ExchangeCharge(t) - t.total \in
           (-(1 + ((t.adults + 1 + 2 * t.extras) * t.rate) \div 200))..(1 + ((t.adults + 1 + 2 * t.extras) * t.rate) \div 200)
<1>1. t.total \in Nat /\ t.adults \in Nat \ {0} /\ t.rate \in Nat \ {0} /\ t.extras \in Nat
  BY DEF TermsShape
<1> DEFINE T == t.total  a == t.adults  r == t.rate  e == t.extras
           U == ToUsd(T, t)  S == StoredAdultPrice(t)  A == a * S + e  C == ExchangeCharge(t)
           w == (a + 1 + 2 * e) * r
<1>2. U \in Nat /\ 2 * (r * U) - 200 * T <= r /\ 200 * T - 2 * (r * U) <= r
  <2>1. U = Rounded(T * 100, r) /\ T * 100 \in Nat
    BY <1>1 DEF ToUsd
  <2>2. Rounded(T * 100, r) \in Nat /\ 2 * (r * Rounded(T * 100, r)) - 2 * (T * 100) <= r /\ 2 * (T * 100) - 2 * (r * Rounded(T * 100, r)) <= r
    BY <2>1, <1>1, RoundingIsNear
  <2> QED
    BY <2>1, <2>2, <1>1
<1>3. S = Rounded(U, a)
  BY DEF StoredAdultPrice
<1> HIDE DEF U
<1>4. S \in Nat /\ 2 * (a * S) - 2 * U <= a /\ 2 * U - 2 * (a * S) <= a
  BY <1>1, <1>2, <1>3, RoundingIsNear
<1>5. C = Rounded(A * r, 100)
  BY DEF ExchangeCharge, FromUsd
<1> HIDE DEF S
<1>6. a * S \in Nat /\ A \in Nat /\ A * r \in Nat
  BY <1>1, <1>4
<1>7. C \in Nat /\ 200 * C - 2 * (A * r) <= 100 /\ 2 * (A * r) - 200 * C <= 100
  <2> DEFINE x == A * r
  <2>1. x \in Nat /\ C = Rounded(x, 100)
    BY <1>5, <1>6
  <2> HIDE DEF x, C
  <2>2. C \in Nat /\ 2 * (100 * C) - 2 * x <= 100 /\ 2 * x - 2 * (100 * C) <= 100
    BY <2>1, RoundingIsNear
  <2>3. 200 * C - 2 * x <= 100 /\ 2 * x - 200 * C <= 100
    BY <2>1, <2>2
  <2> QED
    BY <2>2, <2>3 DEF x
<1>8. A * r = (a * S) * r + e * r
  BY <1>1, <1>6
<1>9. 2 * ((a * S) * r) - 2 * (r * U) <= a * r /\ 2 * (r * U) - 2 * ((a * S) * r) <= a * r
  <2>1. \A x, y, z \in Int, k \in Nat : 2 * x - 2 * y <= z => 2 * (x * k) - 2 * (k * y) <= z * k
    <3>1. \A x, y, z \in Int, k \in Nat : z - (2 * x - 2 * y) >= 0 => k * (z - (2 * x - 2 * y)) >= 0
      OBVIOUS
    <3>2. \A x, y, z \in Int, k \in Nat : k * (z - (2 * x - 2 * y)) = z * k - (2 * (x * k) - 2 * (k * y))
      OBVIOUS
    <3> QED
      BY <3>1, <3>2
  <2>2. \A x, y, z \in Int, k \in Nat : 2 * y - 2 * x <= z => 2 * (k * y) - 2 * (x * k) <= z * k
    <3>1. \A x, y, z \in Int, k \in Nat : z - (2 * y - 2 * x) >= 0 => k * (z - (2 * y - 2 * x)) >= 0
      OBVIOUS
    <3>2. \A x, y, z \in Int, k \in Nat : k * (z - (2 * y - 2 * x)) = z * k - (2 * (k * y) - 2 * (x * k))
      OBVIOUS
    <3> QED
      BY <3>1, <3>2
  <2> QED
    BY <2>1, <2>2, <1>1, <1>2, <1>4, <1>6, SMTT(30)
<1>10. w = a * r + r + 2 * (e * r) /\ w \in Nat
  <2>1. \A x, y, z \in Nat : (x + 1 + 2 * y) * z = x * z + z + 2 * (y * z)
    OBVIOUS
  <2>2. a * r \in Nat /\ e * r \in Nat
    BY <1>1
  <2>3. w = a * r + r + 2 * (e * r)
    BY <1>1, <2>1
  <2> QED
    BY <2>2, <2>3, <1>1
<1>11. 2 * (A * r) - 200 * T <= w /\ 200 * T - 2 * (A * r) <= w
  <2>1. (a * S) * r \in Int /\ e * r \in Int /\ e * r >= 0 /\ r * U \in Int /\ a * r \in Int
    BY <1>1, <1>2, <1>6
  <2> QED
    BY <2>1, <1>1, <1>2, <1>8, <1>9, <1>10
<1>12. w \div 200 \in Nat /\ w < 200 * (w \div 200) + 200
  BY <1>10
<1> HIDE DEF C, A, w
<1>13. C - T \in (-(1 + w \div 200))..(1 + w \div 200)
  BY <1>1, <1>6, <1>7, <1>10, <1>11, <1>12
<1> QED
  BY <1>13 DEF C, w

\* A segment keeps a duration only as long as its times stand.
Segment == {x \in [times : Nat, override : Int, joined : BOOLEAN] : x.override \in {NoOverride, x.times}}

\* What is submitted: a journey that begins, with every date.
Sound(p) ==
  /\ p.segments \in Seq(Segment) /\ 1 \in DOMAIN p.segments /\ ~p.segments[1].joined
  /\ \A i \in DOMAIN p.segments : p.segments[i].times > 0
  /\ p.terms \in Terms

\* The invariant behind the builders: what is on its way and what is stored is a sound
\* save, an answer was lost for all but the last, and a charged original is exchanged once.
FormInv ==
  /\ segments \in Seq(Segment) /\ Len(segments) >= 1
  /\ saving # NoSave => Sound(saving)
  /\ stored \in Seq({p \in {stored[n] : n \in DOMAIN stored} : Sound(p)})
  /\ lost \in Nat /\ Len(stored) <= lost + (IF left THEN 1 ELSE 0)
  /\ builder = "exchange" => Len(stored) <= (IF original = "CHARGED" THEN 0 ELSE 1)
  /\ left => stored # <<>> /\ saving = NoSave

LEMMA FormStarts == ASSUME FormInit PROVE FormInv
<1>1. Blank \in Segment
  BY DEF Blank, Segment, NoOverride
<1>2. segments \in Seq(Segment) /\ Len(segments) = 1
  BY <1>1 DEF FormInit
<1>3. stored = <<>> /\ Len(stored) = 0 /\ stored \in Seq({p \in {stored[n] : n \in DOMAIN stored} : Sound(p)})
  BY DEF FormInit
<1> QED
  BY <1>2, <1>3 DEF FormInit, FormInv

\* Edits of the segments and of the price, and the saves, keep it.
LEMMA SegmentsKeepForms ==
  ASSUME FormInv, NEW next \in Seq(Segment), Len(next) >= 1, Segments(next) PROVE FormInv'
BY DEF FormInv, Segments, OnPage, Sound

LEMMA EditingKeepsForms ==
  ASSUME FormInv,
         \/ AddSegment
         \/ \E i \in DOMAIN segments :
              \/ RemoveSegment(i) \/ EditTimes(i) \/ SetDuration(i) \/ ResetDuration(i)
              \/ \E layover \in BOOLEAN : SetConnection(i, layover)
  PROVE  FormInv'
<1>1. segments \in Seq(Segment) /\ Len(segments) \in Nat /\ Len(segments) >= 1 /\ Blank \in Segment
  BY DEF FormInv, Blank, Segment, NoOverride
<1>2. CASE AddSegment
  <2>1. Append(segments, Blank) \in Seq(Segment) /\ Len(Append(segments, Blank)) >= 1
    BY <1>1
  <2> QED
    BY <2>1, <1>2, SegmentsKeepForms DEF AddSegment
<1>3. ASSUME NEW i \in DOMAIN segments, RemoveSegment(i) PROVE FormInv'
  <2>1. RemoveAt(segments, i) \in Seq(Segment) /\ Len(RemoveAt(segments, i)) = Len(segments) - 1
    BY <1>1, RemovesOne
  <2> QED
    BY <2>1, <1>1, <1>3, SegmentsKeepForms DEF RemoveSegment
<1>4. ASSUME NEW i \in DOMAIN segments, NEW x \in Segment, Segments([segments EXCEPT ![i] = x]) PROVE FormInv'
  <2>1. [segments EXCEPT ![i] = x] \in Seq(Segment) /\ Len([segments EXCEPT ![i] = x]) = Len(segments)
    BY <1>1
  <2> QED
    BY <2>1, <1>1, <1>4, SegmentsKeepForms
<1>5. ASSUME NEW i \in DOMAIN segments
      PROVE  /\ [segments[i] EXCEPT !.times = @ + 1, !.override = NoOverride] \in Segment
             /\ [segments[i] EXCEPT !.override = segments[i].times] \in Segment
             /\ [segments[i] EXCEPT !.override = NoOverride] \in Segment
             /\ \A layover \in BOOLEAN : [segments[i] EXCEPT !.joined = layover] \in Segment
  <2>1. segments[i] \in Segment
    BY <1>1
  <2>2. ASSUME NEW x \in Segment
        PROVE  /\ [x EXCEPT !.times = x.times + 1, !.override = NoOverride] \in Segment
               /\ [x EXCEPT !.override = x.times] \in Segment /\ [x EXCEPT !.override = NoOverride] \in Segment
               /\ \A layover \in BOOLEAN : [x EXCEPT !.joined = layover] \in Segment
    <3>1. x \in [times : Nat, override : Int, joined : BOOLEAN] /\ x.times + 1 \in Nat /\ x.times \in Int /\ NoOverride \in Int
      BY DEF Segment, NoOverride
    <3>2. [x EXCEPT !.times = x.times + 1, !.override = NoOverride] \in Segment
      BY <3>1 DEF Segment
    <3>3. [x EXCEPT !.override = x.times] \in Segment /\ [x EXCEPT !.override = NoOverride] \in Segment
      BY <3>1 DEF Segment
    <3>4. ASSUME NEW layover \in BOOLEAN PROVE [x EXCEPT !.joined = layover] \in Segment
      BY <3>1 DEF Segment
    <3> QED
      BY <3>2, <3>3, <3>4
  <2> QED
    BY <2>1, <2>2
<1>6. ASSUME NEW i \in DOMAIN segments, EditTimes(i) PROVE FormInv'
  <2>1. Segments([segments EXCEPT ![i] = [segments[i] EXCEPT !.times = @ + 1, !.override = NoOverride]])
    BY <1>6 DEF EditTimes
  <2> QED
    BY <2>1, <1>4, <1>5
<1>7. ASSUME NEW i \in DOMAIN segments, SetDuration(i) PROVE FormInv'
  <2>1. Segments([segments EXCEPT ![i] = [segments[i] EXCEPT !.override = segments[i].times]])
    BY <1>7 DEF SetDuration
  <2> QED
    BY <2>1, <1>4, <1>5
<1>8. ASSUME NEW i \in DOMAIN segments, ResetDuration(i) PROVE FormInv'
  <2>1. Segments([segments EXCEPT ![i] = [segments[i] EXCEPT !.override = NoOverride]])
    BY <1>8 DEF ResetDuration
  <2> QED
    BY <2>1, <1>4, <1>5
<1>9. ASSUME NEW i \in DOMAIN segments, NEW layover \in BOOLEAN, SetConnection(i, layover) PROVE FormInv'
  <2>1. Segments([segments EXCEPT ![i] = [segments[i] EXCEPT !.joined = layover]])
    BY <1>9 DEF SetConnection
  <2> QED
    BY <2>1, <1>4, <1>5
<1> QED
  BY <1>2, <1>3, <1>6, <1>7, <1>8, <1>9

LEMMA SavingKeepsForms ==
  ASSUME FormInv, NEW t \in Terms, Save(t) PROVE FormInv'
<1> DEFINE p == Payload(t)
<1>1. segments \in Seq(Segment) /\ 1 \in DOMAIN segments /\ segments[1] \in Segment
  BY DEF FormInv
<1>2. [segments[1] EXCEPT !.joined = FALSE] \in Segment
  BY <1>1 DEF Segment
<1>3. p.segments = [segments EXCEPT ![1] = [segments[1] EXCEPT !.joined = FALSE]] /\ p.terms = t
  BY DEF Payload
<1>4. p.segments \in Seq(Segment) /\ DOMAIN p.segments = DOMAIN segments
  BY <1>1, <1>2, <1>3
<1>5. ~p.segments[1].joined /\ \A i \in DOMAIN segments : p.segments[i].times = segments[i].times
  <2>1. p.segments[1] = [segments[1] EXCEPT !.joined = FALSE] /\ \A i \in DOMAIN segments : i # 1 => p.segments[i] = segments[i]
    BY <1>1, <1>3
  <2>2. ~[segments[1] EXCEPT !.joined = FALSE].joined /\ [segments[1] EXCEPT !.joined = FALSE].times = segments[1].times
    BY <1>1 DEF Segment
  <2> QED
    BY <2>1, <2>2
<1>6. saving' = p /\ UNCHANGED <<builder, segments, parsing, left, stored, original, lost>> /\ ~left
      /\ \A i \in DOMAIN segments : segments[i].times > 0
  BY DEF Save, OnPage, ValidSegments
<1> HIDE DEF p
<1>7. Sound(p)
  BY <1>1, <1>3, <1>4, <1>5, <1>6 DEF Sound
<1> QED
  BY <1>6, <1>7 DEF FormInv

LEMMA StoringKeepsForms ==
  ASSUME FormInv, NEW answered \in BOOLEAN, Stores(answered) PROVE FormInv'
<1> DEFINE S == {p \in {stored[n] : n \in DOMAIN stored} : Sound(p)}  next == Append(stored, saving)
<1>1. stored \in Seq(S) /\ Sound(saving) /\ ~left /\ lost \in Nat /\ Len(stored) <= lost /\ Len(stored) \in Nat
  BY DEF FormInv, Stores
<1>2. stored \in Seq({stored[n] : n \in DOMAIN stored}) /\ \A n \in DOMAIN stored : Sound(stored[n])
  <2>1. \A n \in DOMAIN stored : stored[n] \in S
    BY <1>1
  <2> QED
    BY <1>1, <2>1
<1> HIDE DEF S
<1>3. /\ next \in Seq({next[n] : n \in DOMAIN next}) /\ Len(next) = Len(stored) + 1
      /\ \A n \in DOMAIN next : Sound(next[n])
  <2>1. /\ next \in Seq({next[n] : n \in DOMAIN next})
        /\ \A n \in DOMAIN next : n \in DOMAIN stored \/ n = Len(stored) + 1
        /\ next[Len(stored) + 1] = saving /\ \A n \in DOMAIN stored : next[n] = stored[n]
    BY <1>2, GrowsByOne
  <2>2. Len(next) = Len(stored) + 1
    BY <1>1
  <2> QED
    BY <2>1, <2>2, <1>1, <1>2
<1>4. next \in Seq({p \in {next[n] : n \in DOMAIN next} : Sound(p)})
  <2>1. {p \in {next[n] : n \in DOMAIN next} : Sound(p)} = {next[n] : n \in DOMAIN next}
    BY <1>3
  <2> QED
    BY <2>1, <1>3
<1>5. /\ stored' = next /\ saving' = NoSave /\ left' = answered /\ lost' = lost + (IF answered THEN 0 ELSE 1)
      /\ builder' = builder /\ segments' = segments
      /\ builder = "exchange" => original = "CHARGED" /\ original' = "EXCHANGED"
  BY DEF Stores, Accepted
<1> HIDE DEF next
<1>6. next # <<>>
  BY <1>1, <1>3
<1>7. lost' \in Nat /\ Len(stored') <= lost' + (IF left' THEN 1 ELSE 0)
  <2>1. CASE answered
    BY <2>1, <1>1, <1>3, <1>5
  <2>2. CASE ~answered
    BY <2>2, <1>1, <1>3, <1>5
  <2> QED
    BY <2>1, <2>2
<1>8. ASSUME builder = "exchange" PROVE original' # "CHARGED" /\ Len(stored') <= 1
  <2>1. original = "CHARGED" /\ original' = "EXCHANGED"
    BY <1>5, <1>8
  <2>2. Len(stored) <= 0
    BY <2>1, <1>8 DEF FormInv
  <2> QED
    BY <2>1, <2>2, <1>1, <1>3, <1>5
<1> QED
  <2>1. segments' \in Seq(Segment) /\ Len(segments') >= 1
    BY <1>5 DEF FormInv
  <2> QED
    BY <2>1, <1>4, <1>5, <1>6, <1>7, <1>8 DEF FormInv

LEMMA FormStep ==
  ASSUME FormInv, [FormNext]_formVars PROVE FormInv'
<1>1. CASE RunParse
  BY <1>1 DEF RunParse, OnPage, FormInv, Sound
<1>0. CASE ParseFails
  BY <1>0 DEF ParseFails, OnPage, FormInv, Sound
<1>2. ASSUME NEW n \in 1..MaxSegments, ParseAnswers(n) PROVE FormInv'
  <2> DEFINE parsed == [i \in 1..n |-> [Blank EXCEPT !.times = 1, !.joined = i > 1]]
  <2>1. n \in Nat /\ n >= 1
    BY FormConstants
  <2>2. \A b \in BOOLEAN : [Blank EXCEPT !.times = 1, !.joined = b] \in Segment
    <3>1. Blank \in [times : Nat, override : Int, joined : BOOLEAN] /\ Blank.override = NoOverride
      BY DEF Blank, NoOverride
    <3> QED
      BY <3>1 DEF Segment
  <2>3. parsed \in [1..n -> Segment]
    <3>1. \A i \in 1..n : (i > 1) \in BOOLEAN
      BY <2>1
    <3>2. \A i \in 1..n : [Blank EXCEPT !.times = 1, !.joined = i > 1] \in Segment
      BY <2>2, <3>1
    <3> QED
      BY <3>2
  <2> HIDE DEF parsed
  <2>4. parsed \in Seq(Segment) /\ Len(parsed) >= 1
    BY <2>1, <2>3
  <2>5. segments' = parsed /\ UNCHANGED <<builder, saving, left, stored, original, lost>>
    BY <1>2 DEF ParseAnswers, OnPage, parsed
  <2> QED
    BY <2>4, <2>5 DEF FormInv, Sound
<1>3. CASE SaveFails
  BY <1>3 DEF SaveFails, OnPage, FormInv, Sound
<1>4. CASE UNCHANGED formVars
  BY <1>4 DEF formVars, FormInv, Sound
<1>5. ASSUME NEW t \in Priced, Save(t) PROVE FormInv'
  <2>1. t \in Terms
    BY FormConstants DEF Priced
  <2> QED
    BY <2>1, <1>5, SavingKeepsForms
<1> QED
  BY <1>0, <1>1, <1>2, <1>3, <1>4, <1>5, EditingKeepsForms, StoringKeepsForms DEF FormNext, Answered, AnswerLost


\* The promises, from the invariant.
LEMMA FormPromises == ASSUME FormInv PROVE FormsKeepTheirWord
<1>1. \A n \in DOMAIN stored : Sound(stored[n])
  <2> DEFINE S == {p \in {stored[n] : n \in DOMAIN stored} : Sound(p)}
  <2>1. stored \in Seq(S)
    BY DEF FormInv
  <2>2. \A n \in DOMAIN stored : stored[n] \in S
    BY <2>1
  <2> QED
    BY <2>2
<1>2. \A n \in DOMAIN stored : \A i \in DOMAIN stored[n].segments : stored[n].segments[i].override \in {NoOverride, stored[n].segments[i].times}
  <2>1. ASSUME NEW p, Sound(p), NEW i \in DOMAIN p.segments PROVE p.segments[i] \in Segment
    BY <2>1 DEF Sound
  <2> QED
    BY <1>1, <2>1 DEF Segment
<1>3. DurationsBelongToTheirTimes
  BY <1>2 DEF DurationsBelongToTheirTimes
<1>5. StoredOnce
  <2>1. Len(stored) \in Nat /\ lost \in Nat /\ Len(stored) <= lost + (IF left THEN 1 ELSE 0)
    BY DEF FormInv
  <2>2. Len(stored) <= 1 + lost
    BY <2>1
  <2>3. builder = "exchange" => Len(stored) <= 1
    <3>1. builder = "exchange" => Len(stored) <= (IF original = "CHARGED" THEN 0 ELSE 1)
      BY DEF FormInv
    <3> QED
      BY <3>1, <2>1
  <2> QED
    BY <2>2, <2>3 DEF FormInv, StoredOnce
<1>6. ChargeNearTheTotal
  <2>1. \A n \in DOMAIN stored : stored[n].terms \in TermsShape
    BY <1>1, FormConstants DEF Sound
  <2> QED
    BY <2>1, ChargeIsNear DEF ChargeNearTheTotal
<1> QED
  BY <1>3, <1>5, <1>6 DEF FormsKeepTheirWord

\* What the builders store has durations of their own times, is stored once
\* unless an answer was lost, and an exchange charges its total but for half a cent an adult: for
\* any prices and rates (quote-builder.tsx, exchange-builder.tsx).
THEOREM QuoteFormsHold ==
  FormSpec => []FormsKeepTheirWord
<1>1. FormInv => FormsKeepTheirWord
  BY FormPromises
<1>2. FormInit => FormInv
  BY FormStarts
<1>3. FormInv /\ [FormNext]_formVars => FormInv'
  BY FormStep
<1> QED
  BY <1>1, <1>2, <1>3, PTL DEF FormSpec

-----------------------------------------------------------------------------
(* The ticketing card *)

\* The Booking row and the forms over it; a confirmed row has what it needs.
TicketRowTypes ==
  /\ record \in [fields : Fields, profit : Int \cup {EmptyField}]
  /\ typed \in [Agents -> Fields] /\ kept \in [Agents -> Fields]

\* A save under way sends a form; what was checked stays good, since a cost
\* that is there is never blanked again.
SaveStands(c, f) ==
  \/ c.step \in {"none", "failed"}
  \/ c.step \in {"sent", "saved"} /\ c.patch \in Fields
  \/ /\ c.step = "checked" /\ c.patch \in Fields /\ c.seen \in Fields /\ Backed(Merged(c.patch, c.seen))
     /\ c.seen.fare # EmptyField => f.fare # EmptyField

\* A dialog's list answers its latest request, and only its boxes are ticked.
DialogStands(d) ==
  /\ d.request \in Nat
  /\ d.open /\ d.list # NoList => d.list.of = d.request /\ d.ticked \subseteq d.list.boxes

\* The dialog of every agent, and the mailboxes.
DialogTypes ==
  /\ dialog \in [Agents -> [open : BOOLEAN, request : Nat, asked : SUBSET Nat, list : [of : Nat, boxes : SUBSET Mailboxes],
                            ticked : SUBSET Mailboxes]]
  /\ mailboxes \subseteq Mailboxes /\ SignedMailbox \in mailboxes

\* The invariant behind ticketing: the row, the saves under way and the dialogs.
TicketInv ==
  /\ TicketRowTypes /\ DialogTypes
  /\ call \in [Agents -> {call[a] : a \in Agents}] /\ \A a \in Agents : SaveStands(call[a], record.fields)
  /\ ProfitMatchesCosts /\ ConfirmedIsBacked
  /\ \A a \in Agents : DialogStands(dialog[a])

\* A save is laid over the row that is read.
LEMMA MergedFields ==
  ASSUME NEW p \in Fields, NEW f \in Fields
  PROVE  /\ Merged(p, f) \in Fields
         /\ Merged(p, f).status = p.status /\ Merged(p, f).numbered = p.numbered
         /\ Merged(p, f).fare = (IF p.fare = EmptyField THEN f.fare ELSE p.fare)
         /\ Merged(p, f).tax = (IF p.tax = EmptyField THEN f.tax ELSE p.tax)
BY DEF Merged, Fields

\* There is a profit if there is a fare.
LEMMA ProfitKnown ==
  ASSUME NEW f \in Fields
  PROVE  ProfitOf(f) \in Int \cup {EmptyField} /\ (ProfitOf(f) = EmptyField <=> f.fare = EmptyField)
<1>1. \A c \in Costs : c \in Int /\ c # EmptyField
  BY TicketingConstants
<1>2. f.fare \in Costs \cup {EmptyField} /\ f.tax \in Costs \cup {EmptyField}
  BY DEF Fields, Amounts
<1>3. CASE f.fare = EmptyField
  BY <1>3 DEF ProfitOf
<1>4. CASE f.fare # EmptyField
  <2>1. f.fare \in Int /\ (IF f.tax = EmptyField THEN 0 ELSE f.tax) \in Int
    BY <1>1, <1>2, <1>4
  <2>2. SellingPrice - f.fare - (IF f.tax = EmptyField THEN 0 ELSE f.tax) \in Int
    BY <2>1, TicketingConstants
  <2>3. ProfitOf(f) \in Int
    BY <1>4, <2>2 DEF ProfitOf
  <2> QED
    BY <1>4, <2>3, TicketingConstants
<1> QED
  BY <1>3, <1>4

\* The row as it is found, and every move on it.
LEMMA TicketInit ==
  ASSUME TicketingFormInit PROVE TicketInv
<1>1. PICK f \in Fields : Backed(f) /\ record = [fields |-> f, profit |-> ProfitOf(f)]
  BY DEF TicketingFormInit
<1>2. TicketRowTypes
  BY <1>1, ProfitKnown DEF TicketingFormInit, TicketRowTypes
<1>3. ProfitMatchesCosts /\ ConfirmedIsBacked
  BY <1>1 DEF ProfitMatchesCosts, ConfirmedIsBacked
<1>4. DialogTypes /\ \A a \in Agents : DialogStands(dialog[a])
  BY TicketingConstants DEF TicketingFormInit, DialogTypes, DialogStands, NoList
<1>5. call \in [Agents -> {call[a] : a \in Agents}] /\ \A a \in Agents : SaveStands(call[a], record.fields)
  BY DEF TicketingFormInit, SaveStands, NoCall
<1> QED
  BY <1>2, <1>3, <1>4, <1>5 DEF TicketInv

\* The steps of a form leave the row, the dialogs and the other saves alone.
LEMMA FormStepKeepsTickets ==
  ASSUME TicketInv, NEW a \in Agents, UNCHANGED <<record, mailOnly>>,
         typed' \in [Agents -> Fields], kept' \in [Agents -> Fields],
         NEW c, call' = [call EXCEPT ![a] = c] \/ call' = call, SaveStands(c, record.fields)
  PROVE  TicketInv'
<1>1. TicketRowTypes' /\ DialogTypes'
  BY DEF TicketInv, TicketRowTypes, DialogTypes, mailOnly
<1>2. call' \in [Agents -> {call'[b] : b \in Agents}] /\ \A b \in Agents : call'[b] \in {c, call[b]}
  BY DEF TicketInv
<1>3. \A b \in Agents : SaveStands(call'[b], record'.fields)
  BY <1>2 DEF TicketInv, SaveStands
<1>4. ProfitMatchesCosts' /\ ConfirmedIsBacked'
  BY DEF TicketInv, ProfitMatchesCosts, ConfirmedIsBacked
<1>5. \A b \in Agents : DialogStands(dialog'[b])
  BY DEF TicketInv, mailOnly, DialogStands
<1> QED
  BY <1>1, <1>2, <1>3, <1>4, <1>5 DEF TicketInv

LEMMA DialogStepKeepsTickets ==
  ASSUME TicketInv, NEW a \in Agents, NEW d, UNCHANGED <<record, formsOnly, mailboxes>>, dialog' = [dialog EXCEPT ![a] = d],
         d \in [open : BOOLEAN, request : Nat, asked : SUBSET Nat, list : [of : Nat, boxes : SUBSET Mailboxes], ticked : SUBSET Mailboxes],
         DialogStands(d)
  PROVE  TicketInv'
<1>1. TicketRowTypes' /\ DialogTypes'
  BY DEF TicketInv, TicketRowTypes, DialogTypes, formsOnly
<1>2. call' = call
  BY DEF formsOnly
<1>3. \A b \in Agents : SaveStands(call'[b], record'.fields)
  BY <1>2 DEF TicketInv, SaveStands
<1>4. ProfitMatchesCosts' /\ ConfirmedIsBacked'
  BY DEF TicketInv, ProfitMatchesCosts, ConfirmedIsBacked
<1>5. \A b \in Agents : dialog'[b] \in {d, dialog[b]}
  BY DEF TicketInv, DialogTypes
<1>6. \A b \in Agents : DialogStands(dialog'[b])
  BY <1>5 DEF TicketInv
<1> QED
  BY <1>1, <1>2, <1>3, <1>4, <1>6 DEF TicketInv

\* The transaction: the row's cost, once known, stays known.
LEMMA CommitsKeepsTickets ==
  ASSUME TicketInv, NEW a \in Agents, Commits(a) PROVE TicketInv'
<1> DEFINE f == record.fields  p == call[a].patch  next == Merged(p, f)  c == [step |-> "saved", patch |-> p]
<1>1. f \in Fields /\ p \in Fields /\ call[a].seen \in Fields
  BY DEF Commits, TicketInv, TicketRowTypes, SaveStands
<1>2. next \in Fields /\ (f.fare # EmptyField => next.fare # EmptyField)
  BY <1>1, MergedFields
<1>3. record' = [fields |-> next, profit |-> IF ProfitOf(next) = EmptyField THEN record.profit ELSE ProfitOf(next)]
  BY DEF Commits
<1>4. Backed(next)
  <2>1. Backed(Merged(p, call[a].seen)) /\ (call[a].seen.fare # EmptyField => f.fare # EmptyField)
    BY DEF Commits, TicketInv, SaveStands
  <2> QED
    BY <2>1, <1>1, MergedFields DEF Backed
<1>5. record'.profit = ProfitOf(next)
  <2>1. record.profit = ProfitOf(f)
    BY DEF TicketInv, ProfitMatchesCosts
  <2>2. CASE next.fare = EmptyField
    BY <2>1, <2>2, <1>1, <1>2, <1>3, ProfitKnown
  <2>3. CASE next.fare # EmptyField
    BY <2>3, <1>2, <1>3, ProfitKnown
  <2> QED
    BY <2>2, <2>3
<1>6. record'.fields = next
  BY <1>3
<1> HIDE DEF next, f
<1>7. TicketRowTypes'
  <2>1. record' = [fields |-> next, profit |-> record'.profit]
    BY <1>3
  <2>2. typed' = typed /\ kept' = kept /\ ProfitOf(next) \in Int \cup {EmptyField}
    BY <1>2, ProfitKnown DEF Commits
  <2> QED
    BY <2>1, <2>2, <1>2, <1>5 DEF TicketInv, TicketRowTypes
<1>8. DialogTypes' /\ \A b \in Agents : DialogStands(dialog'[b])
  BY DEF Commits, TicketInv, DialogTypes, DialogStands, mailOnly
<1>9. call' \in [Agents -> {call'[b] : b \in Agents}] /\ \A b \in Agents : call'[b] \in {c, call[b]}
  BY DEF Commits, TicketInv
<1>10. \A b \in Agents : SaveStands(call'[b], record'.fields)
  <2>1. f.fare # EmptyField => record'.fields.fare # EmptyField
    BY <1>2, <1>6
  <2>2. \A x : SaveStands(x, f) => SaveStands(x, record'.fields)
    BY <2>1 DEF SaveStands
  <2>3. \A b \in Agents : SaveStands(call[b], f)
    BY DEF TicketInv, f
  <2>4. SaveStands(c, record'.fields)
    BY <1>1 DEF SaveStands
  <2> QED
    BY <1>9, <2>2, <2>3, <2>4
<1>11. ProfitMatchesCosts' /\ ConfirmedIsBacked'
  BY <1>4, <1>5, <1>6 DEF ProfitMatchesCosts, ConfirmedIsBacked
<1> QED
  BY <1>7, <1>8, <1>9, <1>10, <1>11 DEF TicketInv

LEMMA FormMovesKeepTickets ==
  ASSUME TicketInv, NEW a \in Agents, FormMoves(a) PROVE TicketInv'
<1>1. typed \in [Agents -> Fields] /\ kept \in [Agents -> Fields] /\ record.fields \in Fields
  BY DEF TicketInv, TicketRowTypes
<1>2. SaveStands(NoCall, record.fields)
  BY DEF SaveStands, NoCall
<1>3. ASSUME NEW next \in Fields, Edit(a, next) PROVE TicketInv'
  <2>1. typed' \in [Agents -> Fields] /\ kept' = kept /\ call' = call /\ UNCHANGED <<record, mailOnly>>
    BY <1>1, <1>3 DEF Edit
  <2> QED
    BY <2>1, <1>1, <1>2, FormStepKeepsTickets
<1>4. CASE \E s \in TicketStatuses : Edit(a, [typed[a] EXCEPT !.status = s])
  <2>1. \A s \in TicketStatuses : [typed[a] EXCEPT !.status = s] \in Fields
    BY <1>1 DEF Fields
  <2> QED
    BY <2>1, <1>3, <1>4
<1>5. CASE \E c \in Amounts : Edit(a, [typed[a] EXCEPT !.fare = c]) \/ Edit(a, [typed[a] EXCEPT !.tax = c])
  <2>1. \A c \in Amounts : [typed[a] EXCEPT !.fare = c] \in Fields /\ [typed[a] EXCEPT !.tax = c] \in Fields
    BY <1>1 DEF Fields
  <2> QED
    BY <2>1, <1>3, <1>5
<1>6. CASE \E b \in BOOLEAN : Edit(a, [typed[a] EXCEPT !.numbered = b])
  <2>1. \A b \in BOOLEAN : [typed[a] EXCEPT !.numbered = b] \in Fields
    BY <1>1 DEF Fields
  <2> QED
    BY <2>1, <1>3, <1>6
<1>7. CASE StartEdit(a) \/ CancelEdit(a)
  <2>1. typed' \in [Agents -> Fields] /\ kept' = kept /\ call' = call /\ UNCHANGED <<record, mailOnly>>
    BY <1>1, <1>7 DEF StartEdit, CancelEdit
  <2> QED
    BY <2>1, <1>1, <1>2, FormStepKeepsTickets
<1>8. CASE Sends(a)
  <2> DEFINE c == [step |-> "sent", patch |-> typed[a]]
  <2>1. typed' = typed /\ kept' = kept /\ UNCHANGED <<record, mailOnly>> /\ call' = [call EXCEPT ![a] = c]
    BY <1>8 DEF Sends
  <2>2. SaveStands(c, record.fields)
    BY <1>1 DEF SaveStands
  <2> QED
    BY <2>1, <2>2, <1>1, FormStepKeepsTickets
<1>9. CASE ReadsExisting(a)
  <2> DEFINE p == call[a].patch
             c == IF Backed(Merged(p, record.fields)) THEN [step |-> "checked", patch |-> p, seen |-> record.fields] ELSE [step |-> "failed"]
  <2>1. typed' = typed /\ kept' = kept /\ UNCHANGED <<record, mailOnly>> /\ call' = [call EXCEPT ![a] = c]
    BY <1>9 DEF ReadsExisting
  <2>2. p \in Fields
    BY <1>9 DEF ReadsExisting, TicketInv, SaveStands
  <2>3. SaveStands(c, record.fields)
    BY <2>2, <1>1 DEF SaveStands
  <2> HIDE DEF c
  <2> QED
    BY <2>1, <2>3, <1>1, FormStepKeepsTickets
<1>10. CASE Commits(a)
  BY <1>10, CommitsKeepsTickets
<1>11. CASE Hears(a)
  <2>1. call[a].patch \in Fields
    BY <1>11 DEF Hears, TicketInv, SaveStands
  <2>2. typed' = typed /\ kept' \in [Agents -> Fields] /\ UNCHANGED <<record, mailOnly>> /\ call' = [call EXCEPT ![a] = NoCall]
    BY <2>1, <1>1, <1>11 DEF Hears
  <2> QED
    BY <2>2, <1>1, <1>2, FormStepKeepsTickets
<1>12. CASE FailsToSave(a)
  <2>1. typed' = typed /\ kept' = kept /\ UNCHANGED <<record, mailOnly>> /\ call' = [call EXCEPT ![a] = NoCall]
    BY <1>12 DEF FailsToSave
  <2> QED
    BY <2>1, <1>1, <1>2, FormStepKeepsTickets
<1> QED
  BY <1>4, <1>5, <1>6, <1>7, <1>8, <1>9, <1>10, <1>11, <1>12 DEF FormMoves

LEMMA DialogMovesKeepTickets ==
  ASSUME TicketInv, NEW a \in Agents, DialogMoves(a) PROVE TicketInv'
<1> DEFINE DialogValues == [open : BOOLEAN, request : Nat, asked : SUBSET Nat, list : [of : Nat, boxes : SUBSET Mailboxes], ticked : SUBSET Mailboxes]
           d == dialog[a]
<1>1. d \in DialogValues /\ d.request \in Nat /\ d.asked \subseteq Nat /\ d.list \in [of : Nat, boxes : SUBSET Mailboxes] /\ d.ticked \subseteq Mailboxes
      /\ DialogStands(d) /\ mailboxes \subseteq Mailboxes /\ SignedMailbox \in mailboxes
  BY DEF TicketInv, DialogTypes
<1>2. NoList \in [of : Nat, boxes : SUBSET Mailboxes]
  BY DEF NoList
<1>3. ASSUME NEW n, n \in DialogValues, DialogStands(n), dialog' = [dialog EXCEPT ![a] = n], UNCHANGED <<record, formsOnly, mailboxes>> PROVE TicketInv'
  BY <1>3, DialogStepKeepsTickets
<1>4. CASE OpenDialog(a)
  <2> DEFINE q == d.request + 1  n == [d EXCEPT !.open = TRUE, !.request = q, !.asked = @ \cup {q}, !.list = NoList]
  <2>0. q \in Nat /\ d.asked \cup {q} \in SUBSET Nat
    BY <1>1
  <2>1. n \in DialogValues
    BY <1>1, <1>2, <2>0
  <2>2. DialogStands(n)
    BY <1>1 DEF DialogStands
  <2>3. dialog' = [dialog EXCEPT ![a] = n] /\ UNCHANGED <<record, formsOnly, mailboxes>>
    BY <1>4 DEF OpenDialog, Turns
  <2> HIDE DEF n, DialogValues
  <2> QED
    BY <2>1, <2>2, <2>3, <1>3
<1>5. CASE CloseDialog(a)
  <2> DEFINE n == [d EXCEPT !.open = FALSE, !.request = @ + 1]
  <2>3. dialog' = [dialog EXCEPT ![a] = n] /\ UNCHANGED <<record, formsOnly, mailboxes>>
    BY <1>5 DEF CloseDialog, Turns
  <2>0. d.request + 1 \in Nat
    BY <1>1
  <2>1. n \in DialogValues
    BY <1>1, <2>0
  <2>2. DialogStands(n)
    BY <1>1 DEF DialogStands
  <2> HIDE DEF n, DialogValues
  <2> QED
    BY <2>1, <2>2, <2>3, <1>3
<1>6. CASE Mail(a)
  <2> DEFINE n == [d EXCEPT !.open = FALSE]
  <2>1. n \in DialogValues
    BY <1>1
  <2>2. DialogStands(n)
    BY <1>1 DEF DialogStands
  <2>3. dialog' = [dialog EXCEPT ![a] = n] /\ UNCHANGED <<record, formsOnly, mailboxes>>
    BY <1>6 DEF Mail, Turns
  <2> HIDE DEF n, DialogValues
  <2> QED
    BY <2>1, <2>2, <2>3, <1>3
<1>7. ASSUME NEW q \in d.asked, ListArrives(a, q) PROVE TicketInv'
  <2> DEFINE n == [d EXCEPT !.asked = @ \ {q}, !.list = [of |-> q, boxes |-> mailboxes], !.ticked = {SignedMailbox}]
             m == [d EXCEPT !.asked = @ \ {q}]
  <2>0. /\ q \in Nat /\ d.asked \ {q} \in SUBSET Nat /\ {SignedMailbox} \in SUBSET Mailboxes
        /\ [of |-> q, boxes |-> mailboxes] \in [of : Nat, boxes : SUBSET Mailboxes]
    BY <1>1
  <2>1. n \in DialogValues /\ m \in DialogValues
    BY <1>1, <2>0
  <2>2. DialogStands(m) /\ (q = d.request => DialogStands(n))
    BY <1>1 DEF DialogStands
  <2>3. dialog' = [dialog EXCEPT ![a] = IF q = d.request THEN n ELSE m] /\ UNCHANGED <<record, formsOnly, mailboxes>>
    BY <1>7 DEF ListArrives, Turns
  <2> HIDE DEF n, m, DialogValues
  <2> QED
    BY <2>1, <2>2, <2>3, <1>3
<1>8. ASSUME NEW q \in d.asked, ListFails(a, q) PROVE TicketInv'
  <2> DEFINE m == [d EXCEPT !.asked = @ \ {q}]
  <2>1. m \in DialogValues
    BY <1>1
  <2>2. DialogStands(m)
    BY <1>1 DEF DialogStands
  <2>3. dialog' = [dialog EXCEPT ![a] = m] /\ UNCHANGED <<record, formsOnly, mailboxes>>
    BY <1>8 DEF ListFails, Turns
  <2> HIDE DEF m, DialogValues
  <2> QED
    BY <2>1, <2>2, <2>3, <1>3
<1>9. ASSUME NEW ticks \in SUBSET Mailboxes, TickMailbox(a, ticks) PROVE TicketInv'
  <2> DEFINE n == [d EXCEPT !.ticked = ticks]
  <2>1. n \in DialogValues
    BY <1>1
  <2>2. DialogStands(n)
    BY <1>1, <1>9 DEF DialogStands, TickMailbox
  <2>3. dialog' = [dialog EXCEPT ![a] = n] /\ UNCHANGED <<record, formsOnly, mailboxes>>
    BY <1>9 DEF TickMailbox, Turns
  <2> HIDE DEF n, DialogValues
  <2> QED
    BY <2>1, <2>2, <2>3, <1>3
<1> QED
  BY <1>4, <1>5, <1>6, <1>7, <1>8, <1>9 DEF DialogMoves

LEMMA TicketStep ==
  ASSUME TicketInv, [TicketingFormNext]_ticketingVars PROVE TicketInv'
<1>1. ASSUME NEW next \in SUBSET Mailboxes, EditMailboxes(next) PROVE TicketInv'
  <2>1. DialogTypes'
    BY <1>1 DEF EditMailboxes, TicketInv, DialogTypes
  <2>2. TicketRowTypes' /\ ProfitMatchesCosts' /\ ConfirmedIsBacked' /\ call' = call
    BY <1>1 DEF EditMailboxes, TicketInv, TicketRowTypes, ProfitMatchesCosts, ConfirmedIsBacked, formsOnly
  <2>3. \A b \in Agents : SaveStands(call'[b], record'.fields) /\ DialogStands(dialog'[b])
    BY <1>1, <2>2 DEF EditMailboxes, TicketInv, SaveStands, DialogStands
  <2> QED
    BY <2>1, <2>2, <2>3 DEF TicketInv
<1>2. CASE UNCHANGED ticketingVars
  BY <1>2 DEF ticketingVars, TicketInv, TicketRowTypes, DialogTypes, ProfitMatchesCosts, ConfirmedIsBacked, SaveStands, DialogStands
<1> QED
  BY <1>1, <1>2, FormMovesKeepTickets, DialogMovesKeepTickets DEF TicketingFormNext

\* The stored profit is that of the stored costs, a confirmed booking has a cost and a
\* number, and a dialog shows the list its latest opening asked for, whoever else saves or lists
\* meanwhile (actions/bookings.ts, airline-confirmation-dialog.tsx).
THEOREM TicketsHold ==
  TicketingFormSpec => []TicketsAreTrue
<1>1. TicketInv => TicketsAreTrue
  BY DEF TicketInv, TicketsAreTrue, DialogShowsItsOwnList, DialogStands
<1>2. TicketingFormInit => TicketInv
  BY TicketInit
<1>3. TicketInv /\ [TicketingFormNext]_ticketingVars => TicketInv'
  BY TicketStep
<1> QED
  BY <1>1, <1>2, <1>3, PTL DEF TicketingFormSpec

-----------------------------------------------------------------------------
(* The dialog for a new lead *)

\* What the form of a new lead can hold.
Entries == [caller : Callers \cup {NoCaller}, trip : Trips \cup {"ROUND_TRIP"}, return : BOOLEAN,
            source : LeadSources \cup {"WEBSITE"}, referrer : Callers \cup {NoCaller}, agent : Clerks]

\* Who gets a lead of a contact with this owner.
Taker(owner, picked) == IF owner \in Clerks \ {Me} THEN owner ELSE picked

\* Who gets it according to the notice.
Told(owner, picked) == IF owner \in Clerks THEN owner ELSE picked

\* What the search for this contact tells.
NoticeOf(c, owner) == IF owner = Stranger THEN NoNotice ELSE [caller |-> c, owner |-> owner]

\* The form as it is filled in: a return flight belongs to a round trip.
EntryStands == entry \in Entries /\ (entry.return => entry.trip = "ROUND_TRIP")

\* Owners, and the searches under way.
OwnersStand ==
  /\ ownerOfCaller \in [Callers -> Clerks \cup {Unowned, Stranger}] /\ preset \in Callers \cup {NoCaller}
  /\ looked \in Callers \cup {NoCaller} /\ lookups \subseteq Callers /\ unsure \in BOOLEAN

\* As long as one search ran at a time and none failed, the notice is the answer
\* to the last one.
NoticeStands ==
  ~unsure => /\ lookups \subseteq {looked}
             /\ looked # NoCaller /\ lookups = {} => notice = NoticeOf(looked, ownerOfCaller[looked])

\* A request under way carries a complete form and, if its notice was about the
\* customer, the promise that the owner of then gave rise to.
SentStands(s) ==
  s = NotSent \/ /\ s.form \in Entries /\ s.form.caller \in Callers /\ (s.form.return <=> s.form.trip = "ROUND_TRIP")
                 /\ s.current => s.promised = Told(s.owner, s.form.agent)

\* The invariant behind the dialog.
DialogInv == EntryStands /\ OwnersStand /\ NoticeStands /\ SentStands(sent) /\ NewLeadsAreHonest

\* The dialog as it is opened, and every move on it.
LEMMA DialogStarts == ASSUME NewLeadInit PROVE DialogInv
<1>1. preset \in Callers \cup {NoCaller}
  BY DEF NewLeadInit
<1>2. EntryStands
  BY <1>1, DialogConstants DEF NewLeadInit, EntryStands, Entries, NewEntry
<1>3. OwnersStand /\ NoticeStands /\ SentStands(sent)
  BY <1>1 DEF NewLeadInit, OwnersStand, NoticeStands, SentStands
<1>4. NewLeadsAreHonest
  BY DEF NewLeadInit, NewLeadsAreHonest, ReturnsBelongToRoundTrips, ReferrersBelongToReferrals, NoticesAreKept
<1> QED
  BY <1>2, <1>3, <1>4 DEF DialogInv

LEMMA FillingKeepsDialog ==
  ASSUME DialogInv, NEW filled, filled \in Entries, filled.return => filled.trip = "ROUND_TRIP", Fills(filled) PROVE DialogInv'
BY DEF Fills, DialogInv, EntryStands, OwnersStand, NoticeStands, dialogHistory, NewLeadsAreHonest, ReturnsBelongToRoundTrips,
       ReferrersBelongToReferrals, NoticesAreKept

LEMMA EntriesKeepDialog ==
  ASSUME DialogInv,
         \/ EnterReturn
         \/ \E t \in Trips : EnterTrip(t)
         \/ \E s \in LeadSources : EnterSource(s)
         \/ \E a \in Clerks : EnterAgent(a)
         \/ \E c \in Callers : EnterCaller(c)
         \/ \E c \in Callers \cup {NoCaller} : EnterReferrer(c)
  PROVE  DialogInv'
<1>1. entry \in Entries /\ (entry.return => entry.trip = "ROUND_TRIP")
  BY DEF DialogInv, EntryStands
<1>2. CASE EnterReturn
  <2> DEFINE n == [entry EXCEPT !.return = ~@]
  <2>1. n \in Entries /\ (n.return => n.trip = "ROUND_TRIP") /\ Fills(n)
    BY <1>1, <1>2 DEF EnterReturn, Entries
  <2> QED
    BY <2>1, FillingKeepsDialog
<1>3. ASSUME NEW t \in Trips, EnterTrip(t) PROVE DialogInv'
  <2> DEFINE b == IF t = "ROUND_TRIP" THEN entry.return ELSE FALSE  n == [entry EXCEPT !.trip = t, !.return = b]
  <2>1. b \in BOOLEAN /\ (b => t = "ROUND_TRIP") /\ Fills(n)
    BY <1>1, <1>3 DEF EnterTrip, Entries
  <2> HIDE DEF b
  <2>2. n \in Entries /\ (n.return => n.trip = "ROUND_TRIP")
    BY <1>1, <2>1 DEF Entries
  <2> QED
    BY <2>1, <2>2, FillingKeepsDialog
<1>4. ASSUME NEW s \in LeadSources, EnterSource(s) PROVE DialogInv'
  <2> DEFINE r == IF s = "REFERRAL" THEN entry.referrer ELSE NoCaller  n == [entry EXCEPT !.source = s, !.referrer = r]
  <2>1. r \in Callers \cup {NoCaller} /\ Fills(n)
    BY <1>1, <1>4 DEF EnterSource, Entries
  <2> HIDE DEF r
  <2>2. n \in Entries /\ (n.return => n.trip = "ROUND_TRIP")
    BY <1>1, <2>1 DEF Entries
  <2> QED
    BY <2>1, <2>2, FillingKeepsDialog
<1>5. ASSUME NEW a \in Clerks, EnterAgent(a) PROVE DialogInv'
  <2> DEFINE n == [entry EXCEPT !.agent = a]
  <2>1. n \in Entries /\ (n.return => n.trip = "ROUND_TRIP") /\ Fills(n)
    BY <1>1, <1>5 DEF EnterAgent, Entries
  <2> QED
    BY <2>1, FillingKeepsDialog
<1>6. ASSUME NEW c \in Callers \cup {NoCaller}, EnterCaller(c) \/ EnterReferrer(c) PROVE DialogInv'
  <2> DEFINE n == [entry EXCEPT !.caller = c]  m == [entry EXCEPT !.referrer = c]
  <2>1. n \in Entries /\ (n.return => n.trip = "ROUND_TRIP") /\ m \in Entries /\ (m.return => m.trip = "ROUND_TRIP")
    BY <1>1 DEF Entries
  <2>2. Fills(n) \/ Fills(m)
    BY <1>6 DEF EnterCaller, EnterReferrer
  <2> QED
    BY <2>1, <2>2, FillingKeepsDialog
<1> QED
  BY <1>2, <1>3, <1>4, <1>5, <1>6

LEMMA SubmittingKeepsDialog == ASSUME DialogInv, Submit PROVE DialogInv'
<1> DEFINE c == entry.caller  owner == ownerOfCaller[c]
           s == [form |-> entry, current |-> Current, owner |-> owner, promised |-> Promised, caller |-> c]
<1>1. /\ entry \in Entries /\ c \in Callers /\ (entry.return <=> entry.trip = "ROUND_TRIP")
      /\ owner \in Clerks \cup {Unowned, Stranger}
  BY DEF Submit, DialogInv, EntryStands, Entries, OwnersStand
<1>2. ASSUME Current PROVE Promised = Told(owner, entry.agent)
  <2>1. notice = NoticeOf(c, owner)
    BY <1>1, <1>2, DialogConstants DEF Current, DialogInv, NoticeStands
  <2>2. CASE owner = Stranger
    BY <2>1, <2>2, DialogConstants DEF NoticeOf, NoNotice, Promised, Told
  <2>3. CASE owner # Stranger
    <3>1. notice.owner = owner /\ notice.caller = c
      BY <2>1, <2>3 DEF NoticeOf
    <3> QED
      BY <3>1, <2>3, <1>1, DialogConstants DEF Promised, Told
  <2> QED
    BY <2>2, <2>3
<1>3. s.form = entry /\ s.owner = owner /\ s.promised = Promised /\ (s.current <=> Current)
  OBVIOUS
<1>4. sent' = s /\ UNCHANGED <<preset, ownerOfCaller, entry, lookups, notice, entered, looked, unsure>>
  BY DEF Submit, dialogHistory
<1> HIDE DEF s
<1>5. SentStands(s)
  BY <1>1, <1>2, <1>3 DEF SentStands
<1>6. EntryStands' /\ OwnersStand' /\ NoticeStands' /\ NewLeadsAreHonest'
  BY <1>4 DEF DialogInv, EntryStands, OwnersStand, NoticeStands, NewLeadsAreHonest, ReturnsBelongToRoundTrips,
       ReferrersBelongToReferrals, NoticesAreKept
<1> QED
  BY <1>4, <1>5, <1>6 DEF DialogInv

LEMMA CreatingKeepsDialog == ASSUME DialogInv, CreateLead PROVE DialogInv'
<1> DEFINE filled == sent.form  c == filled.caller  agent == Assigns(c, filled.agent)
           l == [trip |-> filled.trip, return |-> filled.return, source |-> filled.source,
                 referrer |-> IF filled.source = "REFERRAL" /\ filled.referrer # c THEN filled.referrer ELSE NoCaller,
                 caller |-> c, picked |-> filled.agent, agent |-> agent,
                 promised |-> IF sent.current /\ ownerOfCaller[c] = sent.owner THEN sent.promised ELSE agent]
<1>1. /\ filled \in Entries /\ c \in Callers /\ (filled.return <=> filled.trip = "ROUND_TRIP")
      /\ sent.current => sent.promised = Told(sent.owner, filled.agent)
  BY DEF CreateLead, DialogInv, SentStands
<1>2. agent = Taker(ownerOfCaller[c], filled.agent) /\ agent \in Clerks
  BY <1>1 DEF Assigns, Taker, Entries
<1>3. entered' = entered \cup {l}
  BY DEF CreateLead
<1>4. (l.return <=> l.trip = "ROUND_TRIP") /\ (l.referrer # NoCaller => l.source = "REFERRAL" /\ l.referrer # l.caller)
  BY <1>1, <1>2
<1>10. l.agent = l.promised \/ (l.promised = Me /\ l.agent = l.picked)
  BY <1>1, <1>2 DEF Taker, Told
<1> HIDE DEF l
<1>5. NewLeadsAreHonest'
  BY <1>3, <1>4, <1>10 DEF DialogInv, NewLeadsAreHonest, ReturnsBelongToRoundTrips, ReferrersBelongToReferrals, NoticesAreKept
<1>6. ownerOfCaller' \in [Callers -> Clerks \cup {Unowned, Stranger}]
  BY <1>2 DEF CreateLead, DialogInv, OwnersStand
<1>7. sent' = NotSent /\ UNCHANGED <<preset, lookups>>
  BY DEF CreateLead
<1>8. CASE entry' = NewEntry /\ notice' = NoNotice /\ looked' = NoCaller /\ unsure' = (unsure \/ lookups # {})
  <2>1. preset' \in Callers \cup {NoCaller}
    BY <1>7 DEF DialogInv, OwnersStand
  <2>2. EntryStands'
    BY <2>1, <1>7, <1>8, DialogConstants DEF EntryStands, Entries, NewEntry
  <2>3. OwnersStand' /\ NoticeStands'
    BY <2>1, <1>6, <1>7, <1>8 DEF DialogInv, OwnersStand, NoticeStands
  <2> QED
    BY <2>2, <2>3, <1>5, <1>7 DEF DialogInv, SentStands
<1>9. CASE UNCHANGED <<entry, notice, looked>> /\ unsure' = TRUE
  BY <1>5, <1>6, <1>7, <1>9 DEF DialogInv, EntryStands, OwnersStand, NoticeStands, SentStands
<1> QED
  BY <1>8, <1>9 DEF CreateLead

LEMMA DialogStep ==
  ASSUME DialogInv, [NewLeadNext]_newLeadVars PROVE DialogInv'
<1>1. ASSUME UNCHANGED <<entry, sent, entered>> PROVE EntryStands' /\ SentStands(sent') /\ NewLeadsAreHonest'
  BY <1>1 DEF DialogInv, EntryStands, NewLeadsAreHonest, ReturnsBelongToRoundTrips, ReferrersBelongToReferrals, NoticesAreKept
<1>2. CASE LeaveField
  <2>1. UNCHANGED <<entry, sent, entered, ownerOfCaller, preset>> /\ entry.caller \in Callers /\ lookups' = lookups \cup {entry.caller}
        /\ looked' = entry.caller /\ unsure' = (unsure \/ lookups # {})
    BY <1>2 DEF LeaveField, DialogInv, EntryStands, Entries
  <2>2. OwnersStand' /\ NoticeStands'
    BY <2>1 DEF DialogInv, OwnersStand, NoticeStands
  <2> QED
    BY <2>1, <2>2, <1>1 DEF DialogInv
<1>3. ASSUME NEW c \in Callers, LookupAnswers(c) PROVE DialogInv'
  <2>1. UNCHANGED <<entry, sent, entered, ownerOfCaller, preset, looked, unsure>> /\ c \in lookups /\ lookups' = lookups \ {c}
        /\ notice' = NoticeOf(c, ownerOfCaller[c])
    BY <1>3 DEF LookupAnswers, NoticeOf, dialogHistory
  <2>2. OwnersStand' /\ NoticeStands'
    BY <2>1 DEF DialogInv, OwnersStand, NoticeStands
  <2> QED
    BY <2>1, <2>2, <1>1 DEF DialogInv
<1>4. ASSUME NEW c \in Callers, LookupFails(c) \/ \E a \in Clerks : OwnerChanges(c, a) PROVE DialogInv'
  <2>1. UNCHANGED <<entry, sent, entered, preset, looked>> /\ unsure' = TRUE /\ lookups' \subseteq lookups
        /\ ownerOfCaller' \in [Callers -> Clerks \cup {Unowned, Stranger}]
    BY <1>4 DEF LookupFails, OwnerChanges, DialogInv, OwnersStand
  <2>2. OwnersStand' /\ NoticeStands'
    BY <2>1 DEF DialogInv, OwnersStand, NoticeStands
  <2> QED
    BY <2>1, <2>2, <1>1 DEF DialogInv
<1>5. CASE UNCHANGED newLeadVars
  <2>1. OwnersStand' /\ NoticeStands'
    BY <1>5 DEF DialogInv, OwnersStand, NoticeStands, newLeadVars, dialogHistory
  <2> QED
    BY <2>1, <1>1, <1>5 DEF DialogInv, newLeadVars
<1> QED
  BY <1>2, <1>3, <1>4, <1>5, EntriesKeepDialog, SubmittingKeepsDialog, CreatingKeepsDialog DEF NewLeadNext

\* The promises, from the invariant.
LEMMA DialogPromises == DialogInv => NewLeadsAreHonest
BY DEF DialogInv

\* A return belongs to a round trip and a referrer to a referral, and the owner whom the
\* notice named keeps the lead; an agent who was told "assigned to you as usual" has the lead or
\* the one picked in the dialog has it; unless searches crossed, failed or are stale
\* (new-lead-dialog.tsx, actions/leads.ts).
THEOREM NewLeadsHold ==
  NewLeadSpec => []NewLeadsAreHonest
<1>1. DialogInv => NewLeadsAreHonest
  BY DialogPromises
<1>2. NewLeadInit => DialogInv
  BY DialogStarts
<1>3. DialogInv /\ [NewLeadNext]_newLeadVars => DialogInv'
  BY DialogStep
<1> QED
  BY <1>1, <1>2, <1>3, PTL DEF NewLeadSpec

-----------------------------------------------------------------------------
(* The Users page *)

\* The ticks differ from the team as saved by members this administrator touched,
\* while the popover is open, and by none while it is closed; what is sent is
\* what is ticked.  A popover closed while it was saving is left out.
PopoverStands(p, ticked, slips) ==
  /\ \/ p \in [team : {p.team}, open : BOOLEAN, saved : {p.saved}, selected : {p.selected}, sending : {FALSE}]
     \/ p \in [team : {p.team}, open : BOOLEAN, saved : {p.saved}, selected : {p.selected}, sending : {TRUE},
               change : {p.change}, ids : {p.ids}, touched : {p.touched}]
  /\ ~slips =>
       /\ p.selected \subseteq p.saved \cup ticked /\ p.saved \subseteq p.selected \cup ticked
       /\ ~p.open => p.selected = p.saved
       /\ p.sending => p.open /\ p.ids = p.selected /\ p.change.add \cup p.change.remove \subseteq p.touched

\* No member was moved whom nobody touched.
TeamsStand ==
  /\ dragged = {} /\ managedBy \in [Members -> {managedBy[a] : a \in Members}]
  /\ popover \in [AdminTabs -> {popover[t] : t \in AdminTabs}] /\ touched \in [AdminTabs -> {touched[t] : t \in AdminTabs}]
  /\ \A t \in AdminTabs : PopoverStands(popover[t], touched[t], t \in slipped)

\* What is sent adds what was asked for; the page that wrote last shows, or goes
\* back to, what is granted.
BoxesStand(b, knows, granted) ==
  /\ \/ b \in [current : {b.current}, asking : {b.asking}, sending : {FALSE}]
     \/ b \in [current : {b.current}, asking : {b.asking}, sending : {TRUE}, before : {b.before}, asked : {b.asked}]
  /\ b.sending => b.current \subseteq b.before \cup b.asked
  /\ knows => granted = IF b.sending THEN b.before ELSE b.current

\* No grant was written that nobody asked for.
GrantsStand ==
  /\ unasked = {} /\ boxes \in [AdminTabs -> {boxes[t] : t \in AdminTabs}]
  /\ \A t \in AdminTabs : BoxesStand(boxes[t], grantedBy = t, grants)

\* The invariant behind the Users page.
EditorInv == TeamsStand /\ GrantsStand

\* The page as it is opened, and every move on it.
LEMMA EditorStarts == ASSUME AccountEditorInit PROVE EditorInv
<1>2. TeamsStand
  <2>1. \A t \in AdminTabs : PopoverStands(popover[t], touched[t], t \in slipped)
    <3>1. ASSUME NEW t \in AdminTabs PROVE \E m \in Teams : popover[t] = [team |-> m, open |-> FALSE, saved |-> TeamNow(m), selected |-> TeamNow(m), sending |-> FALSE]
      BY DEF AccountEditorInit
    <3>2. ASSUME NEW m, NEW ticked, NEW slips
          PROVE  PopoverStands([team |-> m, open |-> FALSE, saved |-> TeamNow(m), selected |-> TeamNow(m), sending |-> FALSE], ticked, slips)
      BY DEF PopoverStands
    <3> QED
      BY <3>1, <3>2
  <2>2. /\ dragged = {} /\ managedBy \in [Members -> {managedBy[a] : a \in Members}]
        /\ popover \in [AdminTabs -> {popover[t] : t \in AdminTabs}] /\ touched \in [AdminTabs -> {touched[t] : t \in AdminTabs}]
    BY DEF AccountEditorInit
  <2> QED
    BY <2>1, <2>2 DEF TeamsStand
<1>3. GrantsStand
  BY EditorConstants DEF AccountEditorInit, GrantsStand, BoxesStand
<1> QED
  BY <1>2, <1>3 DEF EditorInv

\* A popover's step: its own state stands, and the other popovers are untouched.
LEMMA PopoverKeepsTeams ==
  ASSUME TeamsStand, NEW t \in AdminTabs, NEW p, popover' = [popover EXCEPT ![t] = p],
         touched' \in [AdminTabs -> {touched'[x] : x \in AdminTabs}], \A x \in AdminTabs : x # t => touched'[x] = touched[x],
         \A x \in AdminTabs : x # t => (x \in slipped' <=> x \in slipped),
         PopoverStands(p, touched'[t], t \in slipped'), dragged' = {},
         managedBy' \in [Members -> {managedBy'[a] : a \in Members}]
  PROVE  TeamsStand'
<1>1. popover' \in [AdminTabs -> {popover'[x] : x \in AdminTabs}] /\ \A x \in AdminTabs : popover'[x] = IF x = t THEN p ELSE popover[x]
  BY DEF TeamsStand
<1>2. \A x \in AdminTabs : PopoverStands(popover'[x], touched'[x], x \in slipped')
  <2>1. ASSUME NEW x \in AdminTabs, x # t PROVE PopoverStands(popover'[x], touched'[x], x \in slipped')
    <3>1. PopoverStands(popover[x], touched[x], x \in slipped) /\ popover'[x] = popover[x] /\ touched'[x] = touched[x]
          /\ (x \in slipped' <=> x \in slipped)
      BY <2>1, <1>1 DEF TeamsStand
    <3> QED
      BY <3>1 DEF PopoverStands
  <2> QED
    BY <2>1, <1>1
<1> QED
  BY <1>1, <1>2 DEF TeamsStand

LEMMA AnswerKeepsTeams ==
  ASSUME TeamsStand, NEW t \in AdminTabs, TeamAnswers(t) PROVE TeamsStand'
<1> DEFINE p == popover[t]
           shows(saved, open) == [team |-> p.team, open |-> open, saved |-> saved, selected |-> p.selected, sending |-> FALSE]
<1>1. PopoverStands(p, touched[t], t \in slipped) /\ p.sending /\ touched \in [AdminTabs -> {touched[x] : x \in AdminTabs}]
  BY DEF TeamsStand, TeamAnswers
<1>2. p.open \in BOOLEAN
  BY <1>1 DEF PopoverStands
<1>3. PopoverStands(shows(p.ids, FALSE), touched[t], t \in slipped) /\ PopoverStands(shows(p.saved, p.open), touched[t], t \in slipped)
  BY <1>1, <1>2 DEF PopoverStands
<1>4. /\ popover' = [popover EXCEPT ![t] = shows(p.ids, FALSE)] \/ popover' = [popover EXCEPT ![t] = shows(p.saved, p.open)]
      /\ UNCHANGED <<touched, slipped>>
      /\ \/ managedBy' = managedBy /\ dragged' = dragged
         \/ /\ managedBy' = MovedTo(p.team, p.change)
            /\ dragged' = IF t \in slipped THEN dragged
                          ELSE dragged \cup {a \in Members : managedBy'[a] # managedBy[a] /\ a \notin p.touched}
  BY DEF TeamAnswers, Popover
<1>5. ASSUME t \notin slipped, managedBy' = MovedTo(p.team, p.change), NEW a \in Members, managedBy'[a] # managedBy[a] PROVE a \in p.touched
  <2>1. a \in p.change.add \cup p.change.remove
    BY <1>5 DEF MovedTo
  <2>2. p.change.add \cup p.change.remove \subseteq p.touched
    BY <1>1, <1>5 DEF PopoverStands
  <2> QED
    BY <2>1, <2>2
<1>6. dragged' = {}
  <2>1. dragged = {}
    BY DEF TeamsStand
  <2> QED
    BY <2>1, <1>4, <1>5
<1>7. managedBy' \in [Members -> {managedBy'[a] : a \in Members}]
  <2>1. managedBy \in [Members -> {managedBy[a] : a \in Members}]
    BY DEF TeamsStand
  <2>2. MovedTo(p.team, p.change) \in [Members -> {MovedTo(p.team, p.change)[a] : a \in Members}]
    BY DEF MovedTo
  <2> QED
    BY <2>1, <2>2, <1>4
<1> HIDE DEF shows, p
<1> QED
  BY <1>1, <1>3, <1>4, <1>6, <1>7, PopoverKeepsTeams

LEMMA TeamsKeepEditor ==
  ASSUME EditorInv, TeamNext, UNCHANGED <<grants, boxes, unasked, grantedBy>>
  PROVE  EditorInv'
<1>1. PICK t \in AdminTabs :
        \/ OpenTeam(t) \/ CloseTeam(t) \/ SendTeam(t) \/ TeamAnswers(t)
        \/ \E m \in Teams : LoadTeam(t, m)
        \/ \E a \in Members : TickAgent(t, a)
  BY DEF TeamNext
<1> DEFINE p == popover[t]
<1>2. /\ TeamsStand /\ PopoverStands(p, touched[t], t \in slipped) /\ touched \in [AdminTabs -> {touched[x] : x \in AdminTabs}]
      /\ dragged = {} /\ managedBy \in [Members -> {managedBy[a] : a \in Members}]
  BY DEF EditorInv, TeamsStand
<1>3. ASSUME NEW n, popover' = [popover EXCEPT ![t] = n], UNCHANGED <<managedBy, dragged>>,
             NEW ticked, touched' = [touched EXCEPT ![t] = ticked] \/ (touched' = touched /\ ticked = touched[t]),
             \A x \in AdminTabs : x # t => (x \in slipped' <=> x \in slipped), PopoverStands(n, ticked, t \in slipped')
      PROVE  TeamsStand'
  <2>1. touched' \in [AdminTabs -> {touched'[x] : x \in AdminTabs}] /\ touched'[t] = ticked /\ \A x \in AdminTabs : x # t => touched'[x] = touched[x]
    BY <1>2, <1>3
  <2> QED
    BY <2>1, <1>2, <1>3, PopoverKeepsTeams
<1>4. ASSUME OpenTeam(t) PROVE TeamsStand'
  <2> DEFINE n == [p EXCEPT !.open = TRUE]
  <2>1. popover' = [popover EXCEPT ![t] = n] /\ UNCHANGED <<managedBy, dragged, slipped>> /\ touched' = [touched EXCEPT ![t] = {}] /\ ~p.open
    BY <1>4 DEF OpenTeam, Popover
  <2>2. PopoverStands(n, {}, t \in slipped)
    BY <2>1, <1>2 DEF PopoverStands
  <2> HIDE DEF n
  <2> QED
    BY <2>1, <2>2, <1>3
<1>5. ASSUME CloseTeam(t) PROVE TeamsStand'
  <2> DEFINE n == [p EXCEPT !.open = FALSE, !.selected = p.saved]
  <2>1. popover' = [popover EXCEPT ![t] = n] /\ UNCHANGED <<managedBy, dragged, touched>>
        /\ slipped' = (IF p.sending THEN slipped \cup {t} ELSE slipped)
    BY <1>5 DEF CloseTeam, Popover
  <2>2. PopoverStands(n, touched[t], t \in slipped')
    <3>1. CASE p.sending
      BY <3>1, <2>1, <1>2 DEF PopoverStands
    <3>2. CASE ~p.sending
      BY <3>2, <2>1, <1>2 DEF PopoverStands
    <3> QED
      BY <3>1, <3>2
  <2> HIDE DEF n
  <2> QED
    BY <2>1, <2>2, <1>3
<1>6. ASSUME SendTeam(t) PROVE TeamsStand'
  <2> DEFINE n == [team |-> p.team, open |-> TRUE, saved |-> p.saved, selected |-> p.selected, sending |-> TRUE,
                   change |-> TeamChange(t), ids |-> p.selected, touched |-> touched[t]]
  <2>1. popover' = [popover EXCEPT ![t] = n] /\ UNCHANGED <<managedBy, dragged, touched, slipped>>
    BY <1>6 DEF SendTeam, Popover, editorHistory
  <2>2. PopoverStands(n, touched[t], t \in slipped)
    <3>1. n.change.add = p.selected \ p.saved /\ n.change.remove = p.saved \ p.selected
      BY DEF TeamChange
    <3>2. n \in [team : {n.team}, open : BOOLEAN, saved : {n.saved}, selected : {n.selected}, sending : {TRUE},
                 change : {n.change}, ids : {n.ids}, touched : {n.touched}]
      OBVIOUS
    <3>3. n.saved = p.saved /\ n.selected = p.selected /\ n.ids = p.selected /\ n.touched = touched[t] /\ n.open
      OBVIOUS
    <3> HIDE DEF n
    <3>4. t \notin slipped => p.selected \subseteq p.saved \cup touched[t] /\ p.saved \subseteq p.selected \cup touched[t]
      BY <1>2 DEF PopoverStands
    <3> QED
      BY <3>1, <3>2, <3>3, <3>4 DEF PopoverStands
  <2> HIDE DEF n
  <2> QED
    BY <2>1, <2>2, <1>3
<1>7. ASSUME NEW m \in Teams, LoadTeam(t, m) PROVE TeamsStand'
  <2> DEFINE n == [team |-> m, open |-> FALSE, saved |-> TeamNow(m), selected |-> TeamNow(m), sending |-> FALSE]
  <2>1. popover' = [popover EXCEPT ![t] = n] /\ UNCHANGED <<managedBy, dragged>> /\ slipped' = slipped \ {t} /\ touched' = [touched EXCEPT ![t] = {}]
    BY <1>7 DEF LoadTeam, Popover
  <2>2. PopoverStands(n, {}, t \in slipped')
    BY DEF PopoverStands
  <2> HIDE DEF n
  <2> QED
    BY <2>1, <2>2, <1>3
<1>8. ASSUME NEW a \in Members, TickAgent(t, a) PROVE TeamsStand'
  <2> DEFINE s == IF a \in p.selected THEN p.selected \ {a} ELSE p.selected \cup {a}  n == [p EXCEPT !.selected = s]
  <2>1. popover' = [popover EXCEPT ![t] = n] /\ UNCHANGED <<managedBy, dragged, slipped>> /\ touched' = [touched EXCEPT ![t] = @ \cup {a}]
        /\ p.open /\ ~p.sending
    BY <1>8 DEF TickAgent, Popover
  <2>2. /\ p \in [team : {p.team}, open : BOOLEAN, saved : {p.saved}, selected : {p.selected}, sending : {FALSE}]
        /\ t \notin slipped => s \subseteq p.saved \cup touched[t] \cup {a} /\ p.saved \subseteq s \cup touched[t] \cup {a}
    BY <2>1, <1>2 DEF PopoverStands
  <2> HIDE DEF s
  <2>3. PopoverStands(n, touched[t] \cup {a}, t \in slipped)
    BY <2>1, <2>2 DEF PopoverStands
  <2> HIDE DEF n
  <2> QED
    BY <2>1, <2>3, <1>3
<1>9. TeamsStand'
  BY <1>1, <1>2, <1>4, <1>5, <1>6, <1>7, <1>8, AnswerKeepsTeams
<1>10. GrantsStand'
  BY DEF EditorInv, GrantsStand
<1> QED
  BY <1>9, <1>10 DEF EditorInv

\* A step of one page's boxes that writes nothing.
LEMMA BoxesKeepGrants ==
  ASSUME GrantsStand, NEW t \in AdminTabs, NEW b, boxes' = [boxes EXCEPT ![t] = b], unasked' = {},
         BoxesStand(b, grantedBy' = t, grants'),
         \A x \in AdminTabs : x # t /\ grantedBy' = x => grantedBy = x /\ grants' = grants
  PROVE  GrantsStand'
<1>1. boxes' \in [AdminTabs -> {boxes'[x] : x \in AdminTabs}] /\ \A x \in AdminTabs : boxes'[x] = IF x = t THEN b ELSE boxes[x]
  BY DEF GrantsStand
<1>2. ASSUME NEW x \in AdminTabs, x # t PROVE BoxesStand(boxes'[x], grantedBy' = x, grants')
  <2>1. BoxesStand(boxes[x], grantedBy = x, grants) /\ boxes'[x] = boxes[x]
    BY <1>1, <1>2 DEF GrantsStand
  <2> QED
    BY <2>1, <1>2 DEF BoxesStand
<1> QED
  BY <1>1, <1>2 DEF GrantsStand

LEMMA GrantsKeepEditor ==
  ASSUME EditorInv, GrantNext, UNCHANGED <<managedBy, popover, touched, dragged, slipped>>
  PROVE  EditorInv'
<1>1. PICK t \in AdminTabs :
        \/ LoadBoxes(t) \/ AnswerGrant(t) \/ BoxesAnswer(t) \/ SignInAges(t)
        \/ \E g \in Grants \ {LegacyReveal} : Untick(t, g) \/ AskGrant(t, g)
  BY DEF GrantNext
<1> DEFINE b == boxes[t]
           shows(current) == [current |-> current, asking |-> Absent, sending |-> FALSE]
<1>2. GrantsStand /\ unasked = {} /\ BoxesStand(b, grantedBy = t, grants)
  BY DEF EditorInv, GrantsStand
<1>3. ASSUME NEW next, NEW asked, SendBoxes(t, next, asked), next \subseteq b.current \cup asked, ~b.sending PROVE GrantsStand'
  <2> DEFINE n == [current |-> next, asking |-> Absent, sending |-> TRUE, before |-> b.current, asked |-> asked]
  <2>1. boxes' = [boxes EXCEPT ![t] = n] /\ UNCHANGED <<grants, unasked, grantedBy>>
    BY <1>3 DEF SendBoxes, Boxes, editorHistory
  <2>2. BoxesStand(n, grantedBy = t, grants)
    BY <1>2, <1>3 DEF BoxesStand
  <2> HIDE DEF n
  <2> QED
    BY <2>1, <2>2, <1>2, BoxesKeepGrants
<1>4. ASSUME NEW g, Untick(t, g) PROVE GrantsStand'
  BY <1>4, <1>3 DEF Untick, Without
<1>5. ASSUME NEW g, AskGrant(t, g) PROVE GrantsStand'
  <2> DEFINE n == [b EXCEPT !.asking = g]
  <2>1. boxes' = [boxes EXCEPT ![t] = n] /\ UNCHANGED <<grants, unasked, grantedBy>> /\ ~b.sending
    BY <1>5 DEF AskGrant, Boxes, editorHistory
  <2>2. BoxesStand(n, grantedBy = t, grants)
    BY <2>1, <1>2 DEF BoxesStand
  <2> HIDE DEF n
  <2> QED
    BY <2>1, <2>2, <1>2, BoxesKeepGrants
<1>6. ASSUME AnswerGrant(t) PROVE GrantsStand'
  <2> DEFINE g == b.asking  n == [b EXCEPT !.asking = Absent]
  <2>1. ~b.sending
    BY <1>6 DEF AnswerGrant
  <2>2. CASE SendBoxes(t, Without(b.current, g) \cup {g}, {g})
    BY <2>1, <2>2, <1>3 DEF Without
  <2>3. CASE boxes' = [boxes EXCEPT ![t] = n] /\ UNCHANGED <<grants, unasked, grantedBy>>
    <3>1. BoxesStand(n, grantedBy = t, grants)
      BY <2>1, <1>2 DEF BoxesStand
    <3> HIDE DEF n
    <3> QED
      BY <2>3, <3>1, <1>2, BoxesKeepGrants
  <2> QED
    BY <2>2, <2>3, <1>6 DEF AnswerGrant, Boxes, editorHistory
<1>7. ASSUME LoadBoxes(t) PROVE GrantsStand'
  <2>1. boxes' = [boxes EXCEPT ![t] = shows(grants)] /\ UNCHANGED <<grants, unasked>> /\ grantedBy' = IF grantedBy = t THEN Absent ELSE grantedBy
    BY <1>7 DEF LoadBoxes, Boxes
  <2>2. BoxesStand(shows(grants), grantedBy' = t, grants)
    BY DEF BoxesStand
  <2>3. \A x \in AdminTabs : grantedBy' = x => grantedBy = x
    BY <2>1, EditorConstants
  <2> HIDE DEF shows
  <2> QED
    BY <2>1, <2>2, <2>3, <1>2, BoxesKeepGrants
<1>8. ASSUME BoxesAnswer(t) PROVE GrantsStand'
  <2>1. b.sending /\ b.current \subseteq b.before \cup b.asked /\ (grantedBy = t => grants = b.before)
    BY <1>2, <1>8 DEF BoxesAnswer, BoxesStand
  <2>2. \A set, knows : BoxesStand(shows(set), knows, set)
    BY DEF BoxesStand
  <2>3. \A set, x : BoxesStand(shows(set), FALSE, x)
    BY DEF BoxesStand
  <2>4. Absent \notin AdminTabs
    BY EditorConstants
  <2>5. CASE grants' = b.current
             /\ unasked' = (IF b.before = grants THEN unasked \cup (b.current \ (grants \cup b.asked)) ELSE unasked)
             /\ \/ boxes' = [boxes EXCEPT ![t] = shows(b.current)] /\ grantedBy' = t
                \/ boxes' = [boxes EXCEPT ![t] = shows(b.before)] /\ grantedBy' = Absent
    <3>1. unasked' = {}
      BY <2>1, <2>5, <1>2
    <3>2. CASE boxes' = [boxes EXCEPT ![t] = shows(b.current)] /\ grantedBy' = t
      <4>1. BoxesStand(shows(b.current), grantedBy' = t, grants')
        BY <2>2, <2>5
      <4> HIDE DEF shows
      <4> QED
        BY <4>1, <3>1, <3>2, <1>2, BoxesKeepGrants
    <3>3. CASE boxes' = [boxes EXCEPT ![t] = shows(b.before)] /\ grantedBy' = Absent
      <4>1. BoxesStand(shows(b.before), grantedBy' = t, grants')
        BY <3>3, <2>4 DEF BoxesStand
      <4> HIDE DEF shows
      <4> QED
        BY <4>1, <3>1, <3>3, <2>4, <1>2, BoxesKeepGrants
    <3> QED
      BY <3>2, <3>3, <2>5
  <2>6. CASE boxes' = [boxes EXCEPT ![t] = shows(b.before)] /\ UNCHANGED <<grants, unasked, grantedBy>>
    <3>1. BoxesStand(shows(b.before), grantedBy = t, grants)
      BY <2>1 DEF BoxesStand
    <3> HIDE DEF shows
    <3> QED
      BY <3>1, <2>6, <1>2, BoxesKeepGrants
  <2> QED
    BY <2>5, <2>6, <1>8 DEF BoxesAnswer, Boxes
<1>9. ASSUME SignInAges(t) PROVE GrantsStand'
  BY <1>9, <1>2 DEF SignInAges, GrantsStand, editorPage, editorHistory
<1>10. GrantsStand'
  BY <1>1, <1>4, <1>5, <1>6, <1>7, <1>8, <1>9
<1>11. TeamsStand'
  BY DEF EditorInv, TeamsStand
<1> QED
  BY <1>10, <1>11 DEF EditorInv

LEMMA EditorStep ==
  ASSUME EditorInv, [AccountEditorNext]_accountEditorVars PROVE EditorInv'
<1>2. CASE TeamNext
  <2>1. UNCHANGED <<grants, boxes, unasked, grantedBy>>
    BY <1>2 DEF TeamNext, OpenTeam, CloseTeam, SendTeam, TeamAnswers, LoadTeam, TickAgent, Popover, editorHistory
  <2> QED
    BY <2>1, <1>2, TeamsKeepEditor
<1>3. CASE GrantNext
  <2>1. UNCHANGED <<managedBy, popover, touched, dragged, slipped>>
    BY <1>3 DEF GrantNext, LoadBoxes, AnswerGrant, BoxesAnswer, SignInAges, Untick, AskGrant, SendBoxes, Boxes, editorPage, editorHistory
  <2> QED
    BY <2>1, <1>3, GrantsKeepEditor
<1>4. CASE UNCHANGED accountEditorVars
  BY <1>4 DEF accountEditorVars, editorPage, editorHistory, EditorInv, TeamsStand, GrantsStand
<1> QED
  BY <1>2, <1>3, <1>4 DEF AccountEditorNext

\* The promises, from the invariant.
LEMMA EditorPromises == EditorInv => UsersPageIsHonest
BY DEF EditorInv, TeamsStand, GrantsStand, BoxesStand, UsersPageIsHonest, UntouchedStay, GrantsAreAsked, RevealBoxIsTrue

\* An agent nobody touched stays in their team, no permission is given unasked, and the
\* Reveal box of the page that wrote last is true (manager-team-editor.tsx, account-row-editor.tsx).
THEOREM UsersPageHolds ==
  AccountEditorSpec => []UsersPageIsHonest
<1>1. EditorInv => UsersPageIsHonest
  BY EditorPromises
<1>2. AccountEditorInit => EditorInv
  BY EditorStarts
<1>3. EditorInv /\ [AccountEditorNext]_accountEditorVars => EditorInv'
  BY EditorStep
<1> QED
  BY <1>1, <1>2, <1>3, PTL DEF AccountEditorSpec

-----------------------------------------------------------------------------
(* The page of a lead: the order of the stored legs *)

\* The members of a finite order take every rank.
LEMMA RanksAreTaken ==
  ASSUME NEW S, IsFiniteSet(S), NEW below \in [S -> SUBSET S],
         \A x \in S : x \notin below[x],
         \A x, y \in S : x # y => x \in below[y] \/ y \in below[x],
         \A x, y \in S : x \in below[y] => below[x] \subseteq below[y]
  PROVE  \A k \in 1..Cardinality(S) : \E x \in S : Cardinality(below[x]) = k - 1
<1> DEFINE n == Cardinality(S)  rank == [x \in S |-> Cardinality(below[x])]
<1>1. n \in Nat
  BY FS_CardinalityType
<1>2. ASSUME NEW x \in S PROVE IsFiniteSet(below[x]) /\ rank[x] \in 0..(n - 1)
  <2>1. IsFiniteSet(below[x]) /\ Cardinality(below[x]) <= n /\ Cardinality(below[x]) # n
    BY FS_Subset
  <2>2. Cardinality(below[x]) \in Nat
    BY <2>1, FS_CardinalityType
  <2> QED
    BY <2>1, <2>2, <1>1
<1>3. ASSUME NEW x \in S, NEW y \in S, x \in below[y] PROVE rank[x] # rank[y]
  <2>1. below[x] \in SUBSET below[y] /\ below[x] # below[y]
    BY <1>3
  <2>2. IsFiniteSet(below[y])
    BY <1>2
  <2>3. Cardinality(below[y]) # Cardinality(below[x])
    BY <2>1, <2>2, FS_Subset
  <2> QED
    BY <2>3
<1>4. rank \in Injection(S, 0..(n - 1))
  <2>1. rank \in [S -> 0..(n - 1)]
    BY <1>2
  <2>2. \A x, y \in S : rank[x] = rank[y] => x = y
    BY <1>3
  <2> HIDE DEF rank
  <2> QED
    BY <2>1, <2>2 DEF Injection, IsInjective
<1>5. IsFiniteSet(0..(n - 1)) /\ Cardinality(0..(n - 1)) = n
  <2>1. IsFiniteSet(0..(n - 1)) /\ Cardinality(0..(n - 1)) = IF 0 > n - 1 THEN 0 ELSE (n - 1) - 0 + 1
    BY <1>1, FS_Interval
  <2> QED
    BY <2>1, <1>1
<1>6. rank \in Surjection(S, 0..(n - 1))
  BY <1>4, <1>5, FS_Injection
<1>7. \A k \in 1..n : k - 1 \in 0..(n - 1)
  BY <1>1
<1>8. \A m \in 0..(n - 1) : \E x \in S : rank[x] = m
  BY <1>6 DEF Surjection
<1> QED
  BY <1>7, <1>8

\* The rows one list is stored as.
ListRows(legs, save) ==
  {[sequence |-> i, from |-> legs[i].from, to |-> legs[i].to, save |-> save] : i \in DOMAIN legs}

\* Routes: one leg at least.
LegLists == {s \in Seq([from : Ends, to : Ends]) : Len(s) >= 1}

\* The legs of a list, and the rows they are stored as.
LEMMA LegsOfList ==
  ASSUME NEW legs \in LegLists
  PROVE  /\ Len(legs) \in Nat /\ DOMAIN legs = 1..Len(legs) /\ 1 \in DOMAIN legs
         /\ \A i \in DOMAIN legs : legs[i] = Leg(legs[i].from, legs[i].to) /\ legs[i] \in [from : Ends, to : Ends]
<1> DEFINE E == [from : Ends, to : Ends]
<1>1. legs \in Seq(E) /\ Len(legs) >= 1
  BY DEF LegLists
<1>2. \A x \in E : x = Leg(x.from, x.to)
  BY DEF Leg
<1> HIDE DEF E
<1>3. Len(legs) \in Nat /\ DOMAIN legs = 1..Len(legs) /\ \A i \in DOMAIN legs : legs[i] \in E
  BY <1>1
<1>4. 1 \in DOMAIN legs
  BY <1>1, <1>3
<1> QED
  BY <1>2, <1>3, <1>4 DEF E

LEMMA RowsOfList ==
  ASSUME NEW legs \in LegLists, NEW save \in Nat
  PROVE  /\ IsFiniteSet(ListRows(legs, save)) /\ Cardinality(ListRows(legs, save)) = Len(legs)
         /\ ListRows(legs, save) # {} /\ {r.sequence : r \in ListRows(legs, save)} = 1..Len(legs)
         /\ \A i \in DOMAIN legs : Cardinality({q \in ListRows(legs, save) : q.sequence < i}) = i - 1
<1> DEFINE row(i) == [sequence |-> i, from |-> legs[i].from, to |-> legs[i].to, save |-> save]
<1>1. Len(legs) \in Nat /\ DOMAIN legs = 1..Len(legs) /\ 1 \in DOMAIN legs
  BY LegsOfList
<1>2. ASSUME NEW n \in 0..Len(legs) PROVE IsFiniteSet({row(i) : i \in 1..n}) /\ Cardinality({row(i) : i \in 1..n}) = n
  <2> DEFINE T == {row(i) : i \in 1..n}  f == [i \in 1..n |-> row(i)]
  <2>1. f \in [1..n -> T] /\ (\A i, j \in 1..n : f[i] = f[j] => i = j) /\ \A t \in T : \E i \in 1..n : f[i] = t
    <3>1. \A i \in 1..n : f[i].sequence = i
      OBVIOUS
    <3> QED
      BY <3>1
  <2> HIDE DEF T, f
  <2>2. ExistsBijection(1..n, T)
    BY <2>1 DEF ExistsBijection, Bijection, Injection, IsInjective, Surjection
  <2>3. IsFiniteSet(1..n) /\ Cardinality(1..n) = n
    <3>1. n \in Int /\ n \in Nat
      BY <1>1
    <3>2. IsFiniteSet(1..n) /\ Cardinality(1..n) = IF 1 > n THEN 0 ELSE n - 1 + 1
      BY <3>1, FS_Interval
    <3> QED
      BY <3>1, <3>2
  <2>4. IsFiniteSet(T) /\ Cardinality(T) = n
    BY <2>2, <2>3, FS_Bijection
  <2> QED
    BY <2>4 DEF T
<1>3. ListRows(legs, save) = {row(i) : i \in 1..Len(legs)}
  BY <1>1 DEF ListRows
<1>4. ASSUME NEW i \in DOMAIN legs PROVE {q \in ListRows(legs, save) : q.sequence < i} = {row(j) : j \in 1..(i - 1)} /\ i - 1 \in 0..Len(legs)
  <2>1. i \in 1..Len(legs) /\ i - 1 \in 0..Len(legs) /\ \A j \in 1..Len(legs) : j < i <=> j \in 1..(i - 1)
    BY <1>1
  <2>2. \A j \in 1..(i - 1) : j \in 1..Len(legs)
    BY <1>1, <2>1
  <2>3. \A j : row(j).sequence = j
    OBVIOUS
  <2> HIDE DEF row
  <2> QED
    BY <2>1, <2>2, <2>3, <1>3
<1>5. {r.sequence : r \in ListRows(legs, save)} = 1..Len(legs)
  <2>1. \A j : row(j).sequence = j
    OBVIOUS
  <2> HIDE DEF row
  <2>2. \A r \in ListRows(legs, save) : r.sequence \in 1..Len(legs)
    BY <2>1, <1>3
  <2>3. \A i \in 1..Len(legs) : \E r \in ListRows(legs, save) : r.sequence = i
    BY <2>1, <1>3
  <2> QED
    BY <2>2, <2>3
<1>6. ListRows(legs, save) # {}
  BY <1>1 DEF ListRows
<1>7. IsFiniteSet(ListRows(legs, save)) /\ Cardinality(ListRows(legs, save)) = Len(legs)
  <2>1. Len(legs) \in 0..Len(legs)
    BY <1>1
  <2> QED
    BY <2>1, <1>2, <1>3
<1>8. ASSUME NEW i \in DOMAIN legs PROVE Cardinality({q \in ListRows(legs, save) : q.sequence < i}) = i - 1
  <2>1. i - 1 \in 0..Len(legs)
    BY <1>4
  <2>2. Cardinality({row(j) : j \in 1..(i - 1)}) = i - 1
    BY <2>1, <1>2
  <2> QED
    BY <2>2, <1>4
<1> QED
  BY <1>5, <1>6, <1>7, <1>8

\* A list that was stored whole is read back as it was.
LEMMA StoredIsRead ==
  ASSUME NEW legs \in LegLists, NEW save \in Nat, legRows = ListRows(legs, save) PROVE StoredLegs = legs
<1>1. Len(legs) \in Nat /\ DOMAIN legs = 1..Len(legs) /\ \A i \in DOMAIN legs : legs[i] = Leg(legs[i].from, legs[i].to)
  BY LegsOfList
<1>2. Cardinality(legRows) = Len(legs)
  BY RowsOfList
<1>3. ASSUME NEW i \in 1..Len(legs) PROVE StoredLegs[i] = legs[i]
  <2> DEFINE P(r) == Cardinality({q \in legRows : Before(q, r)}) = i - 1
             row == [sequence |-> i, from |-> legs[i].from, to |-> legs[i].to, save |-> save]
  <2>1. ASSUME NEW r \in legRows PROVE r.sequence \in DOMAIN legs /\ Cardinality({q \in legRows : Before(q, r)}) = r.sequence - 1
    <3>1. r.sequence \in DOMAIN legs /\ \A q \in legRows : q.save = r.save /\ q.sequence \in Nat /\ r.save \in Nat
      BY <1>1, <2>1 DEF ListRows
    <3>2. {q \in legRows : Before(q, r)} = {q \in legRows : q.sequence < r.sequence}
      BY <3>1 DEF Before
    <3>3. \A j \in DOMAIN legs : Cardinality({q \in legRows : q.sequence < j}) = j - 1
      BY RowsOfList
    <3> QED
      BY <3>1, <3>2, <3>3
  <2>2. row \in legRows /\ row.sequence = i
    BY <1>1 DEF ListRows
  <2>3. P(row)
    BY <2>1, <2>2
  <2>4. \A r \in legRows : P(r) => r.sequence = i
    BY <2>1, <1>1
  <2>5. \A r \in legRows : r.sequence = i => r.from = legs[i].from /\ r.to = legs[i].to
    BY DEF ListRows
  <2>6. StoredLegs[i] = LET r == CHOOSE r \in legRows : P(r) IN Leg(r.from, r.to)
    BY <1>2 DEF StoredLegs
  <2> HIDE DEF P, row
  <2>7. \E r \in legRows : P(r)
    BY <2>2, <2>3
  <2>8. (CHOOSE r \in legRows : P(r)) \in legRows /\ P(CHOOSE r \in legRows : P(r))
    BY <2>7
  <2>9. StoredLegs[i] = Leg(legs[i].from, legs[i].to)
    BY <2>4, <2>5, <2>6, <2>8
  <2> QED
    BY <2>9, <1>1
<1>4. StoredLegs = [i \in 1..Len(legs) |-> StoredLegs[i]] /\ legs = [i \in 1..Len(legs) |-> legs[i]]
  <2>1. DOMAIN StoredLegs = 1..Len(legs) /\ StoredLegs = [i \in DOMAIN StoredLegs |-> StoredLegs[i]]
    BY <1>2 DEF StoredLegs
  <2>2. legs \in Seq([from : Ends, to : Ends])
    BY DEF LegLists
  <2>3. legs = [i \in 1..Len(legs) |-> legs[i]]
    BY <2>2
  <2> QED
    BY <2>1, <2>3
<1> QED
  BY <1>3, <1>4

\* Rows as they are stored.
RowTypes == [sequence : 1..MaxLegs, from : Ends, to : Ends, save : Nat]

\* Rows of crossing saves are read in some order.
LEMMA StoredAreLegs ==
  ASSUME IsFiniteSet(legRows), legRows # {}, legRows \subseteq RowTypes,
         \A r, q \in legRows : r.sequence = q.sequence /\ r.save = q.save => r = q
  PROVE  StoredLegs \in LegLists
<1> DEFINE n == Cardinality(legRows)  below == [r \in legRows |-> {q \in legRows : Before(q, r)}]
<1>1. n \in Nat /\ n >= 1
  <2>1. n \in Nat /\ n # 0
    BY FS_CardinalityType, FS_EmptySet
  <2> QED
    BY <2>1
<1>2. \A r \in legRows : r.sequence \in Nat /\ r.save \in Nat /\ r.from \in Ends /\ r.to \in Ends
  BY LeadDeskConstants DEF RowTypes
<1>3. \A k \in 1..n : \E r \in legRows : Cardinality(below[r]) = k - 1
  <2>1. below \in [legRows -> SUBSET legRows]
    OBVIOUS
  <2>2. \A x \in legRows : x \notin below[x]
    BY <1>2 DEF Before
  <2>3. \A x, y \in legRows : x # y => x \in below[y] \/ y \in below[x]
    BY <1>2 DEF Before
  <2>4. \A x, y, z \in legRows : Before(z, x) /\ Before(x, y) => Before(z, y)
    BY <1>2 DEF Before
  <2>5. \A x, y \in legRows : x \in below[y] => below[x] \subseteq below[y]
    BY <2>4
  <2> HIDE DEF below
  <2> QED
    BY <2>1, <2>2, <2>3, <2>5, RanksAreTaken
<1>4. ASSUME NEW k \in 1..n PROVE StoredLegs[k] \in [from : Ends, to : Ends]
  <2> DEFINE P(r) == Cardinality({q \in legRows : Before(q, r)}) = k - 1
  <2>1. \E r \in legRows : P(r)
    BY <1>3
  <2>2. StoredLegs[k] = LET r == CHOOSE r \in legRows : P(r) IN Leg(r.from, r.to)
    BY DEF StoredLegs
  <2> HIDE DEF P
  <2>3. (CHOOSE r \in legRows : P(r)) \in legRows
    BY <2>1
  <2> QED
    BY <2>2, <2>3, <1>2 DEF Leg
<1>5. StoredLegs \in [1..n -> [from : Ends, to : Ends]]
  <2>1. DOMAIN StoredLegs = 1..n /\ StoredLegs = [k \in DOMAIN StoredLegs |-> StoredLegs[k]]
    BY DEF StoredLegs
  <2> QED
    BY <2>1, <1>4
<1>6. StoredLegs \in Seq([from : Ends, to : Ends]) /\ Len(StoredLegs) = n
  <2> DEFINE E == [from : Ends, to : Ends]
  <2> HIDE DEF n, E
  <2>1. \A s, m : m \in Nat /\ s \in [1..m -> E] => s \in Seq(E) /\ Len(s) = m
    OBVIOUS
  <2>2. StoredLegs \in Seq(E) /\ Len(StoredLegs) = n
    BY <2>1, <1>1, <1>5 DEF E
  <2> QED
    BY <2>2 DEF E
<1> QED
  BY <1>1, <1>6 DEF LegLists

-----------------------------------------------------------------------------
(* The page of a lead: its inductive invariant *)

\* The lead, an editor, and a status write under way.
LeadTypes == [status : DeskStatuses, owner : DeskTabs \cup {NoTab}, trip : TripTypes, from : Ends, to : Ends, back : BOOLEAN]
EditorTypes == [legs : LegLists, saved : LegLists]
Writing == [step : {"writes"}, to : DeskStatuses, tries : Nat, from : DeskStatuses, outdated : BOOLEAN]

\* An agent's write is outdated, or it still replaces the unbooked status it read.
StatusCallStands(t, served, status) ==
  \/ served = NoStatusCall
  \/ served.step = "reads" /\ served.to \in DeskStatuses /\ served.tries \in Nat
  \/ served \in Writing /\ (DeskRole[t] = "agent" /\ ~served.outdated => served.from = status /\ status # "BOOKED")

\* A request that moves an owned lead is a manager's.
MoveStands(m) ==
  /\ m \in [by : DeskTabs, how : {"reassign", "unassign", "accept", "advance", "send"},
            to : DeskTabs \cup {NoTab}, owner : DeskTabs \cup {NoTab}, from : DeskStatuses]
  /\ m.how = "reassign" => DeskRole[m.by] = "manager" \/ m.owner = NoTab
  /\ m.how = "accept" => m.to \in DeskTabs

\* The lead, the calls under way, and that no agent took it away from BOOKED.
StatusStands ==
  /\ lead \in LeadTypes
  /\ DOMAIN statusCall = DeskTabs /\ statusCall = [t \in DeskTabs |-> statusCall[t]]
  /\ \A t \in DeskTabs : StatusCallStands(t, statusCall[t], lead.status)
  /\ \A m \in moving : MoveStands(m)
  /\ BookedStaysBooked /\ SelectionsLogTheTruth

\* No two rows of one save have one place.
RowsAreTyped ==
  /\ IsFiniteSet(legRows) /\ legRows \subseteq RowTypes
  /\ \A r, q \in legRows : r.sequence = q.sequence /\ r.save = q.save => r = q

\* No two saves ever share their number.
RowsStand ==
  /\ RowsAreTyped
  /\ deskMoves \in Nat
  /\ \A r \in legRows : r.save < deskMoves
  /\ legsCall = [t \in DeskTabs |-> legsCall[t]]
  /\ \A t \in DeskTabs : legsCall[t] # NoLegsCall =>
       /\ legsCall[t].step \in {"deletes", "commits"}
       /\ legsCall[t].legs \in LegLists /\ Len(legsCall[t].legs) <= MaxLegs
       /\ legsCall[t].save \in Nat /\ legsCall[t].save < deskMoves
       /\ \A r \in legRows : r.save # legsCall[t].save
       /\ \A u \in DeskTabs : u # t /\ legsCall[u] # NoLegsCall => legsCall[u].save # legsCall[t].save

\* Every tab edits a list.
EditorsStand == editor \in [DeskTabs -> EditorTypes]

\* Until two lists cross, the rows are one list, the one every commit under way will
\* replace and the last saver knows.
ListsStand ==
  ~crossedLegs =>
    /\ \A t \in DeskTabs : legsCall[t].step = "commits" => legsCall[t].sees = legRows
    /\ legRows # {} => \E legs \in LegLists, save \in Nat :
         legRows = ListRows(legs, save) /\ (~rerouted => Leg(lead.from, lead.to) = legs[1] /\ ~lead.back)
    /\ \A t \in DeskTabs : lastSaver = t => \E save \in Nat : legRows = ListRows(editor[t].saved, save)

\* The invariant behind the lead's page.
DeskListsInv == StatusStands /\ RowsStand /\ EditorsStand /\ ListsStand

\* What an editor starts from is a list of legs.
LEMMA SeedsAreLegs == RowsAreTyped /\ lead \in LeadTypes => SeededLegs \in LegLists
<1> SUFFICES ASSUME RowsAreTyped, lead \in LeadTypes PROVE SeededLegs \in LegLists
  OBVIOUS
<1>1. CASE legRows # {}
  <2>1. StoredLegs \in LegLists
    BY <1>1, StoredAreLegs DEF RowsAreTyped
  <2> QED
    BY <2>1, <1>1 DEF SeededLegs
<1>2. CASE legRows = {}
  <2> DEFINE E == [from : Ends, to : Ends]
  <2>1. Leg(lead.from, lead.to) \in E /\ Leg(lead.to, lead.from) \in E
    BY DEF LeadTypes, Leg
  <2> HIDE DEF E
  <2>2. \A a, b \in E : <<a>> \o <<b>> \in Seq(E) /\ Len(<<a>> \o <<b>>) = 2 /\ <<a>> \o <<>> \in Seq(E) /\ Len(<<a>> \o <<>>) = 1
    OBVIOUS
  <2>3. SeededLegs \in Seq(E) /\ Len(SeededLegs) >= 1
    BY <1>2, <2>1, <2>2 DEF SeededLegs
  <2> QED
    BY <2>3 DEF LegLists, E
<1> QED
  BY <1>1, <1>2

\* As StoredIsRead, of an editor that appears.
LEMMA SeedsAreSaved == \A legs \in LegLists, save \in Nat : legRows = ListRows(legs, save) => SeededLegs = legs
<1> SUFFICES ASSUME NEW legs \in LegLists, NEW save \in Nat, legRows = ListRows(legs, save) PROVE SeededLegs = legs
  OBVIOUS
<1>1. legRows # {} /\ StoredLegs = legs
  BY RowsOfList, StoredIsRead
<1> QED
  BY <1>1 DEF SeededLegs

\* The page as it is opened, and every move on it.
LEMMA DeskListsStart == LeadDeskInit => DeskListsInv
<1> SUFFICES ASSUME LeadDeskInit PROVE DeskListsInv
  OBVIOUS
<1> USE DEF LeadDeskInit
<1>1. lead \in LeadTypes
  BY DEF LeadTypes, Ends
<1>2. StatusStands
  BY <1>1 DEF StatusStands, StatusCallStands, BookedStaysBooked, SelectionsLogTheTruth
<1>3. RowsAreTyped
  BY FS_EmptySet DEF RowsAreTyped
<1>4. RowsStand
  BY <1>3 DEF RowsStand
<1>5. EditorsStand
  <2>1. SeededLegs \in LegLists
    BY <1>1, <1>3, SeedsAreLegs
  <2> QED
    BY <2>1 DEF EditorsStand, EditorTypes, Opened
<1>6. ListsStand
  BY LeadDeskConstants DEF ListsStand, NoLegsCall
<1> QED
  BY <1>2, <1>4, <1>5, <1>6 DEF DeskListsInv

\* Frames: what a step that leaves a part alone keeps of it.
LEMMA StatusKept ==
  ASSUME StatusStands, UNCHANGED <<lead, statusCall, moving, unbooked, misread>> PROVE StatusStands'
BY DEF StatusStands, StatusCallStands, MoveStands, BookedStaysBooked, SelectionsLogTheTruth

\* What is remembered of the statuses stays.
LEMMA HistoryKept == ASSUME StatusStands, UNCHANGED <<unbooked, misread>> PROVE BookedStaysBooked' /\ SelectionsLogTheTruth'
BY DEF StatusStands, BookedStaysBooked, SelectionsLogTheTruth

\* A status written makes the writes that read another one outdated.
LEMMA StatusOutdated ==
  ASSUME StatusStands, lead' \in LeadTypes, BookedStaysBooked', SelectionsLogTheTruth', moving' \subseteq moving,
         statusCall' = Outdated \/ \E t \in DeskTabs : statusCall' = [Outdated EXCEPT ![t] = NoStatusCall]
  PROVE  StatusStands'
<1>1. Outdated = [t \in DeskTabs |-> Outdated[t]]
  BY DEF Outdated
<1>2. \A t \in DeskTabs : StatusCallStands(t, Outdated[t], lead'.status)
  <2> TAKE t \in DeskTabs
  <2>1. CASE statusCall[t] = NoStatusCall
    BY <2>1 DEF Outdated, NoStatusCall, StatusCallStands
  <2>2. CASE statusCall[t].step = "reads" /\ statusCall[t].to \in DeskStatuses /\ statusCall[t].tries \in Nat
    BY <2>2 DEF Outdated, StatusCallStands
  <2>3. CASE statusCall[t] \in Writing
    <3>1. Outdated[t] = [statusCall[t] EXCEPT !.outdated = TRUE]
      BY <2>3 DEF Outdated, Writing
    <3>2. Outdated[t] \in Writing /\ Outdated[t].outdated
      BY <2>3, <3>1 DEF Writing
    <3> QED
      BY <3>2 DEF StatusCallStands
  <2> QED
    BY <2>1, <2>2, <2>3 DEF StatusStands, StatusCallStands
<1>3. statusCall' = [t \in DeskTabs |-> statusCall'[t]] /\ DOMAIN statusCall' = DeskTabs
  BY <1>1
<1>4. \A t \in DeskTabs : StatusCallStands(t, statusCall'[t], lead'.status)
  <2>1. CASE statusCall' = Outdated
    BY <2>1, <1>2
  <2>2. CASE \E t \in DeskTabs : statusCall' = [Outdated EXCEPT ![t] = NoStatusCall]
    <3> PICK t \in DeskTabs : statusCall' = [Outdated EXCEPT ![t] = NoStatusCall]
      BY <2>2
    <3>1. \A u \in DeskTabs : statusCall'[u] = IF u = t THEN NoStatusCall ELSE Outdated[u]
      BY <1>1
    <3>2. StatusCallStands(t, NoStatusCall, lead'.status)
      BY DEF StatusCallStands
    <3> QED
      BY <3>1, <3>2, <1>2
  <2> QED
    BY <2>1, <2>2
<1>5. \A m \in moving' : MoveStands(m)'
  BY DEF StatusStands, MoveStands
<1> QED
  BY <1>3, <1>4, <1>5 DEF StatusStands

\* One tab's call changes.
LEMMA StatusCallMoves ==
  ASSUME StatusStands, UNCHANGED <<lead, moving, unbooked, misread>>, NEW t \in DeskTabs, NEW served,
         statusCall' = [statusCall EXCEPT ![t] = served], StatusCallStands(t, served, lead.status)
  PROVE  StatusStands'
<1>1. statusCall' = [u \in DeskTabs |-> statusCall'[u]] /\ DOMAIN statusCall' = DeskTabs
  BY DEF StatusStands
<1>2. \A u \in DeskTabs : statusCall'[u] = IF u = t THEN served ELSE statusCall[u]
  BY DEF StatusStands
<1>3. \A u \in DeskTabs : StatusCallStands(u, statusCall'[u], lead.status)
  BY <1>2 DEF StatusStands
<1>4. (\A m \in moving' : MoveStands(m)') /\ BookedStaysBooked' /\ SelectionsLogTheTruth'
  BY DEF StatusStands, MoveStands, BookedStaysBooked, SelectionsLogTheTruth
<1> QED
  BY <1>1, <1>3, <1>4 DEF StatusStands

\* Moves that leave the rows alone.
LEMMA RowsKept ==
  ASSUME RowsStand, UNCHANGED <<legRows, legsCall>>, deskMoves' = deskMoves \/ MovesAtDesk PROVE RowsStand'
<1>1. deskMoves' \in Nat /\ \A n \in Nat : n < deskMoves => n < deskMoves'
  BY DEF RowsStand, MovesAtDesk
<1>2. \A r \in legRows : r.save \in Nat
  BY DEF RowsStand, RowsAreTyped, RowTypes
<1> QED
  BY <1>1, <1>2 DEF RowsStand, RowsAreTyped

\* Neither the rows nor who knows them change; the route does, or is marked as edited.
LEMMA ListsKept ==
  ASSUME ListsStand, UNCHANGED <<legRows, legsCall, crossedLegs, lastSaver>>,
         legRows = {} \/ rerouted' \/ ((rerouted => rerouted') /\ UNCHANGED <<lead.from, lead.to, lead.back>>),
         \A t \in DeskTabs : ~crossedLegs /\ lastSaver = t => editor'[t].saved = editor[t].saved
  PROVE  ListsStand'
<1> SUFFICES ASSUME ~crossedLegs
             PROVE  /\ \A t \in DeskTabs : legsCall[t].step = "commits" => legsCall[t].sees = legRows
                    /\ legRows # {} => \E legs \in LegLists, save \in Nat :
                         legRows = ListRows(legs, save) /\ (~rerouted' => Leg(lead'.from, lead'.to) = legs[1] /\ ~lead'.back)
                    /\ \A t \in DeskTabs : lastSaver = t => \E save \in Nat : legRows = ListRows(editor'[t].saved, save)
  BY DEF ListsStand, ListRows
<1>1. \A t \in DeskTabs : legsCall[t].step = "commits" => legsCall[t].sees = legRows
  BY DEF ListsStand
<1>2. ASSUME legRows # {}
      PROVE  \E legs \in LegLists, save \in Nat :
               legRows = ListRows(legs, save) /\ (~rerouted' => Leg(lead'.from, lead'.to) = legs[1] /\ ~lead'.back)
  <2> PICK legs \in LegLists, save \in Nat : legRows = ListRows(legs, save) /\ (~rerouted => Leg(lead.from, lead.to) = legs[1] /\ ~lead.back)
    BY <1>2 DEF ListsStand
  <2> QED
    BY <1>2 DEF Leg
<1>3. \A t \in DeskTabs : lastSaver = t => \E save \in Nat : legRows = ListRows(editor'[t].saved, save)
  BY DEF ListsStand
<1> QED
  BY <1>1, <1>2, <1>3

\* A page rendered again gives the last saver's editor what it knew.
LEMMA RerendersKeeps ==
  ASSUME DeskListsInv, NEW t \in DeskTabs, lead' \in LeadTypes, UNCHANGED legRows,
         editor' = editor \/ (\E legs : editor' = [editor EXCEPT ![t] = legs] /\ legs \in {editor[t], Opened'})
  PROVE  EditorsStand' /\ \A u \in DeskTabs : ~crossedLegs /\ lastSaver = u => editor'[u].saved = editor[u].saved
<1>1. SeededLegs' \in LegLists
  <2>1. RowsAreTyped' /\ lead' \in LeadTypes
    BY DEF DeskListsInv, RowsStand, RowsAreTyped
  <2>2. (RowsAreTyped /\ lead \in LeadTypes => SeededLegs \in LegLists)'
    BY SeedsAreLegs, PTL
  <2> QED
    BY <2>1, <2>2 DEF LegLists
<1>2. \A legs \in LegLists, save \in Nat : legRows = ListRows(legs, save) => SeededLegs' = legs
  <2>1. (\A legs \in LegLists, save \in Nat : legRows = ListRows(legs, save) => SeededLegs = legs)'
    BY SeedsAreSaved, PTL
  <2> QED
    BY <2>1 DEF ListRows
<1>3. editor \in [DeskTabs -> EditorTypes]
  BY DEF DeskListsInv, EditorsStand
<1>4. Opened'.legs = SeededLegs' /\ Opened'.saved = SeededLegs' /\ Opened' \in EditorTypes
  BY <1>1 DEF Opened, EditorTypes
<1>5. EditorsStand'
  BY <1>3, <1>4 DEF EditorsStand
<1>6. ASSUME NEW u \in DeskTabs, ~crossedLegs, lastSaver = u PROVE editor'[u].saved = editor[u].saved
  <2> PICK save \in Nat : legRows = ListRows(editor[u].saved, save)
    BY <1>6 DEF DeskListsInv, ListsStand
  <2>1. editor[u].saved \in LegLists
    BY <1>3 DEF EditorTypes
  <2>2. SeededLegs' = editor[u].saved
    BY <1>2, <2>1
  <2> QED
    BY <2>2, <1>3, <1>4
<1> QED
  BY <1>5, <1>6


\* What somebody else than an agent takes down or writes does not count; nor does what an
\* agent takes down in one of the ways that are left to agents.
LEMMA OthersUnbook ==
  ASSUME StatusStands, NEW role, NEW way, NEW to, NEW from, Unbooks(role, way, to), Logs(role, way, from),
         role # "agent" \/ way \in {"claim", "accept", "send"}
  PROVE  BookedStaysBooked' /\ SelectionsLogTheTruth'
<1>1. \A u \in unbooked' : u \in unbooked \/ (u[1] = role /\ u[2] = way)
  BY DEF Unbooks
<1>2. \A u \in misread' : u \in misread \/ (u[1] = role /\ u[2] = way)
  BY DEF Logs
<1>3. BookedStaysBooked'
  BY <1>1 DEF StatusStands, BookedStaysBooked
<1>4. SelectionsLogTheTruth'
  BY <1>2 DEF StatusStands, SelectionsLogTheTruth
<1> QED
  BY <1>3, <1>4

\* A step that only touches the pages: legRows and legsCall stay.
LEMMA WritesStatusHolds == ASSUME DeskListsInv, NEW t \in DeskTabs, WritesStatus(t) PROVE DeskListsInv'
<1> USE DEF DeskListsInv
<1> DEFINE served == statusCall[t]
<1>0. served.step = "writes" /\ UNCHANGED <<moving, legRows, legsCall, crossedLegs, rerouted, lastSaver, deskMoves>>
  BY DEF WritesStatus
<1>1. served \in Writing /\ (DeskRole[t] = "agent" /\ ~served.outdated => served.from = lead.status /\ lead.status # "BOOKED")
  BY <1>0 DEF StatusStands, StatusCallStands, NoStatusCall
<1>2. served.to \in DeskStatuses /\ served.tries \in Nat /\ served.tries + 1 \in Nat
  BY <1>1 DEF Writing
<1>3. RowsStand'
  BY <1>0, RowsKept
<1>4. lead' \in LeadTypes /\ UNCHANGED <<lead.from, lead.to, lead.back>>
  BY <1>2 DEF WritesStatus, StatusStands, LeadTypes
<1>5. EditorsStand' /\ \A u \in DeskTabs : ~crossedLegs /\ lastSaver = u => editor'[u].saved = editor[u].saved
  <2>1. editor' = editor \/ (\E legs : editor' = [editor EXCEPT ![t] = legs] /\ legs \in {editor[t], Opened'})
    BY DEF WritesStatus, Rerenders
  <2> QED
    BY <2>1, <1>0, <1>4, RerendersKeeps
<1>6. ListsStand'
  BY <1>0, <1>4, <1>5, ListsKept
<1>7. StatusStands'
  <2>1. CASE DeskRole[t] = "agent" /\ served.outdated
    <3> DEFINE next == IF served.tries < StatusAttempts THEN [step |-> "reads", to |-> served.to, tries |-> served.tries + 1] ELSE NoStatusCall
    <3>1. UNCHANGED <<lead, moving, unbooked, misread>> /\ statusCall' = [statusCall EXCEPT ![t] = next]
      BY <2>1 DEF WritesStatus
    <3>2. StatusCallStands(t, next, lead.status)
      BY <1>2 DEF StatusCallStands
    <3> HIDE DEF next
    <3> QED
      BY <3>1, <3>2, StatusCallMoves
  <2>2. CASE ~(DeskRole[t] = "agent" /\ served.outdated)
    <3>1. statusCall' = [Outdated EXCEPT ![t] = NoStatusCall]
      BY <2>2 DEF WritesStatus
    <3>2. Unbooks(DeskRole[t], "select", served.to) /\ Logs(DeskRole[t], "select", served.from)
      BY <2>2 DEF WritesStatus
    <3>3. BookedStaysBooked' /\ SelectionsLogTheTruth'
      <4>1. CASE DeskRole[t] = "agent"
        <5>1. served.from = lead.status /\ lead.status # "BOOKED"
          BY <4>1, <2>2, <1>1
        <5> QED
          BY <5>1, <3>2 DEF Unbooks, Logs, StatusStands, BookedStaysBooked, SelectionsLogTheTruth
      <4>2. CASE DeskRole[t] # "agent"
        BY <4>2, <3>2, OthersUnbook
      <4> QED
        BY <4>1, <4>2
    <3> QED
      BY <3>1, <3>3, <1>0, <1>4, StatusOutdated
  <2> QED
    BY <2>1, <2>2
<1> QED
  BY <1>3, <1>5, <1>6, <1>7

\* The requests of the other writers: a new one stands, and so do those that are left.
LEMMA RequestsHold ==
  ASSUME DeskListsInv, UNCHANGED <<lead, legRows, view, editor, statusCall, legsCall, leadHistory>>,
         deskMoves' = deskMoves \/ MovesAtDesk, \A m \in moving' : m \in moving \/ MoveStands(m)
  PROVE  DeskListsInv'
<1> USE DEF DeskListsInv
<1>1. \A m \in moving' : MoveStands(m)
  BY DEF StatusStands
<1>2. StatusStands'
  <2>1. (\A m \in moving' : MoveStands(m)') /\ BookedStaysBooked' /\ SelectionsLogTheTruth'
    BY <1>1 DEF leadHistory, StatusStands, MoveStands, BookedStaysBooked, SelectionsLogTheTruth
  <2> QED
    BY <2>1 DEF StatusStands, StatusCallStands
<1>3. RowsStand' /\ EditorsStand'
  BY RowsKept DEF EditorsStand
<1>4. ListsStand'
  BY ListsKept DEF leadHistory
<1> QED
  BY <1>2, <1>3, <1>4

LEMMA BeginningsHold ==
  ASSUME DeskListsInv, NEW t \in DeskTabs,
         BeginUnassign(t) \/ BeginAccept(t) \/ BeginAdvance(t) \/ \E to \in DeskTabs : BeginReassign(t, to)
  PROVE  DeskListsInv'
<1>1. lead.owner \in DeskTabs \cup {NoTab} /\ lead.status \in DeskStatuses
  BY DEF DeskListsInv, StatusStands, LeadTypes
<1>2. ASSUME NEW how \in {"reassign", "unassign", "accept", "advance", "send"}, NEW to \in DeskTabs \cup {NoTab}, Begins(t, how, to),
             how = "reassign" => MayMove(t), how = "accept" => to \in DeskTabs
      PROVE  DeskListsInv'
  <2>1. MoveStands(Request(t, how, to))
    BY <1>1, <1>2 DEF MoveStands, Request, MayMove
  <2>2. \A m \in moving' : m \in moving \/ MoveStands(m)
    BY <2>1, <1>2 DEF Begins
  <2> QED
    BY <2>2, <1>2, RequestsHold DEF Begins
<1> QED
  BY <1>2 DEF BeginUnassign, BeginAccept, BeginAdvance, BeginReassign

LEMMA HandsOverHolds == ASSUME DeskListsInv, NEW m \in moving, HandsOver(m) PROVE DeskListsInv'
<1> USE DEF DeskListsInv
<1> DEFINE s == Granted[m.how]  o == IF Claims(m) THEN m.to ELSE lead.owner
           way == IF m.how = "reassign" /\ lead.owner = NoTab THEN "claim" ELSE m.how
<1>1. /\ lead' = [lead EXCEPT !.status = s, !.owner = o] /\ moving' = moving \ {m} /\ statusCall' = Outdated
      /\ UNCHANGED <<legRows, legsCall, crossedLegs, rerouted, lastSaver, deskMoves>>
      /\ Unbooks(DeskRole[m.by], way, s) /\ Logs(DeskRole[m.by], way, m.from)
  BY DEF HandsOver
<1>2. MoveStands(m) /\ m.how \in {"reassign", "accept", "send"} /\ (Claims(m) => lead.owner = m.owner)
  BY DEF HandsOver, StatusStands
<1>3. s \in DeskStatuses
  BY <1>2, LeadDeskConstants DEF Granted
<1>4. o \in DeskTabs \cup {NoTab}
  BY <1>2 DEF MoveStands, StatusStands, LeadTypes
<1>5. DeskRole[m.by] # "agent" \/ way \in {"claim", "accept", "send"}
  BY <1>2 DEF MoveStands, Claims
<1> HIDE DEF s, o, way
<1>6. lead' \in LeadTypes /\ UNCHANGED <<lead.from, lead.to, lead.back>>
  BY <1>1, <1>3, <1>4 DEF StatusStands, LeadTypes
<1>7. StatusStands'
  <2>1. BookedStaysBooked' /\ SelectionsLogTheTruth'
    BY <1>1, <1>5, OthersUnbook
  <2> QED
    BY <2>1, <1>1, <1>6, StatusOutdated
<1>8. RowsStand'
  BY <1>1, RowsKept
<1>9. EditorsStand' /\ \A u \in DeskTabs : ~crossedLegs /\ lastSaver = u => editor'[u].saved = editor[u].saved
  <2>1. m.by \in DeskTabs
    BY <1>2 DEF MoveStands
  <2>2. editor' = editor \/ (\E legs : editor' = [editor EXCEPT ![m.by] = legs] /\ legs \in {editor[m.by], Opened'})
    BY DEF HandsOver, Rerenders
  <2> QED
    BY <2>1, <2>2, <1>1, <1>6, RerendersKeeps
<1>10. ListsStand'
  BY <1>1, <1>6, <1>9, ListsKept
<1> QED
  BY <1>7, <1>8, <1>9, <1>10

LEMMA UnassignsHolds == ASSUME DeskListsInv, NEW m \in moving, Unassigns(m) PROVE DeskListsInv'
<1> USE DEF DeskListsInv
<1>1. /\ lead' = [lead EXCEPT !.owner = NoTab] /\ moving' = moving \ {m} /\ statusCall' = Outdated
      /\ UNCHANGED <<legRows, legsCall, leadHistory, deskMoves>>
  BY DEF Unassigns
<1>2. lead' \in LeadTypes /\ UNCHANGED <<lead.from, lead.to, lead.back>>
  BY <1>1 DEF StatusStands, LeadTypes
<1>3. StatusStands'
  <2>1. BookedStaysBooked' /\ SelectionsLogTheTruth'
    BY <1>1 DEF leadHistory, StatusStands, BookedStaysBooked, SelectionsLogTheTruth
  <2> QED
    BY <2>1, <1>1, <1>2, StatusOutdated
<1>4. RowsStand'
  BY <1>1, RowsKept
<1>5. EditorsStand' /\ \A u \in DeskTabs : ~crossedLegs /\ lastSaver = u => editor'[u].saved = editor[u].saved
  <2>1. m.by \in DeskTabs
    BY DEF StatusStands, MoveStands
  <2>2. editor' = editor \/ (\E legs : editor' = [editor EXCEPT ![m.by] = legs] /\ legs \in {editor[m.by], Opened'})
    BY DEF Unassigns, Rerenders
  <2> QED
    BY <2>1, <2>2, <1>1, <1>2, RerendersKeeps
<1>6. ListsStand'
  BY <1>1, <1>2, <1>5, ListsKept DEF leadHistory
<1> QED
  BY <1>3, <1>4, <1>5, <1>6

LEMMA MovingHolds ==
  ASSUME DeskListsInv, NEW m \in moving, ReadsAgain(m) \/ HandsOver(m) \/ MoveIsLate(m) \/ Unassigns(m) PROVE DeskListsInv'
<1>1. CASE ReadsAgain(m)
  <2>1. MoveStands(Request(m.by, "send", NoTab))
    BY DEF DeskListsInv, StatusStands, LeadTypes, MoveStands, Request
  <2>2. \A n \in moving' : n \in moving \/ MoveStands(n)
    BY <2>1, <1>1 DEF ReadsAgain
  <2> QED
    BY <2>2, <1>1, RequestsHold DEF ReadsAgain
<1>2. CASE MoveIsLate(m)
  BY <1>2, RequestsHold DEF MoveIsLate
<1> QED
  BY <1>1, <1>2, HandsOverHolds, UnassignsHolds

LEMMA StatusMovesHold == ASSUME DeskListsInv, StatusNext PROVE DeskListsInv'
<1> USE DEF DeskListsInv
<1>1. CASE CustomerBooks
  <2>1. UNCHANGED <<legRows, view, editor, moving, legsCall, leadHistory>> /\ statusCall' = Outdated
    BY <1>1 DEF CustomerBooks
  <2>2. lead' \in LeadTypes /\ UNCHANGED <<lead.from, lead.to, lead.back>>
    BY <1>1, LeadDeskConstants DEF CustomerBooks, StatusStands, LeadTypes
  <2>3. StatusStands'
    <3>1. BookedStaysBooked' /\ SelectionsLogTheTruth'
      BY <2>1 DEF leadHistory, StatusStands, BookedStaysBooked, SelectionsLogTheTruth
    <3> QED
      BY <2>1, <2>2, <3>1, StatusOutdated
  <2>4. RowsStand'
    BY <1>1, <2>1, RowsKept DEF CustomerBooks
  <2>5. EditorsStand'
    BY <2>1 DEF EditorsStand
  <2>6. ListsStand'
    BY <2>1, <2>2, ListsKept DEF leadHistory
  <2> QED
    BY <2>3, <2>4, <2>5, <2>6
<1>2. ASSUME NEW t \in DeskTabs, ReadsStatus(t) PROVE DeskListsInv'
  <2> DEFINE served == statusCall[t]
             next == IF DeskRole[t] = "agent" /\ lead.status = "BOOKED" THEN NoStatusCall
                     ELSE [step |-> "writes", to |-> served.to, tries |-> served.tries, from |-> lead.status, outdated |-> FALSE]
  <2>1. served.step = "reads" /\ statusCall' = [statusCall EXCEPT ![t] = next]
        /\ UNCHANGED <<lead, legRows, view, editor, moving, legsCall, leadHistory, deskMoves>>
    BY <1>2 DEF ReadsStatus
  <2>2. served.to \in DeskStatuses /\ served.tries \in Nat
    BY <2>1 DEF StatusStands, StatusCallStands, NoStatusCall, Writing
  <2>3. StatusCallStands(t, next, lead.status)
    BY <2>2 DEF StatusCallStands, Writing, StatusStands, LeadTypes
  <2> HIDE DEF next
  <2>4. StatusStands'
    BY <2>1, <2>3, StatusCallMoves DEF leadHistory
  <2>5. RowsStand' /\ EditorsStand'
    BY <2>1, RowsKept DEF EditorsStand
  <2>6. ListsStand'
    BY <2>1, ListsKept DEF leadHistory
  <2> QED
    BY <2>4, <2>5, <2>6
<1>3. ASSUME NEW t \in DeskTabs, NEW s \in DeskStatuses, SelectStatus(t, s) PROVE DeskListsInv'
  <2> DEFINE next == [step |-> "reads", to |-> s, tries |-> 1]
  <2>1. statusCall' = [statusCall EXCEPT ![t] = next] /\ MovesAtDesk
        /\ UNCHANGED <<lead, legRows, view, editor, moving, legsCall, leadHistory>>
    BY <1>3 DEF SelectStatus
  <2>2. StatusCallStands(t, next, lead.status)
    BY DEF StatusCallStands
  <2> HIDE DEF next
  <2>3. StatusStands'
    BY <2>1, <2>2, StatusCallMoves DEF leadHistory
  <2>4. RowsStand' /\ EditorsStand'
    BY <2>1, RowsKept DEF EditorsStand
  <2>5. ListsStand'
    BY <2>1, ListsKept DEF leadHistory
  <2> QED
    BY <2>3, <2>4, <2>5
<1> QED
  BY <1>1, <1>2, <1>3, WritesStatusHolds, BeginningsHold, MovingHolds DEF StatusNext

\* The fields of the request: the route is edited behind the legs, or stays theirs.
LEMMA EditRequestHolds ==
  ASSUME DeskListsInv, NEW t \in DeskTabs, NEW request \in LeadTypes, EditRequest(t, request) PROVE DeskListsInv'
<1> USE DEF DeskListsInv
<1>1. /\ lead' = request /\ statusCall' = Outdated /\ MovesAtDesk
      /\ UNCHANGED <<moving, legRows, legsCall, unbooked, misread, crossedLegs, lastSaver>>
  BY DEF EditRequest
<1>2. StatusStands'
  BY <1>1, HistoryKept, StatusOutdated
<1>3. RowsStand'
  BY <1>1, RowsKept
<1>4. EditorsStand' /\ \A u \in DeskTabs : ~crossedLegs /\ lastSaver = u => editor'[u].saved = editor[u].saved
  <2>1. editor' = editor \/ (\E legs : editor' = [editor EXCEPT ![t] = legs] /\ legs \in {editor[t], Opened'})
    BY DEF EditRequest, Rerenders
  <2> QED
    BY <2>1, <1>1, RerendersKeeps
<1>5. ListsStand'
  <2>1. CASE legRows = {} \/ rerouted'
    BY <2>1, <1>1, <1>4, ListsKept
  <2>2. CASE ~(legRows = {} \/ rerouted')
    <3>1. ~rerouted /\ UNCHANGED <<lead.from, lead.to, lead.back>>
      BY <2>2, <1>1 DEF EditRequest
    <3> QED
      BY <3>1, <1>1, <1>4, ListsKept
  <2> QED
    BY <2>1, <2>2
<1> QED
  BY <1>2, <1>3, <1>4, <1>5

LEMMA RequestMovesHold == ASSUME DeskListsInv, RequestNext PROVE DeskListsInv'
<1> USE DEF DeskListsInv
<1>0. lead \in LeadTypes
  BY DEF StatusStands
<1>1. ASSUME NEW t \in DeskTabs, Reload(t) PROVE DeskListsInv'
  <2>1. MovesAtDesk /\ UNCHANGED <<lead, legRows, statusCall, moving, legsCall, leadHistory>> /\ editor' = [editor EXCEPT ![t] = Opened]
    BY <1>1 DEF Reload
  <2>2. Opened' = Opened
    BY <2>1 DEF Opened, SeededLegs, StoredLegs, Before
  <2>3. EditorsStand' /\ \A u \in DeskTabs : ~crossedLegs /\ lastSaver = u => editor'[u].saved = editor[u].saved
    BY <2>1, <2>2, <1>0, RerendersKeeps
  <2>4. StatusStands' /\ RowsStand'
    BY <2>1, StatusKept, RowsKept DEF leadHistory
  <2>5. ListsStand'
    BY <2>1, <2>3, ListsKept DEF leadHistory
  <2> QED
    BY <2>3, <2>4, <2>5
<1>2. ASSUME NEW t \in DeskTabs, EditReturn(t) PROVE DeskListsInv'
  <2>1. [lead EXCEPT !.back = ~@] \in LeadTypes
    BY <1>0 DEF LeadTypes
  <2> QED
    BY <1>2, <2>1, EditRequestHolds DEF EditReturn
<1>3. ASSUME NEW t \in DeskTabs, NEW trip \in TripTypes, EditTrip(t, trip) PROVE DeskListsInv'
  <2>1. [lead EXCEPT !.trip = trip] \in LeadTypes
    BY <1>0 DEF LeadTypes
  <2> QED
    BY <1>3, <2>1, EditRequestHolds DEF EditTrip
<1>4. ASSUME NEW t \in DeskTabs, NEW leg \in [from : Ends, to : Ends], EditRoute(t, leg) PROVE DeskListsInv'
  <2>1. [lead EXCEPT !.from = leg.from, !.to = leg.to] \in LeadTypes
    BY <1>0 DEF LeadTypes
  <2> QED
    BY <1>4, <2>1, EditRequestHolds DEF EditRoute
<1> QED
  BY <1>1, <1>2, <1>3, <1>4 DEF RequestNext


\* The legs.
LEMMA EditLegsHolds ==
  ASSUME DeskListsInv, NEW t \in DeskTabs, NEW legs \in LegLists, EditLegs(t, legs) PROVE DeskListsInv'
<1> USE DEF DeskListsInv
<1>1. MovesAtDesk /\ editor' = [editor EXCEPT ![t].legs = legs] /\ UNCHANGED <<lead, legRows, view, statusCall, moving, legsCall, leadHistory>>
  BY DEF EditLegs
<1>2. EditorsStand' /\ \A u \in DeskTabs : editor'[u].saved = editor[u].saved
  BY <1>1 DEF EditorsStand, EditorTypes
<1>3. StatusStands' /\ RowsStand'
  BY <1>1, StatusKept, RowsKept DEF leadHistory
<1>4. ListsStand'
  BY <1>1, <1>2, ListsKept DEF leadHistory
<1> QED
  BY <1>2, <1>3, <1>4

LEMMA LegEditsHold ==
  ASSUME DeskListsInv, NEW t \in DeskTabs,
         \/ AddLeg(t)
         \/ \E i \in DOMAIN editor[t].legs :
              RemoveLeg(t, i) \/ MoveLeg(t, i) \/ \E leg \in [from : Ends, to : Ends] : EditLeg(t, i, leg)
  PROVE  DeskListsInv'
<1> DEFINE legs == editor[t].legs  E == [from : Ends, to : Ends]
<1>1. legs \in Seq(E) /\ Len(legs) >= 1
  BY DEF DeskListsInv, EditorsStand, EditorTypes, LegLists
<1>2. \A s \in Seq(E) : Len(s) >= 1 /\ EditLegs(t, s) => DeskListsInv'
  BY EditLegsHolds DEF LegLists
<1>3. \A leg \in E : leg.to \in Ends
  OBVIOUS
<1>4. CASE AddLeg(t)
  <2>1. legs[Len(legs)] \in E
    <3> HIDE DEF legs, E
    <3> QED
      BY <1>1
  <2>2. Leg(Last(legs).to, NoPlace) \in E
    BY <2>1, <1>3 DEF Leg, Ends, Last
  <2> DEFINE new == Leg(Last(legs).to, NoPlace)
  <2>3. EditLegs(t, Append(legs, new))
    BY <1>4 DEF AddLeg
  <2> HIDE DEF legs, E, new
  <2>4. Append(legs, new) \in Seq(E) /\ Len(Append(legs, new)) >= 1
    BY <1>1, <2>2 DEF new
  <2> QED
    BY <2>3, <2>4, <1>2
<1>5. ASSUME NEW i \in DOMAIN legs, RemoveLeg(t, i) PROVE DeskListsInv'
  <2>1. EditLegs(t, RemoveAt(legs, i)) /\ Len(legs) > 1
    BY <1>5 DEF RemoveLeg
  <2> HIDE DEF legs, E
  <2>2. RemoveAt(legs, i) \in Seq(E) /\ Len(RemoveAt(legs, i)) = Len(legs) - 1
    BY <1>1, <1>5, RemovesOne
  <2>3. Len(RemoveAt(legs, i)) >= 1
    BY <2>1, <2>2, <1>1
  <2> QED
    BY <2>1, <2>2, <2>3, <1>2
<1>6. ASSUME NEW i \in DOMAIN legs, MoveLeg(t, i) PROVE DeskListsInv'
  <2> DEFINE new == [legs EXCEPT ![i] = legs[i + 1], ![i + 1] = legs[i]]
  <2>1. EditLegs(t, new) /\ i + 1 \in DOMAIN legs
    BY <1>6 DEF MoveLeg
  <2>2. new \in Seq(E) /\ Len(new) = Len(legs)
    <3> HIDE DEF legs, E
    <3> QED
      BY <1>1, <1>6, <2>1
  <2> HIDE DEF legs, E, new
  <2> QED
    BY <2>1, <2>2, <1>1, <1>2
<1>7. ASSUME NEW i \in DOMAIN legs, NEW leg \in E, EditLeg(t, i, leg) PROVE DeskListsInv'
  <2> DEFINE new == [legs EXCEPT ![i] = leg]
  <2>1. EditLegs(t, new)
    BY <1>7 DEF EditLeg, ReplaceAt
  <2>2. new \in Seq(E) /\ Len(new) = Len(legs)
    <3> HIDE DEF legs, E
    <3> QED
      BY <1>1, <1>7
  <2> HIDE DEF legs, E, new
  <2> QED
    BY <2>1, <2>2, <1>1, <1>2
<1> QED
  BY <1>4, <1>5, <1>6, <1>7

\* A save takes a number of its own.
LEMMA SavesHold == ASSUME DeskListsInv, NEW t \in DeskTabs, SaveLegs(t) PROVE DeskListsInv'
<1> USE DEF DeskListsInv
<1> DEFINE served == [step |-> "deletes", legs |-> editor[t].legs, save |-> deskMoves]
<1>1. /\ Len(editor[t].legs) <= MaxLegs /\ deskMoves' = deskMoves + 1 /\ legsCall[t] = NoLegsCall
      /\ legsCall' = [legsCall EXCEPT ![t] = served] /\ UNCHANGED <<lead, legRows, view, editor, statusCall, moving, leadHistory>>
  BY DEF SaveLegs, MovesAtDesk
<1>2. deskMoves \in Nat /\ deskMoves' \in Nat /\ deskMoves < deskMoves' /\ \A n \in Nat : n < deskMoves => n < deskMoves' /\ n # deskMoves
  BY <1>1 DEF RowsStand
<1>3. served.legs \in LegLists /\ served.step = "deletes" /\ served.save = deskMoves /\ served.legs = editor[t].legs
  BY DEF EditorsStand, EditorTypes
<1>4. legsCall' = [u \in DeskTabs |-> IF u = t THEN served ELSE legsCall[u]]
  BY <1>1 DEF RowsStand
<1>5. \A r \in legRows : r.save \in Nat
  BY DEF RowsStand, RowsAreTyped, RowTypes
<1> HIDE DEF served
<1>6. RowsAreTyped'
  BY <1>1 DEF RowsStand, RowsAreTyped
<1>7. \A r \in legRows' : r.save < deskMoves'
  BY <1>1, <1>2, <1>5 DEF RowsStand
<1>8. ASSUME NEW u \in DeskTabs, legsCall'[u] # NoLegsCall
      PROVE  /\ legsCall'[u].step \in {"deletes", "commits"}
             /\ legsCall'[u].legs \in LegLists /\ Len(legsCall'[u].legs) <= MaxLegs
             /\ legsCall'[u].save \in Nat /\ legsCall'[u].save < deskMoves'
             /\ \A r \in legRows' : r.save # legsCall'[u].save
             /\ \A w \in DeskTabs : w # u /\ legsCall'[w] # NoLegsCall => legsCall'[w].save # legsCall'[u].save
  <2>1. CASE u = t
    <3>1. legsCall'[u] = served
      BY <2>1, <1>4
    <3>2. \A w \in DeskTabs : w # t /\ legsCall'[w] # NoLegsCall => legsCall'[w].save # deskMoves
      BY <1>2, <1>4 DEF RowsStand
    <3>3. \A r \in legRows' : r.save # deskMoves
      BY <1>1, <1>2, <1>5 DEF RowsStand
    <3> QED
      BY <2>1, <3>1, <3>2, <3>3, <1>1, <1>2, <1>3
  <2>2. CASE u # t
    <3>1. legsCall'[u] = legsCall[u] /\ legsCall[u] # NoLegsCall
      BY <2>2, <1>4, <1>8
    <3>2. legsCall[u].save \in Nat /\ legsCall[u].save < deskMoves /\ legsCall[u].save # deskMoves /\ legsCall[u].save < deskMoves'
      BY <3>1, <1>2 DEF RowsStand
    <3>3. \A w \in DeskTabs : w # u /\ legsCall'[w] # NoLegsCall => legsCall'[w].save # legsCall'[u].save
      BY <3>1, <3>2, <1>3, <1>4 DEF RowsStand
    <3> QED
      BY <3>1, <3>2, <3>3, <1>1 DEF RowsStand
  <2> QED
    BY <2>1, <2>2
<1>9. RowsStand'
  BY <1>2, <1>4, <1>6, <1>7, <1>8 DEF RowsStand
<1>10. ListsStand'
  BY <1>1, <1>3, <1>4 DEF ListsStand, leadHistory, ListRows
<1>11. StatusStands' /\ EditorsStand'
  BY <1>1, StatusKept DEF leadHistory, EditorsStand
<1> QED
  BY <1>9, <1>10, <1>11

LEMMA DeletesHold == ASSUME DeskListsInv, NEW t \in DeskTabs, DeletesLegs(t) PROVE DeskListsInv'
<1> USE DEF DeskListsInv
<1> DEFINE served == [step |-> "commits", legs |-> legsCall[t].legs, save |-> legsCall[t].save, sees |-> legRows]
<1>1. /\ legsCall[t].step = "deletes" /\ legsCall' = [legsCall EXCEPT ![t] = served]
      /\ UNCHANGED <<lead, legRows, view, editor, statusCall, moving, leadHistory, deskMoves>>
  BY DEF DeletesLegs
<1>2. legsCall[t] # NoLegsCall
  BY <1>1 DEF NoLegsCall
<1>3. legsCall' = [u \in DeskTabs |-> IF u = t THEN served ELSE legsCall[u]]
  BY <1>1 DEF RowsStand
<1>4. served.step = "commits" /\ served.legs = legsCall[t].legs /\ served.save = legsCall[t].save /\ served.sees = legRows
  OBVIOUS
<1> HIDE DEF served
<1>5. \A u \in DeskTabs : legsCall'[u] # NoLegsCall =>
        /\ legsCall[u] # NoLegsCall /\ legsCall'[u].legs = legsCall[u].legs /\ legsCall'[u].save = legsCall[u].save
        /\ legsCall'[u].step \in {"commits", legsCall[u].step}
  BY <1>2, <1>3, <1>4
<1>6. RowsStand'
  BY <1>1, <1>3, <1>5 DEF RowsStand, RowsAreTyped
<1>7. ListsStand'
  BY <1>1, <1>3, <1>4 DEF ListsStand, leadHistory, ListRows
<1>8. StatusStands' /\ EditorsStand'
  BY <1>1, StatusKept DEF leadHistory, EditorsStand
<1> QED
  BY <1>6, <1>7, <1>8

\* What a list adds has its own number; alone, it replaces the whole list.
LEMMA CommitsHold == ASSUME DeskListsInv, NEW t \in DeskTabs, CommitsLegs(t) PROVE DeskListsInv'
<1> USE DEF DeskListsInv
<1> DEFINE served == legsCall[t]
           new == {[sequence |-> i, from |-> served.legs[i].from, to |-> served.legs[i].to, save |-> served.save] : i \in DOMAIN served.legs}
           crosses == \E u \in DeskTabs \ {t} : legsCall[u].step = "commits"
<1>1. /\ served.step = "commits" /\ legRows' = (legRows \ served.sees) \cup new
      /\ lead' = Mirrored(served.legs) /\ statusCall' = Outdated
      /\ legsCall' = [legsCall EXCEPT ![t] = NoLegsCall]
      /\ crossedLegs' = (crossedLegs \/ crosses)
      /\ rerouted' = (IF crosses \/ crossedLegs THEN rerouted ELSE FALSE)
      /\ \/ editor' = [editor EXCEPT ![t].saved = served.legs] /\ lastSaver' = t
         \/ lastSaver' = NoTab /\ UNCHANGED editor
      /\ UNCHANGED <<moving, unbooked, misread, deskMoves>>
  BY DEF CommitsLegs
<1>2. served # NoLegsCall
  BY <1>1 DEF NoLegsCall
<1>3. served.legs \in LegLists /\ Len(served.legs) <= MaxLegs /\ served.save \in Nat /\ served.save < deskMoves
  BY <1>2 DEF RowsStand
<1>4. new = ListRows(served.legs, served.save)
  BY DEF ListRows
<1>5. legsCall' = [u \in DeskTabs |-> IF u = t THEN NoLegsCall ELSE legsCall[u]]
  BY <1>1 DEF RowsStand
<1>6. \A r \in new : r.save = served.save /\ r \in RowTypes
  <2>1. Len(served.legs) \in Nat /\ DOMAIN served.legs = 1..Len(served.legs) /\ \A i \in DOMAIN served.legs : served.legs[i] \in [from : Ends, to : Ends]
    BY <1>3, LegsOfList
  <2>2. \A i \in 1..Len(served.legs) : i \in 1..MaxLegs
    BY <2>1, <1>3, LeadDeskConstants
  <2>3. \A i \in DOMAIN served.legs : i \in 1..MaxLegs /\ served.legs[i].from \in Ends /\ served.legs[i].to \in Ends
    BY <2>1, <2>2
  <2> QED
    BY <2>3, <1>3 DEF RowTypes
<1>7. \A r, q \in new : r.sequence = q.sequence => r = q
  OBVIOUS
<1>8. IsFiniteSet(new)
  BY <1>3, <1>4, RowsOfList
<1>9. StatusStands'
  <2>1. served.legs[1] \in [from : Ends, to : Ends]
    BY <1>3, LegsOfList
  <2>2. lead' \in LeadTypes
    BY <1>1, <2>1 DEF Mirrored, LeadTypes, StatusStands
  <2> QED
    BY <1>1, <2>2, HistoryKept, StatusOutdated
<1>10. EditorsStand'
  BY <1>1, <1>3 DEF EditorsStand, EditorTypes
<1> HIDE DEF new
<1>11. \A r \in legRows' : r \in legRows \/ r \in new
  BY <1>1
<1>12. \A r \in legRows : r.save # served.save
  BY <1>2 DEF RowsStand
<1>13. RowsAreTyped'
  <2>1. IsFiniteSet(legRows')
    <3>1. IsFiniteSet(legRows \ served.sees)
      BY FS_Difference DEF RowsStand, RowsAreTyped
    <3> QED
      BY <3>1, <1>1, <1>8, FS_Union
  <2>2. legRows' \subseteq RowTypes
    BY <1>6, <1>11 DEF RowsStand, RowsAreTyped
  <2>3. \A r, q \in legRows' : r.sequence = q.sequence /\ r.save = q.save => r = q
    BY <1>6, <1>7, <1>11, <1>12 DEF RowsStand, RowsAreTyped
  <2> QED
    BY <2>1, <2>2, <2>3 DEF RowsAreTyped, RowTypes
<1>14. RowsStand'
  <2>1. deskMoves' = deskMoves /\ \A r \in legRows' : r.save < deskMoves
    BY <1>1, <1>3, <1>6, <1>11 DEF RowsStand
  <2>2. \A u \in DeskTabs : legsCall'[u] # NoLegsCall => u # t /\ legsCall'[u] = legsCall[u] /\ legsCall[u] # NoLegsCall
    BY <1>5
  <2>3. \A u \in DeskTabs : legsCall'[u] # NoLegsCall => \A r \in legRows' : r.save # legsCall[u].save
    BY <1>2, <1>6, <1>11, <2>2 DEF RowsStand
  <2> QED
    BY <1>5, <1>13, <2>1, <2>2, <2>3 DEF RowsStand
<1>15. ListsStand'
  <2> SUFFICES ASSUME ~crossedLegs'
               PROVE  /\ \A u \in DeskTabs : legsCall'[u].step = "commits" => legsCall'[u].sees = legRows'
                      /\ \E legs \in LegLists, save \in Nat :
                           legRows' = ListRows(legs, save) /\ Leg(lead'.from, lead'.to) = legs[1] /\ ~lead'.back
                      /\ \A u \in DeskTabs : lastSaver' = u => \E save \in Nat : legRows' = ListRows(editor'[u].saved, save)
    BY DEF ListsStand, ListRows
  <2>1. ~crossedLegs /\ ~crosses
    BY <1>1
  <2>2. legRows' = ListRows(served.legs, served.save)
    <3>1. served.sees = legRows
      BY <2>1, <1>1 DEF ListsStand
    <3> QED
      BY <3>1, <1>1, <1>4
  <2>3. \A u \in DeskTabs : legsCall'[u].step # "commits"
    BY <2>1, <1>5 DEF NoLegsCall
  <2>4. Leg(lead'.from, lead'.to) = served.legs[1] /\ ~lead'.back
    <3>1. served.legs[1] = Leg(served.legs[1].from, served.legs[1].to)
      BY <1>3, LegsOfList
    <3> QED
      BY <3>1, <1>1 DEF Mirrored, StatusStands, LeadTypes
  <2>5. \A u \in DeskTabs : lastSaver' = u => editor'[u].saved = served.legs
    BY <1>1, LeadDeskConstants DEF EditorsStand, EditorTypes
  <2> QED
    BY <2>2, <2>3, <2>4, <2>5, <1>3
<1> QED
  BY <1>9, <1>10, <1>14, <1>15

LEMMA LegMovesHold == ASSUME DeskListsInv, LegsNext PROVE DeskListsInv'
BY LegEditsHold, SavesHold, DeletesHold, CommitsHold DEF LegsNext

\* Every move on the page keeps the invariant.
LEMMA DeskListsStep == DeskListsInv /\ [LeadDeskNext]_leadDeskVars => DeskListsInv'
<1> SUFFICES ASSUME DeskListsInv, [LeadDeskNext]_leadDeskVars PROVE DeskListsInv'
  OBVIOUS
<1>1. CASE LeadDeskNext
  BY <1>1, StatusMovesHold, LegMovesHold, RequestMovesHold DEF LeadDeskNext
<1>2. CASE UNCHANGED leadDeskVars
  <2>1. UNCHANGED <<lead, legRows, view, editor, statusCall, moving, legsCall, leadHistory, deskMoves>>
    BY <1>2 DEF leadDeskVars
  <2>2. StatusStands' /\ RowsStand' /\ EditorsStand'
    BY <2>1, StatusKept, RowsKept DEF leadHistory, DeskListsInv, EditorsStand
  <2>3. ListsStand'
    BY <2>1, ListsKept DEF leadHistory, DeskListsInv
  <2> QED
    BY <2>2, <2>3 DEF DeskListsInv
<1> QED
  BY <1>1, <1>2

\* What the lists stand for, of the status and of the legs.
LEMMA DeskListsPromise == DeskListsInv => LeadDeskIsSound /\ LeadDeskShape
<1> SUFFICES ASSUME DeskListsInv PROVE LeadDeskIsSound /\ LeadDeskShape
  OBVIOUS
<1> USE DEF DeskListsInv
<1>1. BookedStaysBooked /\ SelectionsLogTheTruth
  BY DEF StatusStands
<1>2. FirstLegIsTheRoute
  <2> SUFFICES ASSUME legRows # {}, ~crossedLegs, ~rerouted
               PROVE  /\ {r.sequence : r \in legRows} = 1..Cardinality(legRows)
                      /\ Leg(lead.from, lead.to) = StoredLegs[1] /\ ~lead.back
    BY DEF FirstLegIsTheRoute
  <2> PICK legs \in LegLists, save \in Nat : legRows = ListRows(legs, save) /\ Leg(lead.from, lead.to) = legs[1] /\ ~lead.back
    BY DEF ListsStand
  <2>1. {r.sequence : r \in legRows} = 1..Len(legs) /\ Cardinality(legRows) = Len(legs)
    BY RowsOfList
  <2>2. StoredLegs = legs
    BY StoredIsRead
  <2> QED
    BY <2>1, <2>2
<1>3. SavedMeansStored
  <2> SUFFICES ASSUME NEW t \in DeskTabs, lastSaver = t, ~crossedLegs, ~Dirty(t) PROVE StoredLegs = editor[t].legs
    BY DEF SavedMeansStored
  <2> PICK save \in Nat : legRows = ListRows(editor[t].saved, save)
    BY DEF ListsStand
  <2>1. editor[t].saved \in LegLists
    BY DEF EditorsStand, EditorTypes
  <2>2. StoredLegs = editor[t].saved
    BY <2>1, StoredIsRead
  <2> QED
    BY <2>2 DEF Dirty
<1>4. LeadDeskShape
  <2>1. \A t \in DeskTabs : editor[t].legs # <<>>
    <3> SUFFICES ASSUME NEW t \in DeskTabs PROVE editor[t].legs # <<>>
      OBVIOUS
    <3>1. editor[t].legs \in LegLists
      BY DEF EditorsStand, EditorTypes
    <3> QED
      BY <3>1, LegsOfList
  <2>2. \A r \in legRows : r.sequence \in 1..MaxLegs /\ r.from \in Ends /\ r.to \in Ends
    BY DEF RowsStand, RowsAreTyped, RowTypes
  <2> QED
    BY <2>1, <2>2 DEF LeadDeskShape, StatusStands, LeadTypes
<1> QED
  BY <1>1, <1>2, <1>3, <1>4 DEF LeadDeskIsSound

\* The lead's page keeps its word, for any tabs and any number of moves: an agent takes a
\* lead away from BOOKED by claiming or accepting one that nobody owns or by a send that
\* the booking crosses, and never by a selection or by moving an owned one; the row of an
\* agent's selection names the status that was replaced; the route is that of the first leg
\* and a list without unsaved changes is the one stored.
THEOREM LeadDeskHolds == LeadDeskSpec => [](LeadDeskIsSound /\ LeadDeskShape)
<1>1. DeskListsInv /\ [LeadDeskNext]_leadDeskVars => DeskListsInv'
  BY DeskListsStep
<1> QED
  BY <1>1, DeskListsStart, DeskListsPromise, PTL DEF LeadDeskSpec

-----------------------------------------------------------------------------
(* The import of contacts: lists *)

\* What the members of a list in a set are: no others, none lost, each from a place of
\* its own.
KeepsThose(S, list, set) ==
  /\ Those(list, set) \in Seq({x \in S : x \in set})
  /\ ToSet(Those(list, set)) = {x \in ToSet(list) : x \in set}
  /\ \E pos \in [DOMAIN Those(list, set) -> DOMAIN list] :
       /\ \A n \in DOMAIN pos : Those(list, set)[n] = list[pos[n]]
       /\ \A n, m \in DOMAIN pos : pos[n] = pos[m] => n = m

\* The members of a list that are in a set are kept, by their ranks.
LEMMA ThoseAreKept == ASSUME NEW S, NEW list \in Seq(S), NEW set PROVE KeepsThose(S, list, set)
<1> DEFINE staying == {i \in DOMAIN list : list[i] \in set}
           below == [i \in staying |-> {j \in staying : j < i}]
           N == Cardinality(staying)
           Place(n) == CHOOSE i \in staying : Cardinality({j \in staying : j < i}) = n - 1
           pos == [n \in 1..N |-> Place(n)]
<1>1. Len(list) \in Nat /\ DOMAIN list = 1..Len(list) /\ (\A i \in DOMAIN list : list[i] \in S) /\ \A i \in DOMAIN list : i \in Nat
  <2>1. Len(list) \in Nat /\ DOMAIN list = 1..Len(list) /\ \A i \in DOMAIN list : list[i] \in S
    OBVIOUS
  <2> QED
    BY <2>1
<1>2. IsFiniteSet(staying)
  <2>1. IsFiniteSet(1..Len(list))
    BY <1>1, FS_Interval
  <2>2. staying \subseteq 1..Len(list)
    BY <1>1
  <2> QED
    BY <2>1, <2>2, FS_Subset
<1>3. N \in Nat
  BY <1>2, FS_CardinalityType
<1>4. \A i \in staying : i \in Nat /\ i \in DOMAIN list /\ list[i] \in set
  BY <1>1
<1> HIDE DEF staying
<1>5. \A k \in 1..N : \E i \in staying : Cardinality(below[i]) = k - 1
  <2>1. below \in [staying -> SUBSET staying]
    OBVIOUS
  <2>2. \A x \in staying : x \notin below[x]
    BY <1>4
  <2>3. \A x, y \in staying : x # y => x \in below[y] \/ y \in below[x]
    BY <1>4
  <2>4. \A x, y \in staying : x \in below[y] => below[x] \subseteq below[y]
    BY <1>4
  <2> HIDE DEF below
  <2> QED
    BY <1>2, <2>1, <2>2, <2>3, <2>4, RanksAreTaken
<1>6. \A i \in staying : Cardinality(below[i]) = Cardinality({j \in staying : j < i})
  <2>1. \A i \in staying : below[i] = {j \in staying : j < i}
    BY Zenon
  <2> QED
    BY <2>1, Zenon
<1>7. ASSUME NEW n \in 1..N PROVE pos[n] \in staying /\ Cardinality(below[pos[n]]) = n - 1
  <2> DEFINE P(i) == Cardinality({j \in staying : j < i}) = n - 1
  <2>1. \E i \in staying : P(i)
    BY <1>5, <1>6
  <2>2. pos[n] = CHOOSE i \in staying : P(i)
    OBVIOUS
  <2> HIDE DEF P, pos
  <2>3. pos[n] \in staying /\ P(pos[n])
    BY <2>1, <2>2
  <2> QED
    BY <2>3, <1>6 DEF P
<1>8. \A n, m \in 1..N : pos[n] = pos[m] => n = m
  <2> SUFFICES ASSUME NEW n \in 1..N, NEW m \in 1..N, pos[n] = pos[m] PROVE n = m
    OBVIOUS
  <2> HIDE DEF pos, below
  <2>1. n - 1 = m - 1
    BY <1>7
  <2> QED
    BY <2>1, <1>3
<1>9. Those(list, set) = [n \in 1..N |-> list[pos[n]]]
  BY DEF Those, staying
<1>10. DOMAIN pos = 1..N /\ pos = [n \in 1..N |-> pos[n]]
  <2> HIDE DEF Place, N
  <2> QED
    OBVIOUS
<1> HIDE DEF pos, below, N
<1>11. pos \in [1..N -> DOMAIN list]
  BY <1>4, <1>7, <1>10
<1>12. Those(list, set) \in Seq({x \in S : x \in set}) /\ DOMAIN Those(list, set) = 1..N
  <2> DEFINE T == {x \in S : x \in set}
  <2>1. \A n \in 1..N : list[pos[n]] \in T
    BY <1>1, <1>4, <1>7
  <2> HIDE DEF T
  <2>2. Those(list, set) \in [1..N -> T]
    BY <2>1, <1>9
  <2>3. \A s : s \in [1..N -> T] => s \in Seq(T)
    BY <1>3
  <2> QED
    BY <2>2, <2>3, <1>9 DEF T
<1>13. \A i \in staying : \E n \in 1..N : pos[n] = i
  <2>1. pos \in Injection(1..N, staying)
    <3>1. pos \in [1..N -> staying]
      BY <1>7, <1>10
    <3> QED
      BY <3>1, <1>8 DEF Injection, IsInjective
  <2>2. IsFiniteSet(1..N) /\ Cardinality(1..N) = Cardinality(staying)
    <3>1. IsFiniteSet(1..N) /\ Cardinality(1..N) = IF 1 > N THEN 0 ELSE N - 1 + 1
      BY <1>3, FS_Interval
    <3>2. Cardinality(1..N) = N
      BY <3>1, <1>3
    <3> QED
      BY <3>1, <3>2 DEF N
  <2>3. pos \in Surjection(1..N, staying)
    BY <2>1, <2>2, <1>2, FS_Injection
  <2> QED
    BY <2>3 DEF Surjection
<1>14. ToSet(Those(list, set)) = {x \in ToSet(list) : x \in set}
  <2>1. ASSUME NEW x \in ToSet(Those(list, set)) PROVE x \in ToSet(list) /\ x \in set
    <3> PICK n \in 1..N : x = list[pos[n]]
      BY <1>9, <1>12 DEF ToSet
    <3> QED
      BY <1>4, <1>7 DEF ToSet
  <2>2. ASSUME NEW x \in ToSet(list), x \in set PROVE x \in ToSet(Those(list, set))
    <3> PICK i \in DOMAIN list : x = list[i]
      BY DEF ToSet
    <3>1. i \in staying
      BY <2>2 DEF staying
    <3> PICK n \in 1..N : pos[n] = i
      BY <3>1, <1>13
    <3> QED
      BY <1>9, <1>12 DEF ToSet
  <2> QED
    BY <2>1, <2>2
<1> QED
  BY <1>8, <1>9, <1>11, <1>12, <1>14 DEF KeepsThose

\* Finitely many numbers have a greatest.
LEMMA BoundOfList ==
  ASSUME NEW n \in Nat, NEW f, \A i \in 1..n : f[i] \in Nat
  PROVE  \E b \in Nat : \A i \in 1..n : f[i] <= b
<1> DEFINE Bounded(m) == \E b \in Nat : \A i \in 1..m : f[i] <= b
           Fails == {m \in 0..n : ~Bounded(m)}
<1> SUFFICES ASSUME ~Bounded(n) PROVE FALSE
  OBVIOUS
<1>1. Fails # {} /\ Fails \subseteq Nat
  OBVIOUS
<1>2. PICK m \in Fails : \A y \in Fails : ~(<<y, m>> \in OpToRel(<, Nat))
  BY <1>1, WFMin, NatLessThanWellFounded
<1>3. m \in 0..n /\ ~Bounded(m) /\ \A y \in 0..n : y < m => Bounded(y)
  <2> HIDE DEF Bounded
  <2>1. \A y \in Fails : ~(y < m)
    <3> HIDE DEF Fails
    <3> QED
      BY <1>1, <1>2 DEF OpToRel
  <2> QED
    BY <2>1
<1>4. m # 0
  <2>1. \A i \in 1..0 : f[i] <= 0
    OBVIOUS
  <2> QED
    BY <1>3, <2>1
<1>5. m - 1 \in 0..n /\ m - 1 < m
  BY <1>3, <1>4
<1>6. PICK b \in Nat : \A i \in 1..(m - 1) : f[i] <= b
  BY <1>3, <1>5
<1>7. f[m] \in Nat /\ b + f[m] \in Nat
  BY <1>3, <1>4
<1>8. ASSUME NEW i \in 1..m PROVE f[i] <= b + f[m]
  <2>1. CASE i = m
    BY <2>1, <1>7
  <2>2. CASE i # m
    <3>1. i \in 1..(m - 1) /\ i \in 1..n
      BY <2>2, <1>3, <1>8
    <3>2. f[i] <= b /\ f[i] \in Nat
      BY <3>1, <1>6
    <3> QED
      BY <3>2, <1>7
  <2> QED
    BY <2>1, <2>2
<1> QED
  BY <1>3, <1>7, <1>8

-----------------------------------------------------------------------------
(* The import of contacts: body *)

\* Cells, the rows of the table and the contacts made of them.
Values == Cells \cup {Empty}
ImportRows ==
  [id : Nat \X Nat, firstName : Values, lastName : Values, notes : Seq(Cells), owner : Owners \cup {Unassigned},
   at : [Channels -> Seq(Values)]]
ContactRows == [firstName : Cells, lastName : Cells, owner : Owners \cup {Unassigned}, at : [Channels -> Seq(Readable)]]

\* The rows of a table after that many changes: as wide as the header, each its own.
TableIs(body, cols, count) ==
  /\ cols \in [Channels -> Nat] /\ body \in Seq(ImportRows)
  /\ \A i \in DOMAIN body : body[i].id[1] <= count /\ \A k \in Channels : Len(body[i].at[k]) = cols[k]
  /\ \A i, j \in DOMAIN body : body[i].id = body[j].id => i = j

\* The rows' own numbers.
IdsOf(body) == {body[i].id : i \in DOMAIN body}

\* What was pasted is in the rows.
LinesIn(body, lines) ==
  \A j \in DOMAIN lines :
    LET row == body[lines[j].row] IN
    lines[j].cells \subseteq
      {row.firstName, row.lastName} \cup ToSet(row.notes) \cup UNION {ToSet(row.at[k]) : k \in Channels}

\* The table and its selection; the question asked and the rows it is about.
TableStands == tableEdits \in Nat /\ TableIs(table, columns, tableEdits) /\ selected \subseteq IdsOf(table)
AskStands ==
  /\ asking.kind \in {"none", "review", "create", "created"}
  /\ asking.kind \in {"review", "create"} => asking.rows \in Seq(ImportRows)

\* The invariant behind the import.
ImportInv == TableStands /\ LinesIn(table, lastPaste) /\ AskStands /\ batches \in Seq(Seq(ContactRows))

\* A list whose members are in a set is a list over it.
LEMMA ListOfMembers ==
  ASSUME NEW S, NEW T, NEW s \in Seq(S), \A i \in DOMAIN s : s[i] \in T PROVE s \in Seq(T)
<1>1. Len(s) \in Nat /\ DOMAIN s = 1..Len(s) /\ s = [i \in 1..Len(s) |-> s[i]]
  OBVIOUS
<1>2. s \in [1..Len(s) -> T]
  BY <1>1
<1>3. \A n \in Nat : \A f \in [1..n -> T] : f \in Seq(T)
  OBVIOUS
<1> QED
  BY <1>1, <1>2, <1>3

\* A list given by its members.
LEMMA ListByMembers ==
  ASSUME NEW T, NEW n \in Nat, NEW f, f = [i \in 1..n |-> f[i]], \A i \in 1..n : f[i] \in T
  PROVE  f \in Seq(T) /\ Len(f) = n /\ DOMAIN f = 1..n
<1>1. f \in [1..n -> T]
  OBVIOUS
<1>2. \A g \in [1..n -> T] : g \in Seq(T) /\ Len(g) = n
  OBVIOUS
<1> QED
  BY <1>1, <1>2

\* Lists are filled up, and empty rows made, to the header's width.
LEMMA PaddedIs ==
  ASSUME NEW values \in Seq(Values), NEW n \in Nat
  PROVE  /\ Padded(values, n) \in Seq(Values) /\ Len(Padded(values, n)) = n
         /\ Len(values) <= n => ToSet(values) \subseteq ToSet(Padded(values, n))
<1> DEFINE f == Padded(values, n)
<1>1. Len(values) \in Nat /\ DOMAIN values = 1..Len(values) /\ \A i \in 1..Len(values) : values[i] \in Values
  OBVIOUS
<1>2. f = [i \in 1..n |-> f[i]] /\ \A i \in 1..n : f[i] \in Values /\ (i <= Len(values) => f[i] = values[i])
  <2>1. f = [i \in 1..n |-> IF i <= Len(values) THEN values[i] ELSE Empty]
    BY DEF Padded
  <2>2. Empty \in Values
    BY DEF Values
  <2> HIDE DEF f
  <2> QED
    BY <2>1, <2>2, <1>1
<1> HIDE DEF f
<1>3. f \in Seq(Values) /\ Len(f) = n /\ DOMAIN f = 1..n
  BY <1>2, ListByMembers
<1>4. ASSUME Len(values) <= n PROVE ToSet(values) \subseteq ToSet(f)
  <2>1. \A i \in 1..Len(values) : i \in 1..n /\ f[i] = values[i]
    BY <1>1, <1>2, <1>4
  <2> QED
    BY <2>1, <1>1, <1>3 DEF ToSet
<1> QED
  BY <1>3, <1>4 DEF f

LEMMA EmptyRowIs ==
  ASSUME NEW id \in Nat \X Nat, NEW cols \in [Channels -> Nat]
  PROVE  /\ EmptyRow(id, cols) \in ImportRows /\ EmptyRow(id, cols).id = id
         /\ \A k \in Channels : Len(EmptyRow(id, cols).at[k]) = cols[k]
<1> DEFINE blank(n) == [i \in 1..n |-> Empty]  lists == [k \in Channels |-> blank(cols[k])]
<1>1. \A n \in Nat : blank(n) \in Seq(Values) /\ Len(blank(n)) = n
  <2> SUFFICES ASSUME NEW n \in Nat PROVE blank(n) \in Seq(Values) /\ Len(blank(n)) = n
    OBVIOUS
  <2>1. Empty \in Values
    BY DEF Values
  <2>2. blank(n) = [i \in 1..n |-> blank(n)[i]] /\ \A i \in 1..n : blank(n)[i] \in Values
    BY <2>1
  <2> HIDE DEF blank
  <2> QED
    BY <2>2, ListByMembers
<1>2. EmptyRow(id, cols) = [id |-> id, firstName |-> Empty, lastName |-> Empty, notes |-> <<>>, owner |-> Unassigned, at |-> lists]
  BY DEF EmptyRow
<1> HIDE DEF blank
<1>3. lists \in [Channels -> Seq(Values)] /\ \A k \in Channels : Len(lists[k]) = cols[k]
  BY <1>1
<1>4. Empty \in Values /\ <<>> \in Seq(Cells)
  BY DEF Values
<1> HIDE DEF lists
<1> QED
  BY <1>2, <1>3, <1>4 DEF ImportRows

\* A row is changed in one of its lists.
LEMMA RowWithList ==
  ASSUME NEW row \in ImportRows, NEW k \in Channels, NEW s \in Seq(Values)
  PROVE  LET new == [row EXCEPT !.at[k] = s] IN
         /\ new \in ImportRows /\ new.id = row.id
         /\ \A j \in Channels : new.at[j] = IF j = k THEN s ELSE row.at[j]
<1> DEFINE L == Seq(Values)  M == Seq(Cells)  I == Nat \X Nat
<1>1. row \in [id : I, firstName : Values, lastName : Values, notes : M, owner : Owners \cup {Unassigned}, at : [Channels -> L]]
  BY DEF ImportRows
<1>2. s \in L
  OBVIOUS
<1> HIDE DEF L, M, I
<1>3. LET new == [row EXCEPT !.at[k] = s] IN
      /\ new \in [id : I, firstName : Values, lastName : Values, notes : M, owner : Owners \cup {Unassigned}, at : [Channels -> L]]
      /\ new.id = row.id /\ \A j \in Channels : new.at[j] = IF j = k THEN s ELSE row.at[j]
  BY <1>1, <1>2
<1> QED
  BY <1>3 DEF ImportRows, L, M, I

\* The rows of a table, changed one by one.
LEMMA RowsByRow ==
  ASSUME TableStands, NEW body, NEW cols \in [Channels -> Nat], body = [i \in DOMAIN table |-> body[i]],
         \A i \in DOMAIN table : body[i] \in ImportRows /\ body[i].id = table[i].id /\ \A k \in Channels : Len(body[i].at[k]) = cols[k]
  PROVE  TableIs(body, cols, tableEdits + 1) /\ IdsOf(body) = IdsOf(table)
<1>1. Len(table) \in Nat /\ DOMAIN table = 1..Len(table) /\ \A i \in DOMAIN table : table[i] \in ImportRows
  <2> HIDE DEF ImportRows
  <2>1. table \in Seq(ImportRows)
    BY DEF TableStands, TableIs
  <2> QED
    BY <2>1
<1>2. body \in Seq(ImportRows) /\ DOMAIN body = DOMAIN table
  BY <1>1, ListByMembers
<1>3. \A i \in DOMAIN table : table[i].id[1] \in Nat /\ table[i].id[1] <= tableEdits /\ tableEdits \in Nat
  BY <1>1 DEF ImportRows, TableStands, TableIs
<1>4. \A i \in DOMAIN body : body[i].id[1] <= tableEdits + 1
  BY <1>2, <1>3
<1>5. \A i, j \in DOMAIN body : body[i].id = body[j].id => i = j
  BY <1>2 DEF TableStands, TableIs
<1>6. IdsOf(body) = IdsOf(table)
  BY <1>2 DEF IdsOf
<1> QED
  BY <1>2, <1>4, <1>5, <1>6 DEF TableIs

\* A change to the table.
LEMMA ChangesHold ==
  ASSUME ImportInv, NEW body, NEW cols, NEW ticks, NEW lines, Changes(body, cols, ticks, lines),
         TableIs(body, cols, tableEdits + 1), ticks \subseteq IdsOf(body), LinesIn(body, lines)
  PROVE  ImportInv'
<1>1. /\ table' = body /\ columns' = cols /\ selected' = ticks /\ lastPaste' = lines /\ tableEdits' = tableEdits + 1
      /\ UNCHANGED <<review, asking, batches>>
  BY DEF Changes
<1>2. tableEdits' \in Nat
  BY <1>1 DEF ImportInv, TableStands
<1> QED
  BY <1>1, <1>2 DEF ImportInv, TableStands, TableIs, IdsOf, LinesIn, AskStands


\* Nothing pasted lies anywhere.
LEMMA NoLines == ASSUME NEW body PROVE LinesIn(body, <<>>)
BY DEF LinesIn

\* The table as it is opened, and every change of it.
LEMMA ImportStarts == ASSUME BulkImportInit PROVE ImportInv
<1> DEFINE row == EmptyRow(<<0, 0>>, columns)
<1>1. columns \in [Channels -> Nat] /\ table = <<row>> /\ selected = {} /\ asking = NoAsk /\ batches = <<>> /\ lastPaste = <<>> /\ tableEdits = 0
  BY DEF BulkImportInit
<1>2. <<0, 0>> \in Nat \X Nat /\ <<0, 0>>[1] <= 0
  OBVIOUS
<1>3. row \in ImportRows /\ row.id = <<0, 0>> /\ \A k \in Channels : Len(row.at[k]) = columns[k]
  BY <1>1, <1>2, EmptyRowIs
<1> HIDE DEF row
<1>4. \A S, x : x \in S => <<x>> \in Seq(S) /\ DOMAIN <<x>> = {1} /\ <<x>>[1] = x
  OBVIOUS
<1>5. table \in Seq(ImportRows) /\ DOMAIN table = {1} /\ table[1] = row
  BY <1>1, <1>3, <1>4
<1>6. TableStands
  BY <1>1, <1>2, <1>3, <1>5 DEF TableStands, TableIs
<1>7. \A S : <<>> \in Seq(S)
  OBVIOUS
<1>8. batches \in Seq(Seq(ContactRows))
  BY <1>1, <1>7
<1> QED
  BY <1>1, <1>6, <1>8, NoLines DEF ImportInv, AskStands, NoAsk

LEMMA AddRowHolds == ASSUME ImportInv, AddRow PROVE ImportInv'
<1> DEFINE id == NewId(0)  row == EmptyRow(id, columns)  new == Append(table, row)
<1>1. Changes(new, columns, selected, <<>>)
  BY DEF AddRow
<1>2. id \in Nat \X Nat /\ id[1] = tableEdits + 1 /\ tableEdits \in Nat
  BY DEF ImportInv, TableStands, NewId
<1>3. columns \in [Channels -> Nat] /\ table \in Seq(ImportRows)
  BY DEF ImportInv, TableStands, TableIs
<1> HIDE DEF id
<1>4. row \in ImportRows /\ row.id = id /\ \A k \in Channels : Len(row.at[k]) = columns[k]
  BY <1>2, <1>3, EmptyRowIs
<1> HIDE DEF row
<1>5. /\ Len(table) \in Nat /\ DOMAIN table = 1..Len(table) /\ \A i \in DOMAIN table : table[i] \in ImportRows
      /\ new \in Seq(ImportRows) /\ DOMAIN new = 1..(Len(table) + 1) /\ new[Len(table) + 1] = row
      /\ \A i \in DOMAIN table : new[i] = table[i]
  <2> HIDE DEF ImportRows
  <2> QED
    BY <1>3, <1>4
<1> HIDE DEF new
<1>6. \A i \in DOMAIN new : (i \in DOMAIN table /\ new[i] = table[i]) \/ (i = Len(table) + 1 /\ new[i] = row)
  BY <1>5
<1>7. \A i \in DOMAIN table : table[i].id[1] \in Nat /\ table[i].id[1] <= tableEdits
  BY <1>5 DEF ImportRows, ImportInv, TableStands, TableIs
<1>8. \A i \in DOMAIN new : new[i].id[1] <= tableEdits + 1 /\ \A k \in Channels : Len(new[i].at[k]) = columns[k]
  <2> SUFFICES ASSUME NEW i \in DOMAIN new PROVE new[i].id[1] <= tableEdits + 1 /\ \A k \in Channels : Len(new[i].at[k]) = columns[k]
    OBVIOUS
  <2>1. CASE i \in DOMAIN table /\ new[i] = table[i]
    BY <2>1, <1>2, <1>7 DEF ImportInv, TableStands, TableIs
  <2>2. CASE new[i] = row
    BY <2>2, <1>2, <1>4
  <2> QED
    BY <2>1, <2>2, <1>6
<1>9. \A i \in DOMAIN table : table[i].id # id
  BY <1>2, <1>7
<1>10. \A i, j \in DOMAIN new : new[i].id = new[j].id => i = j
  BY <1>4, <1>6, <1>9 DEF ImportInv, TableStands, TableIs
<1>11. selected \subseteq IdsOf(new)
  BY <1>5 DEF ImportInv, TableStands, IdsOf
<1>12. TableIs(new, columns, tableEdits + 1)
  BY <1>3, <1>5, <1>8, <1>10 DEF TableIs
<1> QED
  BY <1>1, <1>11, <1>12, NoLines, ChangesHold

\* A change that keeps every row's identity.
LEMMA RowByRowHolds ==
  ASSUME ImportInv, NEW body, NEW cols \in [Channels -> Nat], body = [i \in DOMAIN table |-> body[i]],
         \A i \in DOMAIN table : body[i] \in ImportRows /\ body[i].id = table[i].id /\ \A k \in Channels : Len(body[i].at[k]) = cols[k],
         Changes(body, cols, selected, <<>>)
  PROVE  ImportInv'
<1>1. TableIs(body, cols, tableEdits + 1) /\ IdsOf(body) = IdsOf(table)
  BY RowsByRow DEF ImportInv
<1>2. selected \subseteq IdsOf(body)
  BY <1>1 DEF ImportInv, TableStands
<1> QED
  BY <1>1, <1>2, NoLines, ChangesHold

\* The rows of a table, one by one.
LEMMA RowsOfTable ==
  ASSUME ImportInv
  PROVE  /\ columns \in [Channels -> Nat] /\ Len(table) \in Nat /\ DOMAIN table = 1..Len(table)
         /\ \A i \in DOMAIN table : table[i] \in ImportRows
         /\ \A i \in DOMAIN table : \A k \in Channels :
              /\ table[i].at[k] \in Seq(Values) /\ Len(table[i].at[k]) = columns[k]
<1>1. columns \in [Channels -> Nat] /\ table \in Seq(ImportRows)
  BY DEF ImportInv, TableStands, TableIs
<1>2. Len(table) \in Nat /\ DOMAIN table = 1..Len(table) /\ \A i \in DOMAIN table : table[i] \in ImportRows
  <2> HIDE DEF ImportRows
  <2> QED
    BY <1>1
<1>3. \A i \in DOMAIN table : \A k \in Channels : table[i].at[k] \in Seq(Values)
  BY <1>2 DEF ImportRows
<1> QED
  BY <1>1, <1>2, <1>3 DEF ImportInv, TableStands, TableIs

LEMMA ColumnsHold ==
  ASSUME ImportInv, NEW k \in Channels, AddColumn(k) \/ \E c \in 1..MaxColumns : RemoveColumn(k, c)
  PROVE  ImportInv'
<1>1. CASE AddColumn(k)
  <2> DEFINE new(i) == Append(table[i].at[k], Empty)
             body == [i \in DOMAIN table |-> [table[i] EXCEPT !.at[k] = new(i)]]
             cols == [columns EXCEPT ![k] = @ + 1]
  <2>1. Changes(body, cols, selected, <<>>)
    BY <1>1 DEF AddColumn
  <2>2. cols \in [Channels -> Nat] /\ cols[k] = columns[k] + 1 /\ \A j \in Channels : j # k => cols[j] = columns[j]
    BY RowsOfTable
  <2>3. ASSUME NEW i \in DOMAIN table PROVE body[i] \in ImportRows /\ body[i].id = table[i].id /\ \A j \in Channels : Len(body[i].at[j]) = cols[j]
    <3>1. table[i] \in ImportRows /\ table[i].at[k] \in Seq(Values) /\ Empty \in Values /\ \A j \in Channels : Len(table[i].at[j]) = columns[j]
      BY RowsOfTable DEF Values
    <3>2. new(i) \in Seq(Values) /\ Len(new(i)) = Len(table[i].at[k]) + 1
      <4> HIDE DEF Values
      <4> QED
        BY <3>1
    <3>3. body[i] = [table[i] EXCEPT !.at[k] = new(i)]
      OBVIOUS
    <3> HIDE DEF new, body, cols
    <3>4. body[i] \in ImportRows /\ body[i].id = table[i].id /\ \A j \in Channels : body[i].at[j] = IF j = k THEN new(i) ELSE table[i].at[j]
      BY <3>1, <3>2, <3>3, RowWithList
    <3> QED
      BY <2>2, <3>1, <3>2, <3>4
  <2>4. body = [i \in DOMAIN table |-> body[i]]
    OBVIOUS
  <2> HIDE DEF body, cols
  <2> QED
    BY <2>1, <2>2, <2>3, <2>4, RowByRowHolds
<1>2. ASSUME NEW c \in 1..MaxColumns, RemoveColumn(k, c) PROVE ImportInv'
  <2> DEFINE new(i) == RemoveAt(table[i].at[k], c)
             body == [i \in DOMAIN table |-> [table[i] EXCEPT !.at[k] = new(i)]]
             cols == [columns EXCEPT ![k] = @ - 1]
  <2>1. Changes(body, cols, selected, <<>>) /\ columns[k] > 1 /\ c <= columns[k]
    BY <1>2 DEF RemoveColumn
  <2>2. cols \in [Channels -> Nat] /\ cols[k] = columns[k] - 1 /\ (\A j \in Channels : j # k => cols[j] = columns[j]) /\ c \in 1..columns[k]
    BY <2>1, RowsOfTable, ImportConstants
  <2>3. ASSUME NEW i \in DOMAIN table PROVE body[i] \in ImportRows /\ body[i].id = table[i].id /\ \A j \in Channels : Len(body[i].at[j]) = cols[j]
    <3>1. table[i] \in ImportRows /\ table[i].at[k] \in Seq(Values) /\ \A j \in Channels : Len(table[i].at[j]) = columns[j]
      BY RowsOfTable
    <3>2. c \in DOMAIN table[i].at[k]
      <4>1. \A s \in Seq(Values) : DOMAIN s = 1..Len(s)
        OBVIOUS
      <4> QED
        BY <4>1, <3>1, <2>2
    <3>3. new(i) \in Seq(Values) /\ Len(new(i)) = Len(table[i].at[k]) - 1
      BY <3>1, <3>2, RemovesOne
    <3>4. body[i] = [table[i] EXCEPT !.at[k] = new(i)]
      OBVIOUS
    <3> HIDE DEF new, body, cols
    <3>5. body[i] \in ImportRows /\ body[i].id = table[i].id /\ \A j \in Channels : body[i].at[j] = IF j = k THEN new(i) ELSE table[i].at[j]
      BY <3>1, <3>3, <3>4, RowWithList
    <3> QED
      BY <2>2, <3>1, <3>3, <3>5
  <2>4. body = [i \in DOMAIN table |-> body[i]]
    OBVIOUS
  <2> HIDE DEF body, cols
  <2> QED
    BY <2>1, <2>2, <2>3, <2>4, RowByRowHolds
<1> QED
  BY <1>1, <1>2

LEMMA CellsHold ==
  ASSUME ImportInv, NEW i \in DOMAIN table, NEW k \in Channels, NEW v \in Values, TypeCell(i, k, v)
  PROVE  ImportInv'
<1> DEFINE new == [table[i].at[k] EXCEPT ![1] = v]
           body == [table EXCEPT ![i].at[k][1] = v]
<1>1. Changes(body, columns, selected, <<>>)
  BY DEF TypeCell
<1>2. table[i] \in ImportRows /\ table[i].at[k] \in Seq(Values)
  BY RowsOfTable
<1>3. new \in Seq(Values) /\ Len(new) = Len(table[i].at[k])
  <2>1. ASSUME NEW S, NEW x \in S, NEW q \in Seq(S) PROVE [q EXCEPT ![1] = x] \in Seq(S) /\ Len([q EXCEPT ![1] = x]) = Len(q)
    <3> DEFINE f == [q EXCEPT ![1] = x]
    <3>1. Len(q) \in Nat /\ DOMAIN q = 1..Len(q) /\ \A n \in 1..Len(q) : q[n] \in S
      OBVIOUS
    <3>2. f = [n \in 1..Len(q) |-> f[n]] /\ \A n \in 1..Len(q) : f[n] \in S
      BY <3>1
    <3> HIDE DEF f
    <3>3. f \in Seq(S) /\ Len(f) = Len(q)
      BY <3>1, <3>2, ListByMembers
    <3> QED
      BY <3>3 DEF f
  <2> QED
    BY <2>1, <1>2
<1>4. body = [j \in DOMAIN table |-> IF j = i THEN [table[i] EXCEPT !.at[k] = new] ELSE table[j]]
  OBVIOUS
<1> HIDE DEF body, new
<1>5. LET row == [table[i] EXCEPT !.at[k] = new] IN
      row \in ImportRows /\ row.id = table[i].id /\ \A j \in Channels : row.at[j] = IF j = k THEN new ELSE table[i].at[j]
  BY <1>2, <1>3, RowWithList
<1>6. ASSUME NEW j \in DOMAIN table PROVE body[j] \in ImportRows /\ body[j].id = table[j].id /\ \A c \in Channels : Len(body[j].at[c]) = columns[c]
  <2>1. CASE j = i
    <3>1. body[j] = [table[i] EXCEPT !.at[k] = new]
      BY <2>1, <1>4
    <3> QED
      BY <2>1, <3>1, <1>3, <1>5, RowsOfTable
  <2>2. CASE j # i
    <3>1. body[j] = table[j]
      BY <2>2, <1>4
    <3> QED
      BY <3>1, RowsOfTable
  <2> QED
    BY <2>1, <2>2
<1>7. body = [j \in DOMAIN table |-> body[j]] /\ columns \in [Channels -> Nat]
  BY <1>4, RowsOfTable
<1> QED
  BY <1>1, <1>6, <1>7, RowByRowHolds

LEMMA AssignHolds == ASSUME ImportInv, NEW o \in Owners, AssignRows(o) PROVE ImportInv'
<1> DEFINE ids == IF selected = {} THEN Ids ELSE selected
           body == [i \in DOMAIN table |-> IF table[i].id \in ids THEN [table[i] EXCEPT !.owner = o] ELSE table[i]]
<1>1. Changes(body, columns, selected, <<>>)
  BY DEF AssignRows
<1>2. ASSUME NEW i \in DOMAIN table PROVE body[i] \in ImportRows /\ body[i].id = table[i].id /\ body[i].at = table[i].at
  <2>1. table[i] \in ImportRows
    BY RowsOfTable
  <2> QED
    BY <2>1 DEF ImportRows
<1>3. body = [i \in DOMAIN table |-> body[i]]
  OBVIOUS
<1> HIDE DEF body
<1> QED
  BY <1>1, <1>2, <1>3, RowsOfTable, RowByRowHolds


\* The rows that are left, or an empty one.
LEMMA RemovesHold == ASSUME ImportInv, NEW ids \in SUBSET Ids, RemoveRows(ids) PROVE ImportInv'
<1> DEFINE staying == {r \in ToSet(table) : r.id \notin ids}
           rest == Those(table, staying)
           row == EmptyRow(NewId(0), columns)
           new == IF rest = <<>> THEN <<row>> ELSE rest
<1>1. Changes(new, columns, selected \ ids, <<>>)
  BY DEF RemoveRows
<1>2. table \in Seq(ImportRows) /\ columns \in [Channels -> Nat] /\ tableEdits \in Nat
  BY DEF ImportInv, TableStands, TableIs
<1> HIDE DEF staying
<1>0. KeepsThose(ImportRows, table, staying)
  BY <1>2, ThoseAreKept
<1>3. ToSet(rest) = {x \in ToSet(table) : x \in staying}
  BY <1>0 DEF KeepsThose
<1>4. PICK pos \in [DOMAIN rest -> DOMAIN table] :
        /\ \A n \in DOMAIN pos : rest[n] = table[pos[n]]
        /\ \A n, m \in DOMAIN pos : pos[n] = pos[m] => n = m
  BY <1>0 DEF KeepsThose
<1>5. rest \in Seq(ImportRows)
  <2> DEFINE T == {x \in ImportRows : x \in staying}
  <2>1. rest \in Seq(T)
    BY <1>0 DEF KeepsThose
  <2>2. \A x \in T : x \in ImportRows
    OBVIOUS
  <2> HIDE DEF T, ImportRows, rest
  <2>3. \A i \in DOMAIN rest : rest[i] \in ImportRows
    BY <2>1, <2>2
  <2> QED
    BY <2>1, <2>3, ListOfMembers
<1> HIDE DEF rest
<1>6. \A i \in DOMAIN table : table[i].id[1] \in Nat /\ table[i].id[1] <= tableEdits
  BY RowsOfTable DEF ImportRows, ImportInv, TableStands, TableIs
<1>7. TableIs(rest, columns, tableEdits + 1)
  <2>1. \A i \in DOMAIN rest : rest[i].id[1] <= tableEdits + 1 /\ \A k \in Channels : Len(rest[i].at[k]) = columns[k]
    BY <1>2, <1>4, <1>6, RowsOfTable
  <2>2. \A i, j \in DOMAIN rest : rest[i].id = rest[j].id => i = j
    BY <1>4 DEF ImportInv, TableStands, TableIs
  <2> QED
    BY <1>2, <1>5, <2>1, <2>2 DEF TableIs
<1>8. selected \ ids \subseteq IdsOf(rest)
  <2> SUFFICES ASSUME NEW id \in selected, id \notin ids PROVE id \in IdsOf(rest)
    OBVIOUS
  <2> PICK i \in DOMAIN table : table[i].id = id
    BY DEF ImportInv, TableStands, IdsOf
  <2>1. table[i] \in ToSet(rest)
    BY <1>3 DEF staying, ToSet
  <2> QED
    BY <2>1 DEF ToSet, IdsOf
<1>9. CASE rest # <<>>
  <2>1. new = rest
    BY <1>9
  <2> QED
    BY <2>1, <1>1, <1>7, <1>8, NoLines, ChangesHold
<1>10. CASE rest = <<>>
  <2>1. new = <<row>>
    BY <1>10
  <2>2. selected \ ids = {}
    BY <1>8, <1>10 DEF IdsOf
  <2>3. NewId(0) \in Nat \X Nat /\ NewId(0)[1] = tableEdits + 1
    BY <1>2 DEF NewId
  <2>4. row \in ImportRows /\ row.id = NewId(0) /\ \A k \in Channels : Len(row.at[k]) = columns[k]
    BY <1>2, <2>3, EmptyRowIs
  <2> HIDE DEF row
  <2>5. \A S, x : x \in S => <<x>> \in Seq(S) /\ DOMAIN <<x>> = {1} /\ <<x>>[1] = x
    OBVIOUS
  <2>6. new \in Seq(ImportRows) /\ DOMAIN new = {1} /\ new[1] = row
    BY <2>1, <2>4, <2>5
  <2> HIDE DEF new
  <2>7. \A i \in DOMAIN new : new[i].id[1] <= tableEdits + 1 /\ \A k \in Channels : Len(new[i].at[k]) = columns[k]
    BY <2>3, <2>4, <2>6, <1>2
  <2>8. TableIs(new, columns, tableEdits + 1)
    BY <2>6, <2>7, <1>2 DEF TableIs
  <2> QED
    BY <1>1, <2>2, <2>8, NoLines, ChangesHold
<1> QED
  BY <1>9, <1>10

\* The rows with something in them are rows.
LEMMA EnteredAreRows == ASSUME ImportInv PROVE NonEmptyRows \in Seq(ImportRows)
<1> DEFINE staying == {row \in ToSet(table) : Entered(row)}  T == {x \in ImportRows : x \in staying}
<1>1. table \in Seq(ImportRows)
  BY DEF ImportInv, TableStands, TableIs
<1>2. NonEmptyRows \in Seq(T)
  <2>1. KeepsThose(ImportRows, table, staying)
    BY <1>1, ThoseAreKept
  <2> QED
    BY <2>1 DEF KeepsThose, NonEmptyRows
<1>3. \A x \in T : x \in ImportRows
  OBVIOUS
<1> HIDE DEF T, ImportRows
<1>4. \A i \in DOMAIN NonEmptyRows : NonEmptyRows[i] \in T
  BY <1>2
<1> QED
  BY <1>2, <1>3, <1>4, ListOfMembers

\* A row that passes becomes a contact with both names and addresses that can be used.
LEMMA ContactOfRow == ASSUME NEW row \in ImportRows, Valid(row) PROVE NewContact(row) \in ContactRows
<1>1. row.firstName \in Cells /\ row.lastName \in Cells /\ row.owner \in Owners \cup {Unassigned}
  BY DEF Valid, ImportRows, Values
<1>2. ASSUME NEW k \in Channels PROVE Filled(row.at[k]) \in Seq(Readable)
  <2> DEFINE s == row.at[k]  T == {x \in Values : x \in Cells}
  <2>1. s \in Seq(Values)
    BY DEF ImportRows
  <2>2. \A i \in DOMAIN s : s[i] = Empty \/ s[i] \in Readable
    BY DEF Valid
  <2> HIDE DEF s
  <2>3. Filled(s) \in Seq(T) /\ ToSet(Filled(s)) = {x \in ToSet(s) : x \in Cells}
    <3>1. KeepsThose(Values, s, Cells)
      BY <2>1, ThoseAreKept
    <3> QED
      BY <3>1 DEF KeepsThose, Filled
  <2>4. \A i \in DOMAIN Filled(s) : Filled(s)[i] \in Readable
    BY <2>2, <2>3, ImportConstants DEF ToSet
  <2> HIDE DEF T
  <2>5. Filled(s) \in Seq(Readable)
    BY <2>3, <2>4, ListOfMembers
  <2> QED
    BY <2>5 DEF s
<1> QED
  BY <1>1, <1>2 DEF NewContact, ContactRows

\* The review and what it asks for.
LEMMA AsksHold ==
  ASSUME ImportInv,
         \/ AskReview \/ ReviewArrives \/ BackToEdit \/ AskCreate \/ CreateContacts \/ AskFails \/ StartNewImport
         \/ \E id \in Ids : Toggle(id)
  PROVE  ImportInv'
<1>1. ASSUME UNCHANGED <<table, columns, selected, lastPaste, tableEdits>> PROVE TableStands' /\ LinesIn(table, lastPaste)'
  BY <1>1 DEF ImportInv, TableStands, TableIs, IdsOf, LinesIn
<1>2. CASE AskReview \/ AskCreate
  <2>1. asking'.rows \in Seq(ImportRows) /\ asking'.kind \in {"review", "create"} /\ UNCHANGED <<table, columns, selected, lastPaste, tableEdits, batches>>
    BY <1>2, EnteredAreRows DEF AskReview, AskCreate, Pending
  <2> QED
    BY <2>1, <1>1 DEF ImportInv, AskStands
<1>3. CASE ReviewArrives \/ BackToEdit \/ AskFails
  <2>1. asking' = NoAsk /\ UNCHANGED <<table, columns, selected, lastPaste, tableEdits, batches>>
    BY <1>3 DEF ReviewArrives, BackToEdit, AskFails, Pending
  <2> QED
    BY <2>1, <1>1 DEF ImportInv, AskStands, NoAsk
<1>4. CASE CreateContacts
  <2> DEFINE body == asking.rows  new == [i \in DOMAIN body |-> NewContact(body[i])]
  <2>1. /\ asking.kind = "create" /\ (\A i \in DOMAIN body : Valid(body[i])) /\ batches' = Append(batches, new)
        /\ asking'.kind = "created" /\ UNCHANGED <<table, columns, selected, lastPaste, tableEdits>>
    BY <1>4 DEF CreateContacts, StoresRows, Pending
  <2>2. body \in Seq(ImportRows)
    BY <2>1 DEF ImportInv, AskStands
  <2>3. Len(body) \in Nat /\ DOMAIN body = 1..Len(body) /\ \A i \in DOMAIN body : body[i] \in ImportRows
    <3> HIDE DEF ImportRows
    <3> QED
      BY <2>2
  <2>4. \A i \in DOMAIN body : new[i] \in ContactRows
    BY <2>1, <2>3, ContactOfRow
  <2>5. new = [i \in 1..Len(body) |-> new[i]]
    <3> HIDE DEF body
    <3> QED
      BY <2>3
  <2> HIDE DEF new, body
  <2>6. new \in Seq(ContactRows)
    BY <2>3, <2>4, <2>5, ListByMembers
  <2>7. \A S : \A q \in Seq(S), x \in S : Append(q, x) \in Seq(S)
    OBVIOUS
  <2>8. batches' \in Seq(Seq(ContactRows))
    BY <2>1, <2>6, <2>7 DEF ImportInv
  <2> QED
    BY <2>1, <2>8, <1>1 DEF ImportInv, AskStands
<1>5. CASE StartNewImport
  <2> DEFINE id == <<tableEdits, 0>>  row == EmptyRow(id, columns')
  <2>1. /\ columns' = [k \in Channels |-> 1] /\ table' = <<row>> /\ asking' = NoAsk /\ selected' = {} /\ lastPaste' = <<>>
        /\ UNCHANGED <<batches, tableEdits>>
    BY <1>5 DEF StartNewImport
  <2>2. columns' \in [Channels -> Nat] /\ id \in Nat \X Nat /\ id[1] = tableEdits /\ tableEdits \in Nat
    BY <2>1 DEF ImportInv, TableStands
  <2> HIDE DEF id
  <2>3. row \in ImportRows /\ row.id = id /\ \A k \in Channels : Len(row.at[k]) = columns'[k]
    BY <2>2, EmptyRowIs
  <2> HIDE DEF row
  <2>4. \A S, x : x \in S => <<x>> \in Seq(S) /\ DOMAIN <<x>> = {1} /\ <<x>>[1] = x
    OBVIOUS
  <2>5. table' \in Seq(ImportRows) /\ DOMAIN table' = {1} /\ table'[1] = row
    BY <2>1, <2>3, <2>4
  <2>6. \A i \in DOMAIN table' : table'[i].id[1] <= tableEdits' /\ \A k \in Channels : Len(table'[i].at[k]) = columns'[k]
    BY <2>1, <2>2, <2>3, <2>5
  <2>7. TableIs(table', columns', tableEdits')
    BY <2>2, <2>5, <2>6 DEF TableIs
  <2>8. LinesIn(table', lastPaste')
    BY <2>1 DEF LinesIn
  <2> QED
    BY <2>1, <2>2, <2>7, <2>8 DEF ImportInv, TableStands, TableIs, LinesIn, AskStands, NoAsk
<1>6. ASSUME NEW id \in Ids, Toggle(id) PROVE ImportInv'
  <2>1. selected' \subseteq selected \cup {id} /\ UNCHANGED <<table, columns, asking, batches, lastPaste, tableEdits>>
    BY <1>6 DEF Toggle
  <2>2. selected' \subseteq IdsOf(table)
    BY <2>1 DEF ImportInv, TableStands, IdsOf, Ids
  <2> QED
    BY <2>1, <2>2 DEF ImportInv, TableStands, TableIs, IdsOf, LinesIn, AskStands
<1> QED
  BY <1>2, <1>3, <1>4, <1>5, <1>6

-----------------------------------------------------------------------------
(* The import of contacts: pasted blocks *)

\* Rows as they are parsed from a paste.
ParsedRows ==
  [firstName : Values, lastName : Values, notes : Seq(Cells), owner : Owners \cup {Unassigned}, at : [Channels -> Seq(Cells)]]

\* Where the cells of a line are in the row it was read as.
FoundIn(cells, parsed, named) ==
  \A v \in cells :
    /\ v \in Cells
    /\ \/ named /\ v \in {parsed.firstName, parsed.lastName}
       \/ v \in ToSet(parsed.notes) \/ \E k \in Channels : v \in ToSet(parsed.at[k])

\* What is kept of a list is in the set.
LEMMA ThoseIn ==
  ASSUME NEW S, NEW list \in Seq(S), NEW set, NEW T, \A x \in S : x \in set => x \in T
  PROVE  Those(list, set) \in Seq(T) /\ \A x : x \in ToSet(Those(list, set)) <=> x \in ToSet(list) /\ x \in set
<1> DEFINE U == {x \in S : x \in set}  those == Those(list, set)
<1>1. KeepsThose(S, list, set)
  BY ThoseAreKept
<1>2. those \in Seq(U) /\ ToSet(those) = {x \in ToSet(list) : x \in set}
  BY <1>1 DEF KeepsThose
<1>3. \A x \in U : x \in T
  OBVIOUS
<1> HIDE DEF U, those
<1>4. \A i \in DOMAIN those : those[i] \in T
  BY <1>2, <1>3
<1>5. those \in Seq(T)
  BY <1>2, <1>4, ListOfMembers
<1> QED
  BY <1>2, <1>5 DEF those

\* The cells of a line that have something in them.
LEMMA FilledIs ==
  ASSUME NEW s \in Seq(Values)
  PROVE  Filled(s) \in Seq(Cells) /\ \A x : x \in ToSet(Filled(s)) <=> x \in ToSet(s) /\ x # Empty
<1>1. Filled(s) \in Seq(Cells) /\ \A x : x \in ToSet(Filled(s)) <=> x \in ToSet(s) /\ x \in Cells
  <2>1. \A x \in Values : x \in Cells => x \in Cells
    OBVIOUS
  <2> QED
    BY <2>1, ThoseIn DEF Filled
<1>2. \A x \in ToSet(s) : x \in Values
  <2> HIDE DEF Values
  <2> QED
    BY DEF ToSet
<1>3. \A x \in Values : x \in Cells <=> x # Empty
  BY ImportConstants DEF Values
<1> QED
  BY <1>1, <1>2, <1>3

\* A value of a line that stands under a header's cell.
IsUnder(x, header, head, line) ==
  \E j \in DOMAIN line : line[j] = x /\ x # Empty /\ j \in DOMAIN head /\ head[j] # Empty /\ HeaderOf[head[j]] = header

\* The cells of a line under the headers of one field.
LEMMA UnderIs ==
  ASSUME NEW header, NEW head \in Seq(Values), NEW line \in Seq(Values)
  PROVE  /\ Under(header, head, line) \in Seq(Cells)
         /\ \A x : x \in ToSet(Under(header, head, line)) <=> IsUnder(x, header, head, line)
<1> DEFINE s == [i \in DOMAIN line |-> IF i \in DOMAIN head /\ head[i] # Empty /\ HeaderOf[head[i]] = header THEN line[i] ELSE Empty]
<1>1. Len(line) \in Nat /\ DOMAIN line = 1..Len(line) /\ \A i \in DOMAIN line : line[i] \in Values
  <2> HIDE DEF Values
  <2> QED
    OBVIOUS
<1>2. Empty \in Values
  BY DEF Values
<1>3. s = [i \in 1..Len(line) |-> s[i]] /\ \A i \in 1..Len(line) : s[i] \in Values
  <2> HIDE DEF Values
  <2> QED
    BY <1>1, <1>2
<1>4. \A j \in DOMAIN line : s[j] = IF j \in DOMAIN head /\ head[j] # Empty /\ HeaderOf[head[j]] = header THEN line[j] ELSE Empty
  OBVIOUS
<1>5. Under(header, head, line) = Filled(s)
  BY DEF Under
<1> HIDE DEF s
<1>6. s \in Seq(Values) /\ DOMAIN s = DOMAIN line
  BY <1>1, <1>3, ListByMembers
<1>7. Filled(s) \in Seq(Cells) /\ \A x : x \in ToSet(Filled(s)) <=> x \in ToSet(s) /\ x # Empty
  BY <1>6, FilledIs
<1>8. \A x : x \in ToSet(s) <=> \E j \in DOMAIN line : s[j] = x
  BY <1>6 DEF ToSet
<1>9. ASSUME NEW x PROVE x \in ToSet(s) /\ x # Empty <=> IsUnder(x, header, head, line)
  BY <1>4, <1>8 DEF IsUnder
<1> QED
  BY <1>5, <1>7, <1>9

\* The last value of a line under one of the header's fields.
LEMMA LatestIs ==
  ASSUME NEW s \in Seq(Cells)
  PROVE  Latest(s) \in Values /\ ((\A x, y \in ToSet(s) : x = y) => \A x \in ToSet(s) : x = Latest(s))
<1>1. Len(s) \in Nat /\ DOMAIN s = 1..Len(s) /\ (\A i \in DOMAIN s : s[i] \in Cells) /\ (s # <<>> => Len(s) > 0)
  OBVIOUS
<1>2. CASE s = <<>>
  <2>1. ToSet(s) = {}
    BY <1>2 DEF ToSet
  <2> QED
    BY <2>1, <1>2 DEF Latest, Values
<1>3. CASE s # <<>>
  <2>1. Latest(s) = s[Len(s)] /\ Len(s) \in DOMAIN s
    BY <1>1, <1>3 DEF Latest
  <2>2. Latest(s) \in ToSet(s) /\ Latest(s) \in Cells
    BY <2>1, <1>1 DEF ToSet
  <2> QED
    BY <2>2 DEF Values
<1> QED
  BY <1>2, <1>3

\* A name finds one user, or nobody.
LEMMA MatchedIs == ASSUME NEW raw \in Values PROVE Matched(raw) \in Owners \cup {Unassigned}
<1> DEFINE users == UsersNamed[raw]
<1>1. CASE raw = Empty \/ Cardinality(users) # 1
  BY <1>1 DEF Matched
<1>2. CASE raw # Empty /\ Cardinality(users) = 1
  <2>1. users \in SUBSET Owners
    BY <1>2, ImportConstants DEF Values
  <2>2. users # {}
    BY <1>2, FS_EmptySet
  <2>3. Matched(raw) = CHOOSE o \in users : TRUE
    BY <1>2 DEF Matched
  <2> HIDE DEF users
  <2>4. (CHOOSE o \in users : TRUE) \in users
    BY <2>2
  <2> QED
    BY <2>1, <2>3, <2>4
<1> QED
  BY <1>1, <1>2

\* The lines of a block.
LEMMA LinesOfGrid ==
  ASSUME NEW grid \in Grids
  PROVE  /\ Len(grid) \in Nat /\ Len(grid) >= 1 /\ DOMAIN grid = 1..Len(grid)
         /\ \A i \in DOMAIN grid : grid[i] \in Seq(Values)
<1> DEFINE L == Seq(Values)
<1>1. grid \in Seq(L) /\ grid # <<>>
  BY GridsAreLines DEF Values
<1> HIDE DEF L
<1>2. Len(grid) \in Nat /\ Len(grid) >= 1 /\ DOMAIN grid = 1..Len(grid) /\ \A i \in DOMAIN grid : grid[i] \in L
  BY <1>1
<1> QED
  BY <1>2 DEF L


\* What a parsed block is.
ParsedAs(grid, parsed, named) ==
  /\ Len(parsed) \in Nat /\ Len(parsed) <= Len(grid) /\ DOMAIN parsed = 1..Len(parsed)
  /\ \A i \in DOMAIN parsed : parsed[i] \in ParsedRows
  /\ HasItsColumns(grid) =>
       \A i \in DOMAIN parsed : FoundIn(Wanted(grid, grid[Len(grid) - Len(parsed) + i]), parsed[i], named)

\* Blocks are parsed by their header, or by what their cells look like.
LEMMA ByHeaderIs == ASSUME NEW grid \in Grids, HasHeader(grid) PROVE ParsedAs(grid, ByHeader(grid), TRUE)
<1> DEFINE head == grid[1]
           line(i) == grid[i + 1]
           in(f, i) == Under(f, head, line(i))
           row(i) == [firstName |-> Latest(in("firstName", i)), lastName |-> Latest(in("lastName", i)), notes |-> in("notes", i),
                      at |-> [k \in Channels |-> in(k, i)], owner |-> Matched(Latest(in("assignedUser", i)))]
           n == Len(grid) - 1
           parsed == [i \in 1..n |-> row(i)]
<1>1. ByHeader(grid) = parsed
  BY DEF ByHeader
<1>2. n \in Nat /\ n <= Len(grid) /\ n + 1 = Len(grid) /\ head \in Seq(Values) /\ \A i \in 1..n : i + 1 \in DOMAIN grid /\ line(i) \in Seq(Values)
  BY LinesOfGrid
<1>3. ASSUME NEW i \in 1..n, NEW f
      PROVE  in(f, i) \in Seq(Cells) /\ \A x : x \in ToSet(in(f, i)) <=> IsUnder(x, f, head, line(i))
  <2> DEFINE cells == line(i)
  <2>1. head \in Seq(Values) /\ cells \in Seq(Values) /\ in(f, i) = Under(f, head, cells)
    BY <1>2
  <2> HIDE DEF head, in, cells
  <2>2. Under(f, head, cells) \in Seq(Cells) /\ \A x : x \in ToSet(Under(f, head, cells)) <=> IsUnder(x, f, head, cells)
    BY <2>1, UnderIs
  <2> QED
    BY <2>1, <2>2 DEF cells
<1> HIDE DEF in
<1>4. ASSUME NEW i \in 1..n PROVE row(i) \in ParsedRows
  <2>1. \A f : Latest(in(f, i)) \in Values
    BY <1>3, LatestIs
  <2>2. Matched(Latest(in("assignedUser", i))) \in Owners \cup {Unassigned}
    BY <2>1, MatchedIs
  <2> QED
    BY <2>1, <2>2, <1>3 DEF ParsedRows
<1>5. \A i \in 1..n : parsed[i] = row(i)
  OBVIOUS
<1>6. Len(parsed) = n /\ DOMAIN parsed = 1..n
  <2> HIDE DEF row, n
  <2> QED
    BY <1>2
<1>7. ASSUME HasItsColumns(grid), NEW i \in 1..n
      PROVE  FoundIn(Wanted(grid, line(i)), row(i), TRUE)
  <2> SUFFICES ASSUME NEW v \in Wanted(grid, line(i))
               PROVE  v \in Cells /\ (\/ v \in {row(i).firstName, row(i).lastName}
                                      \/ v \in ToSet(row(i).notes) \/ \E k \in Channels : v \in ToSet(row(i).at[k]))
    BY DEF FoundIn
  <2> PICK j \in DOMAIN line(i) : v = line(i)[j] /\ v # Empty /\ HeaderOf[head[j]] # "assignedUser"
    BY DEF Wanted
  <2>1. j \in DOMAIN head /\ head[j] # Empty
    <3>1. i + 1 \in 2..Len(grid)
      BY <1>2
    <3> QED
      BY <3>1, <1>7 DEF HasItsColumns
  <2>2. HeaderOf[head[j]] \in HeaderFields
    <3>1. head[j] \in Cells
      <4>1. head[j] \in Values
        <5> HIDE DEF head, Values
        <5> QED
          BY <1>2, <2>1
      <4> QED
        BY <4>1, <2>1 DEF Values
    <3>2. HeaderOf[head[j]] # "none"
      BY <2>1 DEF HasHeader
    <3> QED
      BY <3>1, <3>2, ImportConstants
  <2>3. v \in ToSet(in(HeaderOf[head[j]], i))
    BY <2>1, <1>3 DEF IsUnder
  <2>4. v \in Cells
    <3>1. \A S : \A q \in Seq(S) : \A x \in ToSet(q) : x \in S
      BY DEF ToSet
    <3> QED
      BY <2>3, <3>1, <1>3
  <2>5. CASE HeaderOf[head[j]] \in {"firstName", "lastName"}
    <3> DEFINE f == HeaderOf[head[j]]
    <3>1. \A j2 \in DOMAIN head : head[j2] # Empty /\ HeaderOf[head[j2]] = f => j2 = j
      BY <2>1, <2>5, <1>7 DEF HasItsColumns
    <3>2. \A x, y \in ToSet(in(f, i)) : x = y
      BY <3>1, <1>3 DEF IsUnder
    <3>3. v = Latest(in(f, i))
      BY <3>2, <2>3, <1>3, LatestIs
    <3> QED
      BY <3>3, <2>4, <2>5
  <2>6. CASE HeaderOf[head[j]] = "notes"
    BY <2>3, <2>4, <2>6
  <2>7. CASE HeaderOf[head[j]] \in Channels
    <3>1. row(i).at[HeaderOf[head[j]]] = in(HeaderOf[head[j]], i)
      BY <2>7
    <3> QED
      BY <2>3, <2>4, <2>7, <3>1
  <2> QED
    BY <2>2, <2>5, <2>6, <2>7 DEF HeaderFields
<1>8. \A i \in 1..n : grid[Len(grid) - n + i] = line(i)
  <2>1. \A i \in 1..n : Len(grid) - n + i = i + 1
    BY <1>2
  <2> QED
    BY <2>1
<1> HIDE DEF row, line, parsed, n, head
<1> QED
  BY <1>1, <1>2, <1>4, <1>5, <1>6, <1>7, <1>8 DEF ParsedAs

\* The members of the rest of a list.
LEMMA RestOfList ==
  ASSUME NEW S, NEW s \in Seq(S)
  PROVE  /\ SubSeq(s, 3, Len(s)) \in Seq(S)
         /\ \A j \in DOMAIN s : j > 2 => s[j] \in ToSet(SubSeq(s, 3, Len(s)))
<1> DEFINE rest == SubSeq(s, 3, Len(s))
<1>1. Len(s) \in Nat /\ DOMAIN s = 1..Len(s) /\ rest \in Seq(S)
  OBVIOUS
<1>2. ASSUME NEW j \in DOMAIN s, j > 2 PROVE s[j] \in ToSet(rest)
  <2>1. Len(s) >= 3 /\ j - 2 \in 1..(Len(s) - 2) /\ 3 + (j - 2) - 1 = j
    BY <1>1, <1>2
  <2>2. DOMAIN rest = 1..(Len(s) - 2) /\ \A n \in 1..(Len(s) - 2) : rest[n] = s[3 + n - 1]
    BY <1>1, <2>1
  <2>3. j - 2 \in DOMAIN rest /\ rest[j - 2] = s[j]
    BY <2>1, <2>2
  <2> HIDE DEF rest
  <2> QED
    BY <2>3 DEF ToSet
<1> QED
  BY <1>1, <1>2

LEMMA ByLooksIs == ASSUME NEW grid \in Grids, ~HasHeader(grid), NEW names \in BOOLEAN PROVE ParsedAs(grid, ByLooks(grid, names), names)
<1> DEFINE titled == names /\ Len(grid[1]) > 1 /\ \A i \in {1, 2} : grid[1][i] # Empty /\ HeaderOf[grid[1][i]] = <<"firstName", "lastName">>[i]
           lines == IF titled THEN Tail(grid) ELSE grid
           n == Len(lines)
           inName(line, i) == IF names /\ i <= Len(line) THEN line[i] ELSE Empty
           rest(line) == Filled(IF names THEN SubSeq(line, 3, Len(line)) ELSE line)
           looks(line, k) == Those(rest(line), {c \in Cells : CellKind[c] = k})
           row(line) == [firstName |-> inName(line, 1), lastName |-> inName(line, 2), owner |-> Unassigned,
                         notes |-> looks(line, "notes"), at |-> [k \in Channels |-> looks(line, k)]]
           parsed == [i \in DOMAIN lines |-> row(lines[i])]
<1>1. ByLooks(grid, names) = parsed
  BY DEF ByLooks
<1>2. /\ n \in Nat /\ n <= Len(grid) /\ DOMAIN lines = 1..n
      /\ \A i \in 1..n : lines[i] \in Seq(Values) /\ lines[i] = grid[Len(grid) - n + i]
  <2> DEFINE L == Seq(Values)
  <2>1. grid \in Seq(L) /\ grid # <<>>
    BY GridsAreLines DEF Values
  <2> HIDE DEF L, titled
  <2>2. /\ Len(grid) \in Nat /\ Len(grid) >= 1 /\ DOMAIN grid = 1..Len(grid) /\ \A i \in DOMAIN grid : grid[i] \in L
    BY <2>1
  <2>3. CASE titled
    <3>1. lines = Tail(grid)
      BY <2>3
    <3> HIDE DEF lines
    <3>2. n = Len(grid) - 1 /\ DOMAIN lines = 1..n /\ \A i \in 1..n : lines[i] = grid[i + 1]
      BY <3>1, <2>1, <2>2
    <3> HIDE DEF n
    <3>3. \A i \in 1..n : Len(grid) - n + i = i + 1 /\ i + 1 \in DOMAIN grid
      BY <3>2, <2>2
    <3>4. n \in Nat /\ n <= Len(grid)
      BY <3>2, <2>2
    <3> QED
      BY <3>2, <3>3, <3>4, <2>2 DEF L
  <2>4. CASE ~titled
    <3>1. lines = grid
      BY <2>4
    <3> HIDE DEF lines
    <3>2. n = Len(grid)
      BY <3>1
    <3> HIDE DEF n
    <3>3. \A i \in 1..n : Len(grid) - n + i = i
      BY <3>2, <2>2
    <3> QED
      BY <3>1, <3>2, <3>3, <2>2 DEF L
  <2> QED
    BY <2>3, <2>4
<1> HIDE DEF titled, lines, n
<1>3. ASSUME NEW line \in Seq(Values)
      PROVE  /\ \A k : looks(line, k) \in Seq(Cells)
             /\ \A j \in DOMAIN line : line[j] # Empty /\ (names => j > 2) => line[j] \in Cells /\ line[j] \in ToSet(looks(line, CellKind[line[j]]))
             /\ \A i \in {1, 2} : inName(line, i) \in Values /\ (names /\ i \in DOMAIN line => inName(line, i) = line[i])
  <2> DEFINE s == IF names THEN SubSeq(line, 3, Len(line)) ELSE line
  <2>1. s \in Seq(Values) /\ \A j \in DOMAIN line : (names => j > 2) => line[j] \in ToSet(s)
    <3>1. CASE names
      BY <3>1, RestOfList
    <3>2. CASE ~names
      BY <3>2 DEF ToSet
    <3> QED
      BY <3>1, <3>2
  <2> HIDE DEF s
  <2>2. Filled(s) \in Seq(Cells) /\ \A x : x \in ToSet(Filled(s)) <=> x \in ToSet(s) /\ x # Empty
    BY <2>1, FilledIs
  <2>3. rest(line) = Filled(s)
    BY DEF s
  <2>4. ASSUME NEW k PROVE looks(line, k) \in Seq(Cells) /\ \A x : x \in ToSet(looks(line, k)) <=> x \in ToSet(rest(line)) /\ x \in {c \in Cells : CellKind[c] = k}
    <3> DEFINE K == {c \in Cells : CellKind[c] = k}
    <3>1. looks(line, k) = Those(rest(line), K) /\ (\A x \in Cells : x \in K => x \in Cells) /\ rest(line) \in Seq(Cells)
      BY <2>2, <2>3
    <3> HIDE DEF K, rest, looks
    <3> QED
      BY <3>1, ThoseIn DEF K
  <2>5. ASSUME NEW j \in DOMAIN line, line[j] # Empty, names => j > 2 PROVE line[j] \in Cells /\ line[j] \in ToSet(looks(line, CellKind[line[j]]))
    <3>1. line[j] \in ToSet(rest(line))
      BY <2>1, <2>2, <2>3, <2>5
    <3>2. \A S : \A q \in Seq(S) : \A x \in ToSet(q) : x \in S
      BY DEF ToSet
    <3>3. line[j] \in Cells
      BY <3>1, <3>2, <2>2, <2>3
    <3> QED
      BY <3>1, <3>3, <2>4
  <2>6. \A i \in {1, 2} : inName(line, i) \in Values /\ (names /\ i \in DOMAIN line => inName(line, i) = line[i])
    <3>1. Len(line) \in Nat /\ DOMAIN line = 1..Len(line) /\ (\A i \in DOMAIN line : line[i] \in Values) /\ Empty \in Values
      <4>1. Empty \in Values
        BY DEF Values
      <4> HIDE DEF Values
      <4> QED
        BY <4>1
    <3> QED
      BY <3>1
  <2> QED
    BY <2>4, <2>5, <2>6
<1> HIDE DEF looks, inName
<1>4. ASSUME NEW line \in Seq(Values) PROVE row(line) \in ParsedRows
  BY <1>3 DEF ParsedRows
<1>5. ASSUME NEW line \in Seq(Values) PROVE FoundIn(Wanted(grid, line), row(line), names)
  <2> SUFFICES ASSUME NEW v \in Wanted(grid, line)
               PROVE  v \in Cells /\ (\/ names /\ v \in {row(line).firstName, row(line).lastName}
                                      \/ v \in ToSet(row(line).notes) \/ \E k \in Channels : v \in ToSet(row(line).at[k]))
    BY DEF FoundIn
  <2> PICK j \in DOMAIN line : v = line[j] /\ v # Empty
    BY DEF Wanted
  <2>1. v \in Cells
    <3>1. line[j] \in Values
      <4> HIDE DEF Values
      <4> QED
        OBVIOUS
    <3> QED
      BY <3>1 DEF Values
  <2>2. CASE names => j > 2
    <3>1. v \in ToSet(looks(line, CellKind[v])) /\ CellKind[v] \in Channels \cup {"notes"}
      BY <2>1, <2>2, <1>3, ImportConstants
    <3>2. row(line).notes = looks(line, "notes") /\ \A k \in Channels : row(line).at[k] = looks(line, k)
      OBVIOUS
    <3> HIDE DEF row
    <3> QED
      BY <2>1, <3>1, <3>2
  <2>3. CASE names /\ ~(j > 2)
    <3>1. j \in {1, 2}
      BY <2>3
    <3>2. inName(line, j) = v
      BY <3>1, <2>3, <1>3
    <3> QED
      BY <2>1, <2>3, <3>1, <3>2
  <2> QED
    BY <2>2, <2>3
<1>6. Len(parsed) = n /\ DOMAIN parsed = 1..n /\ \A i \in 1..n : parsed[i] = row(lines[i])
  <2> HIDE DEF row
  <2> QED
    BY <1>2
<1> HIDE DEF row, parsed
<1> QED
  BY <1>1, <1>2, <1>4, <1>5, <1>6 DEF ParsedAs

\* Either way rows come out as they are declared.
LEMMA ParsedIs ==
  ASSUME NEW grid \in Grids, NEW key
  PROVE  ParsedAs(grid, Parsed(grid, key), HasHeader(grid) \/ key = "firstName")
<1>1. CASE HasHeader(grid)
  BY <1>1, ByHeaderIs DEF Parsed
<1>2. CASE ~HasHeader(grid)
  <2>1. ParsedAs(grid, ByLooks(grid, key = "firstName"), key = "firstName")
    <3> DEFINE names == key = "firstName"
    <3>1. names \in BOOLEAN
      OBVIOUS
    <3> HIDE DEF names
    <3>2. ParsedAs(grid, ByLooks(grid, names), names)
      BY <1>2, <3>1, ByLooksIs
    <3> QED
      BY <3>2 DEF names
  <2> QED
    BY <1>2, <2>1 DEF Parsed
<1> QED
  BY <1>1, <1>2


\* A bounded set of numbers has a greatest.
LEMMA GreatestOf ==
  ASSUME NEW W \in SUBSET Nat, W # {}, NEW b \in Nat, \A w \in W : w <= b
  PROVE  \E m \in W : \A w \in W : w <= m
<1> DEFINE Bounds == {m \in Nat : \A w \in W : w <= m}
<1>1. Bounds # {} /\ Bounds \subseteq Nat
  OBVIOUS
<1>2. PICK m \in Bounds : \A y \in Bounds : ~(<<y, m>> \in OpToRel(<, Nat))
  BY <1>1, WFMin, NatLessThanWellFounded
<1>3. m \in Nat /\ (\A w \in W : w <= m) /\ \A y \in Bounds : ~(y < m)
  <2>1. \A y \in Bounds : ~(y < m)
    <3> HIDE DEF Bounds
    <3> QED
      BY <1>1, <1>2 DEF OpToRel
  <2> QED
    BY <2>1
<1>4. m \in W
  <2> SUFFICES ASSUME m \notin W PROVE FALSE
    OBVIOUS
  <2>1. \A w \in W : w \in Nat /\ w < m
    BY <1>3
  <2>2. m # 0
    <3> PICK w \in W : TRUE
      OBVIOUS
    <3>1. w \in Nat /\ w < m
      BY <2>1
    <3> QED
      BY <3>1
  <2>3. m - 1 \in Nat /\ m - 1 < m
    BY <1>3, <2>2
  <2>4. \A w \in W : w <= m - 1
    BY <1>3, <2>1
  <2>5. m - 1 \in Bounds
    BY <2>3, <2>4
  <2> QED
    BY <1>3, <2>3, <2>5
<1> QED
  BY <1>3, <1>4

\* The columns a block needs.
LEMMA WidestIs ==
  ASSUME NEW k \in Channels, columns[k] \in Nat, NEW parsed, NEW n \in Nat, DOMAIN parsed = 1..n, \A i \in DOMAIN parsed : parsed[i] \in ParsedRows
  PROVE  /\ Widest(parsed, k) \in Nat /\ columns[k] <= Widest(parsed, k)
         /\ \A i \in DOMAIN parsed : Len(parsed[i].at[k]) <= Widest(parsed, k)
<1> DEFINE width == [i \in 1..n |-> Len(parsed[i].at[k])]
           widths == {columns[k]} \cup {Len(parsed[i].at[k]) : i \in DOMAIN parsed}
<1>1. \A i \in DOMAIN parsed : Len(parsed[i].at[k]) \in Nat
  <2> SUFFICES ASSUME NEW i \in DOMAIN parsed PROVE Len(parsed[i].at[k]) \in Nat
    OBVIOUS
  <2>1. parsed[i].at[k] \in Seq(Cells)
    BY DEF ParsedRows
  <2> QED
    BY <2>1
<1>2. \A i \in 1..n : width[i] = Len(parsed[i].at[k]) /\ width[i] \in Nat
  BY <1>1
<1> HIDE DEF width
<1>3. PICK b \in Nat : \A i \in 1..n : width[i] <= b
  BY <1>2, BoundOfList
<1>4. b + columns[k] \in Nat /\ \A w \in widths : w <= b + columns[k]
  <2>1. b + columns[k] \in Nat /\ columns[k] <= b + columns[k]
    OBVIOUS
  <2>2. \A i \in DOMAIN parsed : Len(parsed[i].at[k]) <= b + columns[k]
    BY <1>2, <1>3
  <2> QED
    BY <2>1, <2>2
<1>5. widths \in SUBSET Nat /\ widths # {}
  BY <1>1
<1>6. Widest(parsed, k) = CHOOSE m \in widths : \A w \in widths : w <= m
  BY DEF Widest
<1>7. columns[k] \in widths /\ \A i \in DOMAIN parsed : Len(parsed[i].at[k]) \in widths
  OBVIOUS
<1> HIDE DEF widths
<1>8. \E m \in widths : \A w \in widths : w <= m
  BY <1>4, <1>5, GreatestOf
<1>9. Widest(parsed, k) \in widths /\ \A w \in widths : w <= Widest(parsed, k)
  BY <1>6, <1>8
<1> QED
  BY <1>5, <1>7, <1>9

\* What two lists hold together.
LEMMA JoinedLists ==
  ASSUME NEW S, NEW s \in Seq(S), NEW t \in Seq(S)
  PROVE  s \o t \in Seq(S) /\ ToSet(t) \subseteq ToSet(s \o t)
<1>1. /\ Len(s) \in Nat /\ Len(t) \in Nat /\ DOMAIN t = 1..Len(t) /\ s \o t \in Seq(S) /\ DOMAIN (s \o t) = 1..(Len(s) + Len(t))
      /\ \A j \in 1..Len(t) : (s \o t)[Len(s) + j] = t[j]
  OBVIOUS
<1>2. \A j \in DOMAIN t : Len(s) + j \in DOMAIN (s \o t) /\ (s \o t)[Len(s) + j] = t[j]
  BY <1>1
<1> QED
  BY <1>1, <1>2 DEF ToSet

\* A row that a line is pasted onto.
LEMMA OntoIs ==
  ASSUME NEW row \in ImportRows, NEW parsed \in ParsedRows, NEW cols \in [Channels -> Nat], NEW named \in BOOLEAN
  PROVE  LET new == Onto(row, parsed, cols, named) IN
         /\ new \in ImportRows /\ new.id = row.id /\ \A k \in Channels : Len(new.at[k]) = cols[k]
         /\ \A cells : (\A k \in Channels : Len(parsed.at[k]) <= cols[k]) /\ FoundIn(cells, parsed, named) =>
              cells \subseteq {new.firstName, new.lastName} \cup ToSet(new.notes) \cup UNION {ToSet(new.at[k]) : k \in Channels}
<1> DEFINE values(k) == IF parsed.at[k] # <<>> THEN parsed.at[k] ELSE row.at[k]
           lists == [k \in Channels |-> Padded(values(k), cols[k])]
           notes == row.notes \o parsed.notes
           first == IF named /\ parsed.firstName # Empty THEN parsed.firstName ELSE row.firstName
           last == IF named /\ parsed.lastName # Empty THEN parsed.lastName ELSE row.lastName
           owner == IF parsed.owner # Unassigned THEN parsed.owner ELSE row.owner
           new == [id |-> row.id, firstName |-> first, lastName |-> last, notes |-> notes, owner |-> owner, at |-> lists]
<1>1. Onto(row, parsed, cols, named) = new
  BY DEF Onto
<1>2. ASSUME NEW k \in Channels
      PROVE  /\ lists[k] \in Seq(Values) /\ Len(lists[k]) = cols[k]
             /\ Len(parsed.at[k]) <= cols[k] => ToSet(parsed.at[k]) \subseteq ToSet(lists[k])
  <2>1. parsed.at[k] \in Seq(Cells) /\ row.at[k] \in Seq(Values)
    BY DEF ParsedRows, ImportRows
  <2>2. \A s \in Seq(Cells) : s \in Seq(Values)
    <3> SUFFICES ASSUME NEW s \in Seq(Cells) PROVE s \in Seq(Values)
      OBVIOUS
    <3>1. \A i \in DOMAIN s : s[i] \in Values
      BY DEF Values
    <3> QED
      BY <3>1, ListOfMembers
  <2>3. values(k) \in Seq(Values) /\ (parsed.at[k] # <<>> => values(k) = parsed.at[k])
    BY <2>1, <2>2
  <2>4. lists[k] = Padded(values(k), cols[k])
    OBVIOUS
  <2> HIDE DEF values, lists
  <2>5. lists[k] \in Seq(Values) /\ Len(lists[k]) = cols[k] /\ (Len(values(k)) <= cols[k] => ToSet(values(k)) \subseteq ToSet(lists[k]))
    BY <2>3, <2>4, PaddedIs
  <2>6. parsed.at[k] = <<>> => ToSet(parsed.at[k]) = {}
    BY DEF ToSet
  <2> QED
    BY <2>3, <2>5, <2>6
<1> HIDE DEF values
<1>3. lists \in [Channels -> Seq(Values)]
  <2>1. lists = [k \in Channels |-> lists[k]]
    OBVIOUS
  <2> HIDE DEF lists
  <2> QED
    BY <2>1, <1>2
<1> HIDE DEF lists
<1>4. notes \in Seq(Cells) /\ ToSet(parsed.notes) \subseteq ToSet(notes)
  <2>1. row.notes \in Seq(Cells) /\ parsed.notes \in Seq(Cells)
    BY DEF ParsedRows, ImportRows
  <2> QED
    BY <2>1, JoinedLists
<1> HIDE DEF notes
<1>5. first \in Values /\ last \in Values /\ owner \in Owners \cup {Unassigned}
  BY DEF ParsedRows, ImportRows
<1>6. new \in ImportRows /\ new.id = row.id
  <2> HIDE DEF first, last, owner
  <2> QED
    BY <1>3, <1>4, <1>5 DEF ImportRows
<1>7. ASSUME NEW cells, \A k \in Channels : Len(parsed.at[k]) <= cols[k], FoundIn(cells, parsed, named), NEW v \in cells
      PROVE  v \in {first, last} \cup ToSet(notes) \cup UNION {ToSet(lists[k]) : k \in Channels}
  <2>1. CASE named /\ v \in {parsed.firstName, parsed.lastName}
    <3>1. v # Empty
      BY <1>7, ImportConstants DEF FoundIn
    <3> QED
      BY <2>1, <3>1
  <2>2. CASE v \in ToSet(parsed.notes)
    BY <2>2, <1>4
  <2>3. CASE \E k \in Channels : v \in ToSet(parsed.at[k])
    <3> PICK k \in Channels : v \in ToSet(parsed.at[k])
      BY <2>3
    <3>1. v \in ToSet(lists[k])
      BY <1>2, <1>7
    <3> QED
      BY <3>1
  <2> QED
    BY <1>7, <2>1, <2>2, <2>3 DEF FoundIn
<1> HIDE DEF first, last, owner
<1> QED
  BY <1>1, <1>2, <1>6, <1>7


\* A paste keeps the table square and lays its lines into it.
LEMMA PasteHolds ==
  ASSUME ImportInv, NEW grid \in Grids, NEW first \in DOMAIN table, NEW key, PasteCells(grid, first, key)
  PROVE  ImportInv'
<1> DEFINE named == HasHeader(grid) \/ key = "firstName"
           parsed == Parsed(grid, key)
           cols == [k \in Channels |-> Widest(parsed, k)]
           last == first - 1 + Len(parsed)
           N == IF last > Len(table) THEN last ELSE Len(table)
           before(i) == IF i <= Len(table) THEN table[i] ELSE EmptyRow(NewId(i), cols)
           wide(row) == [row EXCEPT !.at = [k \in Channels |-> Padded(@[k], cols[k])]]
           body == [i \in 1..N |-> IF i \in first..last THEN Onto(before(i), parsed[i - first + 1], cols, named) ELSE wide(before(i))]
           lines == IF ~HasItsColumns(grid) THEN <<>>
                    ELSE [i \in DOMAIN parsed |-> [row |-> first - 1 + i, cells |-> Wanted(grid, grid[Len(grid) - Len(parsed) + i])]]
<1>1. Changes(body, cols, selected, lines)
  BY DEF PasteCells, PasteAs
<1>2. ParsedAs(grid, parsed, named)
  BY ParsedIs
<1>3. Len(parsed) \in Nat /\ DOMAIN parsed = 1..Len(parsed) /\ \A i \in DOMAIN parsed : parsed[i] \in ParsedRows
  BY <1>2 DEF ParsedAs
<1>4. named \in BOOLEAN /\ tableEdits \in Nat
  BY DEF ImportInv, TableStands
<1> HIDE DEF named, parsed
<1>5. ASSUME NEW k \in Channels
      PROVE  cols[k] \in Nat /\ columns[k] <= cols[k] /\ \A i \in DOMAIN parsed : Len(parsed[i].at[k]) <= cols[k]
  <2>1. columns[k] \in Nat
    BY RowsOfTable
  <2> QED
    BY <2>1, <1>3, WidestIs
<1>6. cols \in [Channels -> Nat]
  BY <1>5
<1> HIDE DEF cols
<1>7. last \in Nat /\ N \in Nat /\ Len(table) <= N /\ last <= N /\ first \in 1..Len(table) /\ Len(table) \in Nat
  BY <1>3, RowsOfTable
<1>8. ASSUME NEW i \in 1..N
      PROVE  /\ before(i) \in ImportRows
             /\ i <= Len(table) => before(i) = table[i]
             /\ i > Len(table) => before(i).id = NewId(i)
             /\ \A k \in Channels : Len(before(i).at[k]) <= cols[k] /\ before(i).at[k] \in Seq(Values)
  <2>1. CASE i <= Len(table)
    <3>1. i \in DOMAIN table /\ before(i) = table[i]
      BY <1>7, <2>1, RowsOfTable
    <3> HIDE DEF before
    <3>2. \A k \in Channels : Len(table[i].at[k]) = columns[k] /\ columns[k] \in Nat /\ table[i].at[k] \in Seq(Values)
      BY <3>1, RowsOfTable
    <3>3. table[i] \in ImportRows /\ ~(i > Len(table))
      BY <1>7, <2>1, <3>1, RowsOfTable
    <3> QED
      BY <1>5, <3>1, <3>2, <3>3
  <2>2. CASE ~(i <= Len(table))
    <3>1. before(i) = EmptyRow(NewId(i), cols) /\ NewId(i) \in Nat \X Nat
      BY <1>4, <1>7, <2>2 DEF NewId
    <3> HIDE DEF before
    <3>2. before(i) \in ImportRows /\ before(i).id = NewId(i) /\ \A k \in Channels : Len(before(i).at[k]) = cols[k]
      BY <3>1, <1>6, EmptyRowIs
    <3>3. \A k \in Channels : before(i).at[k] \in Seq(Values)
      BY <3>2 DEF ImportRows
    <3> QED
      BY <1>5, <2>2, <3>2, <3>3
  <2> QED
    BY <2>1, <2>2
<1> HIDE DEF before, last, N
<1>9. ASSUME NEW row \in ImportRows, \A k \in Channels : row.at[k] \in Seq(Values)
      PROVE  wide(row) \in ImportRows /\ wide(row).id = row.id /\ \A k \in Channels : Len(wide(row).at[k]) = cols[k]
  <2> DEFINE lists == [k \in Channels |-> Padded(row.at[k], cols[k])]
  <2>1. \A k \in Channels : Padded(row.at[k], cols[k]) \in Seq(Values) /\ Len(Padded(row.at[k], cols[k])) = cols[k]
    BY <1>5, <1>9, PaddedIs
  <2>2. lists \in [Channels -> Seq(Values)] /\ \A k \in Channels : Len(lists[k]) = cols[k]
    BY <2>1
  <2>3. wide(row) = [row EXCEPT !.at = lists]
    BY DEF ImportRows
  <2> HIDE DEF wide, lists
  <2>4. wide(row) \in ImportRows /\ wide(row).id = row.id /\ wide(row).at = lists
    BY <2>2, <2>3 DEF ImportRows
  <2> QED
    BY <2>2, <2>4
<1> HIDE DEF wide
<1>10. ASSUME NEW i \in first..last
       PROVE  i - first + 1 \in DOMAIN parsed /\ i \in 1..N
  BY <1>3, <1>7 DEF last
<1>11. \A i \in 1..N : body[i] = IF i \in first..last THEN Onto(before(i), parsed[i - first + 1], cols, named) ELSE wide(before(i))
  OBVIOUS
<1>12. body = [i \in 1..N |-> body[i]]
  OBVIOUS
<1> HIDE DEF body
<1>13. ASSUME NEW i \in 1..N
       PROVE  body[i] \in ImportRows /\ body[i].id = before(i).id /\ \A k \in Channels : Len(body[i].at[k]) = cols[k]
  <2>1. CASE i \in first..last
    <3> DEFINE line == parsed[i - first + 1]
    <3>1. line \in ParsedRows /\ body[i] = Onto(before(i), line, cols, named) /\ before(i) \in ImportRows
      BY <2>1, <1>3, <1>8, <1>10, <1>11
    <3> HIDE DEF line
    <3> QED
      BY <3>1, <1>4, <1>6, OntoIs
  <2>2. CASE i \notin first..last
    <3>1. body[i] = wide(before(i))
      BY <2>2, <1>11
    <3> QED
      BY <3>1, <1>8, <1>9
  <2> QED
    BY <2>1, <2>2
<1>14. body \in Seq(ImportRows) /\ DOMAIN body = 1..N
  BY <1>7, <1>12, <1>13, ListByMembers
<1>15. \A i \in DOMAIN table : i \in 1..N /\ before(i) = table[i] /\ body[i].id = table[i].id
  <2>1. \A i \in DOMAIN table : i \in 1..N /\ i <= Len(table)
    BY <1>7, RowsOfTable
  <2> QED
    BY <2>1, <1>8, <1>13
<1>16. \A i \in DOMAIN table : table[i].id[1] \in Nat /\ table[i].id[1] <= tableEdits
  BY RowsOfTable DEF ImportRows, ImportInv, TableStands, TableIs
<1>17. ASSUME NEW i \in 1..N
       PROVE  \/ i \in DOMAIN table /\ body[i].id = table[i].id
              \/ i \notin DOMAIN table /\ body[i].id = NewId(i)
  <2>1. CASE i <= Len(table)
    BY <2>1, <1>15, RowsOfTable, <1>7
  <2>2. CASE i > Len(table)
    BY <2>2, <1>8, <1>13, RowsOfTable, <1>7
  <2> QED
    BY <2>1, <2>2, <1>7
<1>18. \A i \in 1..N : NewId(i)[1] = tableEdits + 1 /\ NewId(i)[2] = i
  BY DEF NewId
<1>19. \A i \in DOMAIN body : body[i].id[1] <= tableEdits + 1
  BY <1>4, <1>14, <1>16, <1>17, <1>18
<1>20. \A i, j \in DOMAIN body : body[i].id = body[j].id => i = j
  <2> SUFFICES ASSUME NEW i \in 1..N, NEW j \in 1..N, body[i].id = body[j].id PROVE i = j
    BY <1>14
  <2>1. CASE i \in DOMAIN table /\ j \in DOMAIN table
    BY <2>1, <1>17 DEF ImportInv, TableStands, TableIs
  <2>2. CASE i \notin DOMAIN table /\ j \notin DOMAIN table
    BY <2>2, <1>17, <1>18
  <2>3. \A a \in DOMAIN table, b \in 1..N : table[a].id # NewId(b)
    BY <1>4, <1>16, <1>18
  <2> QED
    BY <2>1, <2>2, <2>3, <1>17
<1>21. TableIs(body, cols, tableEdits + 1)
  BY <1>6, <1>13, <1>14, <1>19, <1>20 DEF TableIs
<1>22. selected \subseteq IdsOf(body)
  BY <1>14, <1>15 DEF ImportInv, TableStands, IdsOf
<1>23. LinesIn(body, lines)
  <2>1. CASE ~HasItsColumns(grid)
    BY <2>1, NoLines
  <2>2. CASE HasItsColumns(grid)
    <3>1. /\ lines = [i \in DOMAIN parsed |-> [row |-> first - 1 + i, cells |-> Wanted(grid, grid[Len(grid) - Len(parsed) + i])]]
      BY <2>2
    <3> SUFFICES ASSUME NEW j \in DOMAIN parsed
                 PROVE  LET row == body[first - 1 + j] IN
                        Wanted(grid, grid[Len(grid) - Len(parsed) + j]) \subseteq
                          {row.firstName, row.lastName} \cup ToSet(row.notes) \cup UNION {ToSet(row.at[k]) : k \in Channels}
      BY <3>1 DEF LinesIn
    <3> DEFINE r == first - 1 + j
    <3>2. r \in first..last /\ r - first + 1 = j /\ r \in 1..N
      BY <1>3, <1>7, <1>10 DEF last
    <3> HIDE DEF r
    <3>3. body[r] = Onto(before(r), parsed[j], cols, named) /\ before(r) \in ImportRows /\ parsed[j] \in ParsedRows
      BY <3>2, <1>3, <1>8, <1>11
    <3>4. FoundIn(Wanted(grid, grid[Len(grid) - Len(parsed) + j]), parsed[j], named)
      BY <2>2, <1>2 DEF ParsedAs
    <3> DEFINE cells == Wanted(grid, grid[Len(grid) - Len(parsed) + j])  line == parsed[j]
    <3>5. \A k \in Channels : Len(line.at[k]) <= cols[k]
      BY <1>5
    <3>6. FoundIn(cells, line, named) /\ body[r] = Onto(before(r), line, cols, named) /\ before(r) \in ImportRows /\ line \in ParsedRows
      BY <3>3, <3>4
    <3> HIDE DEF cells, line
    <3>7. LET row == body[r] IN cells \subseteq {row.firstName, row.lastName} \cup ToSet(row.notes) \cup UNION {ToSet(row.at[k]) : k \in Channels}
      BY <3>5, <3>6, <1>4, <1>6, OntoIs
    <3> QED
      BY <3>7 DEF cells, r
  <2> QED
    BY <2>1, <2>2
<1> HIDE DEF lines
<1> QED
  BY <1>1, <1>21, <1>22, <1>23, ChangesHold

\* Every change keeps the invariant.
LEMMA ImportStep == ASSUME ImportInv, [BulkImportNext]_importVars PROVE ImportInv'
<1>1. CASE UNCHANGED importVars
  BY <1>1 DEF importVars, ImportInv, TableStands, TableIs, IdsOf, LinesIn, AskStands
<1>2. CASE AddRow
  BY <1>2, AddRowHolds
<1>3. CASE \/ AskReview \/ ReviewArrives \/ BackToEdit \/ AskCreate \/ CreateContacts \/ AskFails \/ StartNewImport
           \/ \E id \in Ids : Toggle(id)
  BY <1>3, AsksHold
<1>4. ASSUME NEW k \in Channels, AddColumn(k) \/ \E c \in 1..MaxColumns : RemoveColumn(k, c) PROVE ImportInv'
  BY <1>4, ColumnsHold
<1>5. ASSUME NEW ids \in SUBSET Ids, RemoveRows(ids) PROVE ImportInv'
  BY <1>5, RemovesHold
<1>6. ASSUME NEW i \in DOMAIN table, NEW k \in Channels, NEW v \in {Empty} \cup {c \in Cells : CellKind[c] = k}, TypeCell(i, k, v)
      PROVE  ImportInv'
  <2>1. v \in Values
    BY DEF Values
  <2> QED
    BY <2>1, <1>6, CellsHold
<1>7. ASSUME NEW o \in Owners, AssignRows(o) PROVE ImportInv'
  BY <1>7, AssignHolds
<1>8. ASSUME NEW grid \in Grids, NEW i \in DOMAIN table, NEW key \in {"firstName", "email"}, PasteCells(grid, i, key) PROVE ImportInv'
  BY <1>8, PasteHolds
<1> QED
  BY <1>1, <1>2, <1>3, <1>4, <1>5, <1>6, <1>7, <1>8 DEF BulkImportNext

\* The promises, from the invariant.
LEMMA ImportPromises == ASSUME ImportInv PROVE ImportsAreHonest
<1>1. Cardinality(Ids) = Len(table)
  <2> DEFINE idAt == [i \in DOMAIN table |-> table[i].id]
  <2>1. idAt \in Bijection(1..Len(table), Ids)
    <3>1. DOMAIN table = 1..Len(table)
      BY RowsOfTable
    <3>2. idAt \in [1..Len(table) -> Ids]
      BY <3>1 DEF Ids
    <3>3. \A i, j \in 1..Len(table) : idAt[i] = idAt[j] => i = j
      BY <3>1 DEF ImportInv, TableStands, TableIs
    <3>4. \A x \in Ids : \E i \in 1..Len(table) : idAt[i] = x
      BY <3>1 DEF Ids
    <3> HIDE DEF idAt
    <3> QED
      BY <3>2, <3>3, <3>4 DEF Bijection, Injection, Surjection, IsInjective
  <2> HIDE DEF idAt
  <2>2. IsFiniteSet(1..Len(table)) /\ Cardinality(1..Len(table)) = IF 1 > Len(table) THEN 0 ELSE Len(table) - 1 + 1
    BY RowsOfTable, FS_Interval
  <2>3. Cardinality(1..Len(table)) = Len(table)
    BY <2>2, RowsOfTable
  <2>4. Cardinality(Ids) = Cardinality(1..Len(table))
    <3> DEFINE n == 1..Len(table)
    <3>1. IsFiniteSet(n) /\ idAt \in Bijection(n, Ids)
      BY <2>1, <2>2
    <3> HIDE DEF n
    <3>2. Cardinality(n) = Cardinality(Ids)
      BY <3>1, FS_Bijection DEF ExistsBijection
    <3> QED
      BY <3>2 DEF n
  <2> QED
    BY <2>3, <2>4
<1>2. TableIsSquare
  BY <1>1, RowsOfTable DEF TableIsSquare, ImportInv, TableStands, IdsOf, Ids
<1>3. NothingPastedIsLost
  BY DEF NothingPastedIsLost, ImportInv, LinesIn
<1>4. CreatedRowsAreValid
  <2> DEFINE L == Seq(ContactRows)
  <2>1. batches \in Seq(L)
    BY DEF ImportInv
  <2> HIDE DEF L
  <2>2. \A b \in DOMAIN batches : batches[b] \in L
    BY <2>1
  <2>3. \A s \in L : \A i \in DOMAIN s : s[i] \in ContactRows
    <3> HIDE DEF ContactRows
    <3> QED
      BY DEF L
  <2>4. \A q \in Seq(Readable) : ToSet(q) \subseteq Readable
    BY DEF ToSet
  <2>5. \A c \in ContactRows : c.firstName # Empty /\ c.lastName # Empty /\ \A k \in Channels : ToSet(c.at[k]) \subseteq Readable
    BY <2>4, ImportConstants DEF ContactRows
  <2> QED
    BY <2>2, <2>3, <2>5 DEF CreatedRowsAreValid
<1> QED
  BY <1>2, <1>3, <1>4 DEF ImportsAreHonest

\* The import keeps its word: a square table, nothing pasted is lost, and every contact
\* created is valid (bulk-contact-import.tsx:104-222, actions/bulk-contacts.ts:126-139).
THEOREM ImportsHold == BulkImportSpec => []ImportsAreHonest
<1>1. BulkImportInit => ImportInv
  BY ImportStarts
<1>2. ImportInv /\ [BulkImportNext]_importVars => ImportInv'
  BY ImportStep
<1>3. ImportInv => ImportsAreHonest
  BY ImportPromises
<1> QED
  BY <1>1, <1>2, <1>3, PTL DEF BulkImportSpec

-----------------------------------------------------------------------------
(* All of it together: one part moves and the others stand still. *)

\* Itineraries are pasted on days of their own.
DeskInv ==
  /\ ViewInv /\ ReportInv /\ (focus # "itineraries" => CalendarInv)
  /\ FormInv /\ BookInv /\ TicketInv
  /\ DeskListsInv /\ DialogInv /\ EditorInv /\ ImportInv

\* Every part starts in its invariant.
LEMMA DeskStarts == ASSUME DeskInit PROVE DeskInv
<1>1. /\ ViewInit /\ ReportInit /\ FormInit /\ BookingFormInit /\ TicketingFormInit /\ LeadDeskInit
      /\ NewLeadInit /\ AccountEditorInit /\ BulkImportInit
  BY Zenon DEF DeskInit
<1>2. focus # "itineraries" => CalendarInit
  BY Zenon DEF DeskInit
<1> QED
  BY <1>1, <1>2, CalendarStarts, ViewInitInv, ReportStarts, FormStarts, BookingStarts, TicketInit, DeskListsStart, DialogStarts, EditorStarts, ImportStarts DEF DeskInv

\* What moves is one part, and what it leaves alone.
LEMMA OnePartMoves ==
  ASSUME DeskMoves
  PROVE  \/ ViewNext /\ OnlyView
         \/ CalendarNext /\ OnlyDays
         \/ ReportNext /\ OnlyReports
         \/ GdsNext /\ OnlyGds
         \/ FormNext /\ OnlyQuote
         \/ BookingFormNext /\ OnlyBooking
         \/ TicketingFormNext /\ OnlyTickets
         \/ BulkImportNext /\ OnlyImport
         \/ LeadDeskNext /\ OnlyLead
         \/ NewLeadNext /\ OnlyNew
         \/ AccountEditorNext /\ OnlyAccount
BY Zenon DEF DeskMoves, LeadDeskNext, AccountEditorNext

\* A step of the desk is, for each part, one of its own or none.
DeskPartMoves ==
  /\ [ViewNext]_viewVars /\ [ReportNext]_reportVars /\ [FormNext]_formVars /\ [BookingFormNext]_bookingFormVars
  /\ [TicketingFormNext]_ticketingVars /\ [LeadDeskNext]_leadDeskVars /\ [NewLeadNext]_newLeadVars
  /\ [AccountEditorNext]_accountEditorVars /\ [BulkImportNext]_importVars
  /\ [CalendarNext]_today /\ UNCHANGED focus

LEMMA PartsMove == ASSUME [DeskNext]_deskVars PROVE DeskPartMoves
<1>0. UNCHANGED focus
  BY DEF DeskNext, deskVars
<1>1. CASE ViewNext /\ OnlyView
  BY <1>0, <1>1, SMT DEF OnlyView, readings, gdsVars, customerForms, officeForms, DeskPartMoves
<1>2. CASE CalendarNext /\ OnlyDays
  BY <1>0, <1>2, SMT DEF OnlyDays, readings, gdsVars, customerForms, officeForms, DeskPartMoves
<1>3. CASE ReportNext /\ OnlyReports
  BY <1>0, <1>3, SMT DEF OnlyReports, readings, gdsVars, customerForms, officeForms, DeskPartMoves
<1>4. CASE GdsNext /\ OnlyGds
  <2>1. UNCHANGED today
    BY <1>4 DEF GdsNext, PasteItinerary
  <2> QED
    BY <1>0, <1>4, <2>1, SMT DEF OnlyGds, readings, customerForms, officeForms, DeskPartMoves
<1>5. CASE FormNext /\ OnlyQuote
  BY <1>0, <1>5, SMT DEF OnlyQuote, readings, gdsVars, customerForms, officeForms, DeskPartMoves
<1>6. CASE BookingFormNext /\ OnlyBooking
  BY <1>0, <1>6, SMT DEF OnlyBooking, readings, gdsVars, customerForms, officeForms, DeskPartMoves
<1>7. CASE TicketingFormNext /\ OnlyTickets
  BY <1>0, <1>7, SMT DEF OnlyTickets, readings, gdsVars, customerForms, officeForms, DeskPartMoves
<1>8. CASE BulkImportNext /\ OnlyImport
  BY <1>0, <1>8, SMT DEF OnlyImport, readings, gdsVars, customerForms, officeForms, DeskPartMoves
<1>9. CASE LeadDeskNext /\ OnlyLead
  BY <1>0, <1>9, SMT DEF OnlyLead, readings, gdsVars, customerForms, officeForms, DeskPartMoves
<1>10. CASE NewLeadNext /\ OnlyNew
  BY <1>0, <1>10, SMT DEF OnlyNew, readings, gdsVars, customerForms, officeForms, DeskPartMoves
<1>11. CASE AccountEditorNext /\ OnlyAccount
  BY <1>0, <1>11, SMT DEF OnlyAccount, readings, gdsVars, customerForms, officeForms, DeskPartMoves
<1>12. CASE UNCHANGED deskVars
  BY <1>12, SMT DEF deskVars, readings, gdsVars, customerForms, officeForms, DeskPartMoves
<1> QED
  BY <1>1, <1>2, <1>3, <1>4, <1>5, <1>6, <1>7, <1>8, <1>9, <1>10, <1>11, <1>12, OnePartMoves DEF DeskNext

\* And so every step keeps all invariants.
LEMMA DeskStep == DeskInv /\ [DeskNext]_deskVars => DeskInv'
<1> SUFFICES ASSUME DeskInv, [DeskNext]_deskVars PROVE DeskInv'
  OBVIOUS
<1>1. DeskPartMoves
  BY PartsMove
<1>11. (focus # "itineraries" => CalendarInv)'
  <2>1. UNCHANGED focus /\ [CalendarNext]_today
    BY <1>1 DEF DeskPartMoves
  <2> QED
    BY <2>1, CalendarStep DEF DeskInv
<1>2. ViewInv'
  BY <1>1, ViewStep DEF DeskInv, DeskPartMoves
<1>3. ReportInv'
  BY <1>1, ReportStep DEF DeskInv, DeskPartMoves
<1>4. FormInv'
  BY <1>1, FormStep DEF DeskInv, DeskPartMoves
<1>5. BookInv'
  BY <1>1, BookingStep DEF DeskInv, DeskPartMoves
<1>6. TicketInv'
  BY <1>1, TicketStep DEF DeskInv, DeskPartMoves
<1>7. DeskListsInv'
  BY <1>1, DeskListsStep DEF DeskInv, DeskPartMoves
<1>8. DialogInv'
  BY <1>1, DialogStep DEF DeskInv, DeskPartMoves
<1>9. EditorInv'
  BY <1>1, EditorStep DEF DeskInv, DeskPartMoves
<1>10. ImportInv'
  BY <1>1, ImportStep DEF DeskInv, DeskPartMoves
<1> QED
  BY <1>2, <1>3, <1>4, <1>5, <1>6, <1>7, <1>8, <1>9, <1>10, <1>11 DEF DeskInv

LEMMA DeskKeepsInv == DeskSpec => []DeskInv
<1>1. DeskInit => DeskInv
  BY DeskStarts
<1>2. DeskInv /\ [DeskNext]_deskVars => DeskInv'
  BY DeskStep
<1> QED
  BY <1>1, <1>2, PTL DEF DeskSpec

\* Roles, teams and owners, the pages of the reports and the lead on its page stay what
\* they are declared to be (Visibility, SalesReports, LeadDesk).
THEOREM DeskIsTyped == DeskSpec => []DeskTypeOK
<1>1. DeskInv => DeskTypeOK
  <2>1. ViewInv => ViewTypeOK
    BY DEF ViewInv
  <2>2. ReportInv => ReportTypeOK
    BY ReportPromises
  <2>3. DeskListsInv => LeadDeskShape
    BY DeskListsPromise
  <2> QED
    BY <2>1, <2>2, <2>3 DEF DeskInv, DeskTypeOK
<1> QED
  BY <1>1, DeskKeepsInv, PTL

\* Lists, searches and filters show whom the rules let see, for any accounts, teams and
\* records and whatever is re-roled, moved or handed over; the search of Referred By shows a
\* manager who types in it the whole company, and never another one.
THEOREM DeskListsFollowTheRules == DeskSpec => []ListsFollowTheRules
<1>1. ViewInv => ListsFollowTheRules
  BY NobodyCrossesCompaniesFollows, ManagerSeesOwnAndTeamFollows, TasksFollowTheirParentFollows, ParentsOpenTheirQuotesFollows,
     FiltersOnlyNarrowFollows DEF ListsFollowTheRules
<1>2. DeskInv => ListsFollowTheRules
  BY <1>1 DEF DeskInv
<1> QED
  BY <1>2, DeskKeepsInv, PTL

\* On every day of any calendar the pay periods tile it, days begin at local midnight and
\* ranges are compared with the ones before them; and the reports of any sales agree with
\* each other and show nobody another's.
THEOREM DeskReportsAreRight == DeskSpec => []ReportsAreRight
<1>1. ReportInv => OthersSalesStayHidden /\ RowsAndTotalsAgree /\ BoardShowsTheSameSales
  BY ReportPromises
<1>2. CalendarInv => PeriodsTileTheCalendar /\ DaysBeginAtLocalMidnight /\ ComparesWithTheRangeBefore
  BY CalendarPromises
<1>3. DeskInv => ReportsAreRight
  BY <1>1, <1>2 DEF DeskInv, ReportsAreRight
<1> QED
  BY <1>3, DeskKeepsInv, PTL

\* A sale keeps its pay period until it is confirmed again, and then counts in the one that is
\* open, unless two saves of it crossed.
THEOREM DeskLedgerIsSettled == DeskSpec => LedgerIsSettled
<1>1. DeskInv /\ [DeskNext]_deskVars =>
        [\A s \in Sales : history[s] # {} /\ PeriodOfSale(s)' # PeriodOfSale(s) =>
              /\ confirmed'[s] /\ (confirmed[s] => CrossedSaveOf(s))
              /\ PeriodOfSale(s)' = PayPeriodContaining(CivilDateInZone(moment))]_reportVars
  BY PartsMove, LedgerStep DEF DeskInv, DeskPartMoves
<1>2. DeskInv /\ [DeskNext]_deskVars =>
        [\A s \in Sales : ~confirmed[s] /\ confirmed'[s] => SaleAt(s)' = moment \/ CrossedSaveOf(s)]_reportVars
  BY PartsMove, LedgerStep DEF DeskInv, DeskPartMoves
<1> QED
  BY <1>1, <1>2, DeskKeepsInv, PTL DEF DeskSpec, LedgerIsSettled, SavesMoveNoSale, ReturnsCountNow

\* Prices, bookings and tickets are stored as the page that sent them showed, once: for
\* any prices, fares, cards, tabs and number of requests.
THEOREM DeskCustomerForms == DeskSpec => []CustomerFormsAreHonest
<1>1. DeskInv => FormsKeepTheirWord
  BY FormPromises DEF DeskInv
<1>2. DeskInv => BookingsAreHonest
  BY BookingPromises DEF DeskInv
<1>3. DeskInv => TicketsAreTrue
  BY DEF DeskInv, TicketInv, TicketsAreTrue, DialogShowsItsOwnList, DialogStands
<1>4. DeskInv => CustomerFormsAreHonest
  BY <1>1, <1>2, <1>3, Zenon DEF CustomerFormsAreHonest
<1> QED
  BY <1>4, DeskKeepsInv, PTL

\* So are imports, leads and accounts, however the office's pages and their requests
\* overlap.
THEOREM DeskOfficeForms == DeskSpec => []OfficeFormsAreHonest
<1>1. ImportInv => ImportsAreHonest
  BY ImportPromises
<1>2. DeskListsInv => LeadDeskIsSound
  BY DeskListsPromise
<1>3. DialogInv => NewLeadsAreHonest
  BY DialogPromises
<1>4. EditorInv => UsersPageIsHonest
  BY EditorPromises
<1>5. DeskInv => OfficeFormsAreHonest
  BY <1>1, <1>2, <1>3, <1>4, Zenon DEF DeskInv, OfficeFormsAreHonest
<1> QED
  BY <1>5, DeskKeepsInv, PTL

=============================================================================

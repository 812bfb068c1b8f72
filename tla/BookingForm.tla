------------------------------ MODULE BookingForm ------------------------------
(***************************************************************************)
(* The customer's booking form and submitBooking behind it: whoever holds  *)
(* the secure link of one quote fills in the form in a tab, reviews it and *)
(* finishes.  Requests lose their answer while the server works on, so the *)
(* same customer may submit again; a commit may end with its outcome       *)
(* unknown to the server itself; an agent may cancel the quote meanwhile.  *)
(* booking-flow.tsx, passenger-form.tsx, card-payment-section.tsx,         *)
(* app/quote/[token]/book/page.tsx, actions/booking.ts, queries/bookings.ts. *)
(***************************************************************************)
EXTENDS Integers, Sequences, SequencesExt

CONSTANTS
  Tabs, Signers,    \* a signer: the name and e-mail a submission is signed with
  Fares,            \* the types of the quote's passengers, in order
  Travellers,       \* [who travelled with this contact before -> their type then]
  NoTraveller,      \* a slot that is not filled in
  MaxCards,         \* bound per tab: payment methods (the server takes six)
  MaxRequests       \* bound: submissions

ASSUME BookingFormConstants ==
  /\ Len(Fares) > 0 /\ NoTraveller \notin DOMAIN Travellers /\ MaxCards \in [Tabs -> Nat \ {0}] /\ MaxRequests \in Nat

VARIABLES
  offer,      \* Quote.status: "VIEWED", "CANCELED" or "SIGNED"
  form,       \* per tab: the passengers, the cards, and reviewMode
  at,         \* per tab: "form", "confirmation" or "closed"
  waiting,    \* per tab: isSubmitting, the submission in flight, or 0
  requests,   \* the submissions, with where the server is and what it answered
  booked,     \* the submission the Booking row was made by, or 0
  heard       \* per tab: definite answers the form received

bookingFormVars == <<offer, form, at, waiting, requests, booked, heard>>

\* CardFormState: whether the number is typed in, and during which attempt the
\* security code was.
NoCode == -1
EmptyCard == [number |-> FALSE, code |-> NoCode]
-----------------------------------------------------------------------------
(* The page *)

\* An exchange pairs each slot with the next previous passenger of its type.
Prefilled(exchange) ==
  [i \in DOMAIN Fares |->
     LET before == {j \in 1..(i - 1) : Fares[j] = Fares[i]}
         same == SetToSeq({p \in DOMAIN Travellers : Travellers[p] = Fares[i]})
         nth == Cardinality(before) + 1
     IN [type |-> Fares[i], who |-> IF exchange /\ nth <= Len(same) THEN same[nth] ELSE NoTraveller]]

FormOf(exchange) == [passengers |-> Prefilled(exchange), cards |-> <<EmptyCard>>, reviewing |-> FALSE]

BookingFormInit ==
  /\ offer = "VIEWED" /\ booked = 0 /\ requests = <<>>
  /\ \E exchange \in BOOLEAN : form = [t \in Tabs |-> FormOf(exchange)]
  /\ at = [t \in Tabs |-> "form"] /\ waiting = [t \in Tabs |-> 0] /\ heard = [t \in Tabs |-> 0]

\* BookingPage, on a reload or a router.refresh: a signed quote leads to its
\* confirmation, one that cannot be booked back to the quote.
Refresh(t) ==
  /\ at[t] = "form" /\ waiting[t] = 0 /\ offer # "VIEWED"
  /\ at' = [at EXCEPT ![t] = IF booked # 0 THEN "confirmation" ELSE "closed"]
  /\ UNCHANGED <<offer, form, waiting, requests, booked, heard>>

Fill(t, next) ==
  /\ at[t] = "form" /\ waiting[t] = 0
  /\ form' = [form EXCEPT ![t] = next]
  /\ UNCHANGED <<offer, at, waiting, requests, booked, heard>>

\* applyPrevious fills in the person and leaves the slot its type.
ApplyPrevious(t, i, p) == Fill(t, [form[t] EXCEPT !.passengers[i].who = p])

TypeCard(t, i) == Fill(t, [form[t] EXCEPT !.cards[i] = [number |-> TRUE, code |-> heard[t]]])
AddCard(t) == Len(form[t].cards) < MaxCards[t] /\ Fill(t, [form[t] EXCEPT !.cards = Append(@, EmptyCard)])
RemoveCard(t, i) == Len(form[t].cards) > 1 /\ Fill(t, [form[t] EXCEPT !.cards = RemoveAt(@, i)])

FilledIn(f) ==
  /\ \A i \in DOMAIN f.passengers : f.passengers[i].who # NoTraveller
  /\ \A i \in DOMAIN f.cards : f.cards[i].number /\ f.cards[i].code # NoCode

BookFlight(t) == ~form[t].reviewing /\ FilledIn(form[t]) /\ Fill(t, [form[t] EXCEPT !.reviewing = TRUE])
EditAgain(t) == form[t].reviewing /\ Fill(t, [form[t] EXCEPT !.reviewing = FALSE])

\* The form stays open under the review and is checked again.
FinishBooking(t, s) ==
  /\ at[t] = "form" /\ waiting[t] = 0 /\ form[t].reviewing /\ FilledIn(form[t])
  /\ Len(requests) < MaxRequests
  /\ requests' = Append(requests, [tab |-> t, signer |-> s, passengers |-> form[t].passengers,
                                   step |-> "sent", answer |-> "none"])
  /\ waiting' = [waiting EXCEPT ![t] = Len(requests) + 1]
  /\ UNCHANGED <<offer, form, at, booked, heard>>
-----------------------------------------------------------------------------
(* The server *)

Moves(r, step, answer) ==
  /\ requests' = [requests EXCEPT ![r].step = step, ![r].answer = answer]
  /\ UNCHANGED <<form, at, waiting, heard>>

Answers(r, answer) == Moves(r, "done", answer)

\* findBookingForReplay and sameSigner: the quote is booked, in this name.
SameSigner(r) == booked # 0 /\ requests[booked].signer = requests[r].signer

\* The limiter, a malformed field, a card that does not pass, the vault.
RefuseSubmission(r) == requests[r].step = "sent" /\ Answers(r, "no") /\ UNCHANGED <<offer, booked>>

ReadQuote(r) ==
  /\ requests[r].step = "sent"
  /\ IF booked # 0 THEN Answers(r, IF SameSigner(r) THEN "yes" ELSE "no")
     ELSE IF offer # "VIEWED" THEN Answers(r, "no")
     ELSE Moves(r, "prepared", "none")
  /\ UNCHANGED <<offer, booked>>

\* The signing transaction commits; its result may not reach the function.
Sign(r, known) ==
  /\ requests[r].step = "prepared" /\ offer = "VIEWED" /\ booked = 0
  /\ offer' = "SIGNED" /\ booked' = r
  /\ IF known THEN Answers(r, "yes") ELSE Moves(r, "recheck", "none")

\* QuoteNoLongerBookableError, or the unique Booking.quoteId.
LoseRace(r) ==
  /\ requests[r].step = "prepared" /\ offer # "VIEWED"
  /\ Answers(r, IF SameSigner(r) THEN "yes" ELSE "no")
  /\ UNCHANGED <<offer, booked>>

TransactionFails(r) ==
  /\ requests[r].step = "prepared" /\ Moves(r, "recheck", "none") /\ UNCHANGED <<offer, booked>>

\* Defect: a transaction that failed is a refusal.
RecheckRefuses(r, readable) ==
  /\ requests[r].step = "recheck"
  /\ Answers(r, IF readable /\ SameSigner(r) THEN "yes" ELSE "no")
  /\ UNCHANGED <<offer, booked>>

Recheck(r, readable) ==
  /\ requests[r].step = "recheck"
  /\ Answers(r, IF readable /\ SameSigner(r) THEN "yes" ELSE "unknown")
  /\ UNCHANGED <<offer, booked>>

\* cancelQuote, of a quote nobody has signed.
CancelOffer ==
  /\ offer = "VIEWED" /\ offer' = "CANCELED"
  /\ UNCHANGED <<form, at, waiting, requests, booked, heard>>

FunctionDies(r) ==
  /\ requests[r].step \in {"sent", "prepared", "recheck"}
  /\ Answers(r, "unknown") /\ UNCHANGED <<offer, booked>>
-----------------------------------------------------------------------------
(* The answer *)

WithoutCodes(cards) == [i \in DOMAIN cards |-> [cards[i] EXCEPT !.code = NoCode]]

\* A booking clears the cards, a refusal the codes; an unknown outcome nothing.
AfterAnswer(f, answer) ==
  CASE answer = "yes" -> [f EXCEPT !.cards = [i \in DOMAIN @ |-> EmptyCard]]
    [] answer = "no" -> [f EXCEPT !.cards = WithoutCodes(@)]
    [] OTHER -> f

Hear(t) ==
  LET r == waiting[t] answer == requests[r].answer IN
  /\ r # 0 /\ requests[r].step = "done"
  /\ form' = [form EXCEPT ![t] = AfterAnswer(@, answer)]
  /\ at' = [at EXCEPT ![t] = IF answer = "yes" THEN "confirmation" ELSE @]
  /\ heard' = [heard EXCEPT ![t] = IF answer = "unknown" THEN @ ELSE @ + 1]
  /\ waiting' = [waiting EXCEPT ![t] = 0]
  /\ UNCHANGED <<offer, requests, booked>>

\* The connection drops while the server works on, or after it is done.
LoseAnswer(t) ==
  /\ waiting[t] # 0 /\ waiting' = [waiting EXCEPT ![t] = 0]
  /\ UNCHANGED <<offer, form, at, requests, booked, heard>>

BookingFormNext ==
  \/ \E t \in Tabs :
       \/ Refresh(t) \/ AddCard(t) \/ BookFlight(t) \/ EditAgain(t) \/ Hear(t) \/ LoseAnswer(t)
       \/ \E i \in DOMAIN Fares, p \in DOMAIN Travellers : ApplyPrevious(t, i, p)
       \/ \E i \in DOMAIN form[t].cards : TypeCard(t, i) \/ RemoveCard(t, i)
       \/ \E s \in Signers : FinishBooking(t, s)
  \/ \E r \in DOMAIN requests :
       \/ RefuseSubmission(r) \/ ReadQuote(r) \/ LoseRace(r) \/ TransactionFails(r) \/ FunctionDies(r)
       \/ \E known \in BOOLEAN : Sign(r, known) \/ Recheck(r, known)
  \/ CancelOffer

BookingFormSpec == BookingFormInit /\ [][BookingFormNext]_bookingFormVars
-----------------------------------------------------------------------------
(* A customer who is told yes is booked, under the name they signed with,    *)
(* through lost answers, repeated submissions and a second tab               *)
(* (actions/booking.ts:231-243, sameSigner).                                 *)
YesIsBooked ==
  \A r \in DOMAIN requests :
    requests[r].answer = "yes" => booked # 0 /\ requests[booked].signer = requests[r].signer

(* A customer who is told no was not booked by that submission: an outcome   *)
(* the server is not sure of is never answered as a refusal                  *)
(* (actions/booking.ts:545-575, outcomeUnknown).                             *)
NoIsNotBooked == \A r \in DOMAIN requests : requests[r].answer = "no" => booked # r

(* A security code survives no definite answer: what stands in the form was  *)
(* typed in after the last one (booking-flow.tsx:424-444).                   *)
CodesAreTypedAgain ==
  \A t \in Tabs : \A i \in DOMAIN form[t].cards : form[t].cards[i].code \in {NoCode, heard[t]}

(* The booking has the passengers the quote was priced for, whoever was      *)
(* filled in where (passenger-form.tsx:99-119).                              *)
PassengersMatchFares ==
  booked # 0 => \A i \in DOMAIN Fares : requests[booked].passengers[i].type = Fares[i]

BookingsAreHonest == YesIsBooked /\ NoIsNotBooked /\ CodesAreTypedAgain /\ PassengersMatchFares
=============================================================================

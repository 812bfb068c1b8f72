------------------------------- MODULE QuoteForm -------------------------------
(***************************************************************************)
(* The quote builder and the exchange builder in an agent's browser:       *)
(* components/quotes/quote-builder.tsx, exchange-builder.tsx and the       *)
(* segment editor they share, with what createQuote and                    *)
(* sendExchangeForApproval store of a submission.  Parsing a paste and     *)
(* saving are calls to the server that answer later, or never; the agent   *)
(* goes on working meanwhile.  Amounts are cents.                          *)
(***************************************************************************)
EXTENDS Integers, Sequences, FiniteSets, SequencesExt

CONSTANTS
  Terms,         \* what may stand in the price fields: see TermsShape
  MaxSegments,   \* bound: segments on the page
  MaxRevisions,  \* bound: revisions of one segment's dates and times
  MaxSaves,      \* bound: quotes stored
  NoSave         \* nothing is being submitted

TermsShape == [total : Nat, adults : Nat \ {0}, rate : Nat \ {0}, extras : Nat]   \* rate in hundredths

ASSUME FormConstants == Terms \subseteq TermsShape /\ Terms # {} /\ {MaxSegments, MaxRevisions, MaxSaves} \subseteq Nat

VARIABLES
  builder,    \* "quote" or "exchange"
  segments,   \* the EditableSegments on the page, in order
  parsing,    \* a paste is being looked up: isParsing
  saving,     \* what isSaving is submitting, or NoSave
  left,       \* the page has moved on to the stored quote
  stored,     \* the quotes the submissions made, in order
  original,   \* Quote.status of the quote being exchanged
  lost        \* answers lost

formVars == <<builder, segments, parsing, saving, left, stored, original, lost>>

\* A segment: its dates and times as a version number, 0 while they are
\* incomplete; an override is known by the version it was entered for.
NoOverride == -1
Blank == [times |-> 0, override |-> NoOverride, joined |-> FALSE]
-----------------------------------------------------------------------------
(* Prices *)

Rounded(a, b) == (2 * a + b) \div (2 * b)

ToUsd(amount, t) == Rounded(amount * 100, t.rate)
FromUsd(amount, t) == Rounded(amount * t.rate, 100)

\* The price of one adult, derived from the exchange total; the column has cents.
StoredAdultPrice(t) == Rounded(ToUsd(t.total, t), t.adults)

\* What the customer of an exchange is charged: the stored price, times adults.
ExchangeCharge(t) == FromUsd(t.adults * StoredAdultPrice(t) + t.extras, t)

\* The server adds the submission up again and compares.
TotalAgrees(t) == t.total > 0 /\ t.extras <= 1
-----------------------------------------------------------------------------
FormInit ==
  /\ builder \in {"quote", "exchange"}
  /\ segments = <<Blank>> /\ parsing = FALSE
  /\ saving = NoSave /\ left = FALSE /\ stored = <<>> /\ original = "CHARGED"
  /\ lost = 0

OnPage == ~left /\ UNCHANGED builder

Segments(next) ==
  /\ OnPage /\ segments' = next
  /\ UNCHANGED <<parsing, saving, left, stored, original, lost>>

AddSegment == Len(segments) < MaxSegments /\ Segments(Append(segments, Blank))

RemoveSegment(i) == Len(segments) > 1 /\ Segments(RemoveAt(segments, i))

\* Any of the four date and time fields: a duration typed in before is void.
EditTimes(i) ==
  /\ segments[i].times < MaxRevisions
  /\ Segments([segments EXCEPT ![i].times = @ + 1, ![i].override = NoOverride])

SetDuration(i) == Segments([segments EXCEPT ![i].override = segments[i].times])
ResetDuration(i) == Segments([segments EXCEPT ![i].override = NoOverride])

\* The connector between two segments.
SetConnection(i, layover) == i > 1 /\ Segments([segments EXCEPT ![i].joined = layover])
-----------------------------------------------------------------------------
(* Parsing a paste: its buttons are disabled while a parse is pending *)

RunParse ==
  /\ OnPage /\ ~parsing /\ parsing' = TRUE
  /\ UNCHANGED <<segments, saving, left, stored, original, lost>>

\* The pasted segments replace those on the page, whatever was edited meanwhile.
ParseAnswers(n) ==
  /\ OnPage /\ parsing /\ parsing' = FALSE
  /\ segments' = [i \in 1..n |-> [Blank EXCEPT !.times = 1, !.joined = i > 1]]
  /\ UNCHANGED <<saving, left, stored, original, lost>>

\* No segment found, or the lookup of the codes failed.
ParseFails ==
  /\ OnPage /\ parsing /\ parsing' = FALSE
  /\ UNCHANGED <<segments, saving, left, stored, original, lost>>
-----------------------------------------------------------------------------
(* Submitting: what is on the page at the click *)

ValidSegments == \A i \in DOMAIN segments : segments[i].times > 0

Payload(t) == [segments |-> [segments EXCEPT ![1].joined = FALSE], terms |-> t]

\* The prices of a quote are stored as typed: they matter here for an exchange.
Priced == IF builder = "exchange" THEN Terms ELSE {CHOOSE t \in Terms : TRUE}

\* "Save Draft", "Send Quote" or "Send for Approval", with t in the price fields.
Save(t) ==
  /\ OnPage /\ saving = NoSave /\ ValidSegments /\ Len(stored) < MaxSaves
  /\ builder = "exchange" => t.total > 0
  /\ saving' = Payload(t)
  /\ UNCHANGED <<segments, parsing, left, stored, original, lost>>

\* An exchange takes the original along, which can therefore be taken once.
Accepted == builder = "exchange" => original = "CHARGED" /\ TotalAgrees(saving.terms)

Stores(answered) ==
  /\ saving # NoSave /\ ~left /\ Accepted
  /\ stored' = Append(stored, saving)
  /\ original' = IF builder = "exchange" THEN "EXCHANGED" ELSE original
  /\ saving' = NoSave
  /\ left' = answered
  /\ lost' = lost + IF answered THEN 0 ELSE 1
  /\ UNCHANGED <<builder, segments, parsing>>

\* The page moves to the quote, also when it was stored but could not be mailed.
Answered == Stores(TRUE)

\* The quote is stored; the page says that saving failed, and stays.
AnswerLost == Stores(FALSE)

\* Refused, or the request never arrived.
SaveFails ==
  /\ OnPage /\ saving # NoSave /\ saving' = NoSave
  /\ UNCHANGED <<segments, parsing, left, stored, original, lost>>

FormNext ==
  \/ AddSegment
  \/ \E i \in DOMAIN segments :
       \/ RemoveSegment(i) \/ EditTimes(i) \/ SetDuration(i) \/ ResetDuration(i)
       \/ \E layover \in BOOLEAN : SetConnection(i, layover)
  \/ RunParse \/ ParseFails \/ \E n \in 1..MaxSegments : ParseAnswers(n)
  \/ \E t \in Priced : Save(t)
  \/ Answered \/ AnswerLost \/ SaveFails

FormSpec == FormInit /\ [][FormNext]_formVars
-----------------------------------------------------------------------------
(***************************************************************************)
(* What the agent's work on the page may be relied on for.                 *)
(***************************************************************************)

(* A duration the agent typed in is stored only with the dates and times it *)
(* was typed in for, through edits, pastes and repeated submissions         *)
(* (flight-segment-editor.tsx:63-72).                                       *)
DurationsBelongToTheirTimes ==
  \A n \in DOMAIN stored : \A i \in DOMAIN stored[n].segments :
    stored[n].segments[i].override \in {NoOverride, stored[n].segments[i].times}

(* Work is stored once: a second quote takes an answer that was lost, and a *)
(* second exchange of one original is never made (quote-builder.tsx:271-290, *)
(* exchange.ts on "Only a charged quote can be exchanged").                 *)
StoredOnce ==
  /\ Len(stored) <= 1 + lost
  /\ builder = "exchange" => Len(stored) <= 1
  /\ left => stored # <<>> /\ saving = NoSave

(* What an exchange charges is the total agreed with the customer, but for  *)
(* half a cent of each adult's price, converted (exchange-builder.tsx:159). *)
ChargeNearTheTotal ==
  builder = "exchange" =>
    \A n \in DOMAIN stored :
      LET t == stored[n].terms
          most == 1 + ((t.adults + 1 + 2 * t.extras) * t.rate) \div 200
      IN ExchangeCharge(t) - t.total \in (-most)..most

FormsKeepTheirWord == DurationsBelongToTheirTimes /\ StoredOnce /\ ChargeNearTheTotal
=============================================================================

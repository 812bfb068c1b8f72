----------------------------- MODULE TicketingForm -----------------------------
(***************************************************************************)
(* The ticketing card of a booking.  Several agents have it open, each with *)
(* a form of their own over one Booking row; updateBookingTicketing checks  *)
(* a save against what it read first and computes the profit once more      *)
(* under a row lock.  From the same card a dialog mails the airline         *)
(* confirmation to addresses picked from a list the server sends.           *)
(* booking-ticketing-form.tsx, airline-confirmation-dialog.tsx,             *)
(* actions/bookings.ts, lib/airline-confirmations.ts, lib/currency.ts.      *)
(***************************************************************************)
EXTENDS Integers

CONSTANTS
  Agents,        \* pages that have the booking open
  Costs,         \* what a cost field may hold, in dollars
  EmptyField,    \* a field that is blank; undefined in a patch, null in the row
  SellingPrice,  \* computeTotalSellingPriceUsd of the quote
  Mailboxes, SignedMailbox,  \* the customer's addresses; the booking form's
  MaxEdits,      \* bound: edits of a form
  MaxOpenings    \* bound: openings of the dialog

ASSUME TicketingConstants ==
  /\ Costs \subseteq Nat /\ EmptyField \notin Int /\ SellingPrice \in Int
  /\ SignedMailbox \in Mailboxes /\ {MaxEdits, MaxOpenings} \subseteq Nat

TicketStatuses == {"PENDING_TICKETING", "TICKETED", "CONFIRMED"}
Amounts == Costs \cup {EmptyField}

\* The fields of the form: the cost of the ticket, taxes and fees, and
\* whether any row holds a confirmation number.
Fields == [status : TicketStatuses, fare : Amounts, tax : Amounts, numbered : BOOLEAN]

VARIABLES
  record,    \* the Booking row: fields and profit
  typed, kept, editing,  \* per agent: the form, the last saved state, and the mode
  call,      \* per agent: the save under way
  edits,     \* 0..MaxEdits
  dialog,    \* per agent: AirlineConfirmationDialog
  mailboxes, \* the addresses on file now
  mailed     \* the addresses the last mail went to

ticketingVars == <<record, typed, kept, editing, call, edits, dialog, mailboxes, mailed>>
formsOnly == <<typed, kept, editing, call, edits>>
mailOnly == <<dialog, mailboxes, mailed>>

NoCall == [step |-> "none"]
NoList == [of |-> 0, boxes |-> {}]
-----------------------------------------------------------------------------
\* computeBookingProfitUsd: unknown until there is a cost; other costs count
\* as nothing while blank.
ProfitOf(f) ==
  IF f.fare = EmptyField THEN EmptyField
  ELSE SellingPrice - f.fare - IF f.tax = EmptyField THEN 0 ELSE f.tax

\* hasSavedData
Started(f) == f.fare # EmptyField \/ f.tax # EmptyField \/ f.numbered

\* A patch over the row's fields: a blank cost leaves the cost that is there.
Merged(patch, fields) ==
  [patch EXCEPT !.fare = IF @ = EmptyField THEN fields.fare ELSE @, !.tax = IF @ = EmptyField THEN fields.tax ELSE @]

Backed(f) == f.status = "CONFIRMED" => f.numbered /\ f.fare # EmptyField

TicketingFormInit ==
  /\ record \in {[fields |-> f, profit |-> ProfitOf(f)] : f \in {g \in Fields : Backed(g)}}
  /\ typed = [a \in Agents |-> record.fields] /\ kept = typed
  /\ editing = [a \in Agents |-> ~Started(record.fields)]
  /\ call = [a \in Agents |-> NoCall] /\ edits = 0
  /\ dialog = [a \in Agents |-> [open |-> FALSE, request |-> 0, asked |-> {}, list |-> NoList, ticked |-> {}]]
  /\ mailboxes = {SignedMailbox} /\ mailed = {}
-----------------------------------------------------------------------------
(* The form *)

\* The fields stay open while a save is under way.
Edit(a, next) ==
  /\ editing[a] /\ edits < MaxEdits /\ next # typed[a]
  /\ typed' = [typed EXCEPT ![a] = next] /\ edits' = edits + 1
  /\ UNCHANGED <<record, kept, editing, call, mailOnly>>

StartEdit(a) == ~editing[a] /\ editing' = [editing EXCEPT ![a] = TRUE] /\ UNCHANGED <<record, typed, kept, call, edits, mailOnly>>

CancelEdit(a) ==
  /\ editing[a] /\ Started(kept[a]) /\ call[a] = NoCall
  /\ typed' = [typed EXCEPT ![a] = kept[a]] /\ editing' = [editing EXCEPT ![a] = FALSE]
  /\ UNCHANGED <<record, kept, call, edits, mailOnly>>

Sends(a) ==
  /\ editing[a] /\ call[a] = NoCall
  /\ call' = [call EXCEPT ![a] = [step |-> "sent", patch |-> typed[a]]]
  /\ UNCHANGED <<record, typed, kept, editing, edits, mailOnly>>

\* updateBookingTicketing up to its transaction.
ReadsExisting(a) ==
  /\ call[a].step = "sent"
  /\ call' = [call EXCEPT ![a] = IF Backed(Merged(call[a].patch, record.fields))
                THEN [step |-> "checked", patch |-> call[a].patch, seen |-> record.fields]
                ELSE [step |-> "failed"]]
  /\ UNCHANGED <<record, typed, kept, editing, edits, mailOnly>>

\* The transaction, which locks the row before it computes the profit.  A
\* profit that is still unknown is undefined in the update, and changes nothing.
Commits(a) ==
  /\ call[a].step = "checked"
  /\ LET next == Merged(call[a].patch, record.fields) profit == ProfitOf(next) IN
     record' = [fields |-> next, profit |-> IF profit = EmptyField THEN record.profit ELSE profit]
  /\ call' = [call EXCEPT ![a] = [step |-> "saved", patch |-> call[a].patch]]
  /\ UNCHANGED <<typed, kept, editing, edits, mailOnly>>

\* The form locks, with whatever was typed since.
Hears(a) ==
  /\ call[a].step = "saved"
  /\ kept' = [kept EXCEPT ![a] = call[a].patch] /\ editing' = [editing EXCEPT ![a] = FALSE]
  /\ call' = [call EXCEPT ![a] = NoCall]
  /\ UNCHANGED <<record, typed, edits, mailOnly>>

\* A refusal, a dropped connection before or after the commit.
FailsToSave(a) ==
  /\ call[a] # NoCall /\ call' = [call EXCEPT ![a] = NoCall]
  /\ UNCHANGED <<record, typed, kept, editing, edits, mailOnly>>
-----------------------------------------------------------------------------
(* The confirmation, to addresses the agent ticks *)

\* canSendConfirmation: the server mails what is saved.
MaySend(a) == typed[a] = kept[a] /\ typed[a].status # "PENDING_TICKETING" /\ typed[a].numbered

Turns(a, next) == dialog' = [dialog EXCEPT ![a] = next] /\ UNCHANGED <<record, formsOnly>>

\* load(), which leaves the ticks as they were until the answer.
OpenDialog(a) ==
  LET d == dialog[a] q == d.request + 1 IN
  /\ MaySend(a) /\ ~d.open /\ d.request < 2 * MaxOpenings
  /\ Turns(a, [d EXCEPT !.open = TRUE, !.request = q, !.asked = @ \cup {q}, !.list = NoList])
  /\ UNCHANGED <<mailboxes, mailed>>

CloseDialog(a) ==
  LET d == dialog[a] IN
  /\ d.open /\ Turns(a, [d EXCEPT !.open = FALSE, !.request = @ + 1])
  /\ UNCHANGED <<mailboxes, mailed>>

\* getAirlineConfirmationRecipients answers one opening; a newer one, or
\* closing, has made it void.
ListArrives(a, q) ==
  LET d == dialog[a] IN
  /\ q \in d.asked
  /\ Turns(a, IF q = d.request
              THEN [d EXCEPT !.asked = @ \ {q}, !.list = [of |-> q, boxes |-> mailboxes], !.ticked = {SignedMailbox}]
              ELSE [d EXCEPT !.asked = @ \ {q}])
  /\ UNCHANGED <<mailboxes, mailed>>

ListFails(a, q) ==
  q \in dialog[a].asked /\ Turns(a, [dialog[a] EXCEPT !.asked = @ \ {q}]) /\ UNCHANGED <<mailboxes, mailed>>

TickMailbox(a, ticks) ==
  LET d == dialog[a] IN
  /\ d.open /\ d.list # NoList /\ ticks \subseteq d.list.boxes /\ ticks # d.ticked
  /\ Turns(a, [d EXCEPT !.ticked = ticks]) /\ UNCHANGED <<mailboxes, mailed>>

\* submit and sendAirlineConfirmationEmail, which checks the row and every
\* address again; the dialog closes without a new request.
Mail(a) ==
  LET d == dialog[a] IN
  /\ d.open /\ d.list # NoList /\ d.ticked # {}
  /\ record.fields.status # "PENDING_TICKETING" /\ record.fields.numbered /\ d.ticked \subseteq mailboxes
  /\ mailed' = d.ticked /\ Turns(a, [d EXCEPT !.open = FALSE])
  /\ UNCHANGED mailboxes

\* The contact's addresses are edited elsewhere.
EditMailboxes(next) ==
  /\ SignedMailbox \in next /\ next # mailboxes /\ mailboxes' = next
  /\ UNCHANGED <<record, formsOnly, dialog, mailed>>

FormMoves(a) ==
  \/ \E s \in TicketStatuses : Edit(a, [typed[a] EXCEPT !.status = s])
  \/ \E c \in Amounts : Edit(a, [typed[a] EXCEPT !.fare = c]) \/ Edit(a, [typed[a] EXCEPT !.tax = c])
  \/ \E b \in BOOLEAN : Edit(a, [typed[a] EXCEPT !.numbered = b])
  \/ StartEdit(a) \/ CancelEdit(a) \/ Sends(a) \/ ReadsExisting(a) \/ Commits(a) \/ Hears(a) \/ FailsToSave(a)

DialogMoves(a) ==
  \/ OpenDialog(a) \/ CloseDialog(a) \/ Mail(a)
  \/ \E q \in dialog[a].asked : ListArrives(a, q) \/ ListFails(a, q)
  \/ \E ticks \in SUBSET Mailboxes : TickMailbox(a, ticks)

TicketingFormNext ==
  (\E a \in Agents : FormMoves(a) \/ DialogMoves(a)) \/ \E next \in SUBSET Mailboxes : EditMailboxes(next)

TicketingFormSpec == TicketingFormInit /\ [][TicketingFormNext]_ticketingVars
-----------------------------------------------------------------------------
(* The stored profit is that of the stored costs, whichever saves of         *)
(* different costs cross (actions/bookings.ts:255-275).                      *)
ProfitMatchesCosts == record.profit = ProfitOf(record.fields)

(* A confirmed booking has a cost and a confirmation number, though the      *)
(* check runs on an earlier reading of the row (actions/bookings.ts:189-195). *)
ConfirmedIsBacked == Backed(record.fields)

(* The list in an open dialog is the one its latest opening asked for, and   *)
(* only addresses on it are ticked (airline-confirmation-dialog.tsx:53-84).  *)
DialogShowsItsOwnList ==
  \A a \in Agents : LET d == dialog[a] IN
    d.open /\ d.list # NoList => d.list.of = d.request /\ d.ticked \subseteq d.list.boxes

TicketsAreTrue == ProfitMatchesCosts /\ ConfirmedIsBacked /\ DialogShowsItsOwnList
=============================================================================

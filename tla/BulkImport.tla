------------------------------ MODULE BulkImport ------------------------------
(***************************************************************************)
(* The bulk import of contacts: a table whose rows and columns are typed    *)
(* and pasted into, a review the server writes, and a commit that checks    *)
(* the rows once more and creates all of them or none.  The table stays     *)
(* open while the server reviews it.  Only e-mails and phones are told      *)
(* apart from text; a cell is known by its value.                           *)
(* bulk-contact-import.tsx, bulk-contact-paste.ts,                          *)
(* bulk-contact-validation.ts, actions/bulk-contacts.ts.                    *)
(***************************************************************************)
EXTENDS Integers, Sequences, SequencesExt

CONSTANTS
  Cells,         \* what a cell may hold, but for ""
  CellKind,      \* [Cells -> "email", "phone" or "notes"]: classifyPasteCell
  HeaderOf,      \* [Cells -> HeaderField or "none"]: matchHeaderField
  UsersNamed,    \* [Cells -> SUBSET Owners]: the users called so
  Readable,      \* the addresses and numbers that can be normalised
  Owners, Unassigned,
  Grids,         \* blocks that are pasted: sequences of lines of cells
  MaxColumns, MaxTableEdits, MaxBatches   \* bounds; the first is the code's

Channels == {"email", "phone"}
HeaderFields == {"firstName", "lastName", "notes", "assignedUser"} \cup Channels
Empty == ""

ASSUME ImportConstants ==
  /\ Empty \notin Cells /\ Readable \subseteq Cells
  /\ CellKind \in [Cells -> Channels \cup {"notes"}] /\ HeaderOf \in [Cells -> HeaderFields \cup {"none"}]
  /\ UsersNamed \in [Cells -> SUBSET Owners] /\ Unassigned \notin Owners
  /\ MaxColumns \in Nat \ {0} /\ {MaxTableEdits, MaxBatches} \subseteq Nat

\* parsePasteGrid: at least one line.
ASSUME GridsAreLines == \A grid \in Grids : grid \in Seq(Seq(Cells \cup {Empty})) /\ grid # <<>>

VARIABLES
  table,      \* BulkRow: the rows, each with its clientId
  columns,    \* emailColumns, phoneColumns
  selected,   \* the clientIds ticked
  review,     \* the results on the review page, or NoReview
  asking,     \* what the pending transition sent, or NoAsk
  batches,    \* what was created, in order
  lastPaste,  \* the lines the last paste put in, if its block has its columns,
              \* until the table changes again
  tableEdits  \* changes to the table

importVars == <<table, columns, selected, review, asking, batches, lastPaste, tableEdits>>

NoReview == [shown |-> FALSE, bad |-> {}]
NoAsk == [kind |-> "none"]

EmptyRow(id, cols) ==
  [id |-> id, firstName |-> Empty, lastName |-> Empty, notes |-> <<>>, owner |-> Unassigned,
   at |-> [k \in Channels |-> [i \in 1..cols[k] |-> Empty]]]

Padded(values, n) == [i \in 1..n |-> IF i <= Len(values) THEN values[i] ELSE Empty]

\* The members of a list that are in a set, in their order.
Those(list, set) ==
  LET kept == {i \in DOMAIN list : list[i] \in set} IN
  [n \in 1..Cardinality(kept) |-> list[CHOOSE i \in kept : Cardinality({j \in kept : j < i}) = n - 1]]

Filled(values) == Those(values, Cells)

BulkImportInit ==
  /\ columns = [k \in Channels |-> 1] /\ table = <<EmptyRow(<<0, 0>>, columns)>>
  /\ selected = {} /\ review = NoReview /\ asking = NoAsk /\ batches = <<>>
  /\ lastPaste = <<>> /\ tableEdits = 0
-----------------------------------------------------------------------------
(* The table *)

Ids == {table[i].id : i \in DOMAIN table}
\* clientId, of the n-th row a change adds.
NewId(n) == <<tableEdits + 1, n>>

\* A change to the table, which the pages after it do not offer.
Changes(rows, cols, ticks, lines) ==
  /\ ~review.shown /\ tableEdits < MaxTableEdits /\ tableEdits' = tableEdits + 1
  /\ table' = rows /\ columns' = cols /\ selected' = ticks /\ lastPaste' = lines
  /\ UNCHANGED <<review, asking, batches>>

AddRow == Changes(Append(table, EmptyRow(NewId(0), columns)), columns, selected, <<>>)

AddColumn(k) ==
  /\ columns[k] < MaxColumns
  /\ Changes([i \in DOMAIN table |-> [table[i] EXCEPT !.at[k] = Append(@, Empty)]], [columns EXCEPT ![k] = @ + 1], selected, <<>>)

RemoveColumn(k, c) ==
  /\ columns[k] > 1 /\ c <= columns[k]
  /\ Changes([i \in DOMAIN table |-> [table[i] EXCEPT !.at[k] = RemoveAt(@, c)]], [columns EXCEPT ![k] = @ - 1], selected, <<>>)

\* removeRow and deleteSelectedRows leave at least one row.
RemoveRows(ids) ==
  LET rest == Those(table, {r \in ToSet(table) : r.id \notin ids}) IN
  /\ ids \subseteq Ids /\ ids # {}
  /\ Changes(IF rest = <<>> THEN <<EmptyRow(NewId(0), columns)>> ELSE rest, columns, selected \ ids, <<>>)

Toggle(id) ==
  /\ ~review.shown /\ id \in Ids
  /\ selected' = IF id \in selected THEN selected \ {id} ELSE selected \cup {id}
  /\ UNCHANGED <<table, columns, review, asking, batches, lastPaste, tableEdits>>

TypeCell(i, k, v) == table[i].at[k][1] # v /\ Changes([table EXCEPT ![i].at[k][1] = v], columns, selected, <<>>)

\* applyBulkAssign
AssignRows(o) ==
  LET ids == IF selected = {} THEN Ids ELSE selected IN
  Changes([i \in DOMAIN table |-> IF table[i].id \in ids THEN [table[i] EXCEPT !.owner = o] ELSE table[i]], columns, selected, <<>>)
-----------------------------------------------------------------------------
(* A pasted block *)

\* detectHeaderColumnMap: every cell that is not blank is a known header.
HasHeader(grid) ==
  LET named == {i \in DOMAIN grid[1] : grid[1][i] # Empty} IN
  named # {} /\ \A i \in named : HeaderOf[grid[1][i]] # "none"

\* The block has its columns: under a header that is used every cell has a field, and
\* there is one column of first and of last names.
HasItsColumns(grid) ==
  HasHeader(grid) =>
    /\ \A n \in 2..Len(grid) : \A j \in DOMAIN grid[n] : grid[n][j] # Empty => j \in DOMAIN grid[1] /\ grid[1][j] # Empty
    /\ \A i, j \in DOMAIN grid[1] :
         /\ i # j /\ Empty \notin {grid[1][i], grid[1][j]}
         /\ HeaderOf[grid[1][i]] \in {"firstName", "lastName"}
         => HeaderOf[grid[1][i]] # HeaderOf[grid[1][j]]

Under(field, head, line) ==
  Filled([i \in DOMAIN line |-> IF i \in DOMAIN head /\ head[i] # Empty /\ HeaderOf[head[i]] = field THEN line[i] ELSE Empty])

Latest(values) == IF values = <<>> THEN Empty ELSE values[Len(values)]

\* matchAssignedUser: one candidate, or nobody.
Matched(raw) == IF raw = Empty \/ Cardinality(UsersNamed[raw]) # 1 THEN Unassigned ELSE CHOOSE o \in UsersNamed[raw] : TRUE

\* mapPasteRowsByHeader
ByHeader(grid) ==
  [i \in 1..(Len(grid) - 1) |->
     LET in(f) == Under(f, grid[1], grid[i + 1]) IN
     [firstName |-> Latest(in("firstName")), lastName |-> Latest(in("lastName")), notes |-> in("notes"),
      at |-> [k \in Channels |-> in(k)], owner |-> Matched(Latest(in("assignedUser")))]]

\* classifyPasteRows: two name columns if the paste began there, the rest by looks.
ByLooks(grid, names) ==
  LET titled == names /\ Len(grid[1]) > 1 /\ \A i \in {1, 2} : grid[1][i] # Empty /\ HeaderOf[grid[1][i]] = <<"firstName", "lastName">>[i]
      lines == IF titled THEN Tail(grid) ELSE grid
      cell(line, i) == IF names /\ i <= Len(line) THEN line[i] ELSE Empty
      rest(line) == Filled(IF names THEN SubSeq(line, 3, Len(line)) ELSE line)
  IN [i \in DOMAIN lines |->
        [firstName |-> cell(lines[i], 1), lastName |-> cell(lines[i], 2), owner |-> Unassigned,
         notes |-> Those(rest(lines[i]), {c \in Cells : CellKind[c] = "notes"}),
         at |-> [k \in Channels |-> Those(rest(lines[i]), {c \in Cells : CellKind[c] = k})]]]

Widest(parsed, k) ==
  LET widths == {columns[k]} \cup {Len(parsed[i].at[k]) : i \in DOMAIN parsed}
  IN CHOOSE n \in widths : \A m \in widths : m <= n

\* What is blank in the paste leaves the row as it is; notes are added to.
Onto(row, parsed, cols, names) ==
  [id |-> row.id,
   firstName |-> IF names /\ parsed.firstName # Empty THEN parsed.firstName ELSE row.firstName,
   lastName |-> IF names /\ parsed.lastName # Empty THEN parsed.lastName ELSE row.lastName,
   notes |-> row.notes \o parsed.notes,
   owner |-> IF parsed.owner # Unassigned THEN parsed.owner ELSE row.owner,
   at |-> [k \in Channels |-> Padded(IF parsed.at[k] # <<>> THEN parsed.at[k] ELSE row.at[k], cols[k])]]

Parsed(grid, key) == IF HasHeader(grid) THEN ByHeader(grid) ELSE ByLooks(grid, key = "firstName")

\* The cells of a line that are to be found in its row: a user's name is
\* looked up instead.
Wanted(grid, line) ==
  {line[i] : i \in {j \in DOMAIN line : line[j] # Empty /\ ~(HasHeader(grid) /\ HeaderOf[grid[1][j]] = "assignedUser")}}

\* handlePaste, into the row and column where the caret is.
PasteAs(grid, first, key, cols) ==
  LET named == HasHeader(grid) \/ key = "firstName"
      parsed == Parsed(grid, key)
      last == first - 1 + Len(parsed)
      before(i) == IF i <= Len(table) THEN table[i] ELSE EmptyRow(NewId(i), cols)
      wide(row) == [row EXCEPT !.at = [k \in Channels |-> Padded(@[k], cols[k])]]
  IN Changes([i \in 1..(IF last > Len(table) THEN last ELSE Len(table)) |->
                IF i \in first..last THEN Onto(before(i), parsed[i - first + 1], cols, named) ELSE wide(before(i))],
             cols, selected,
             IF ~HasItsColumns(grid) THEN <<>>
             ELSE [i \in DOMAIN parsed |-> [row |-> first - 1 + i, cells |-> Wanted(grid, grid[Len(grid) - Len(parsed) + i])]])

\* The table grows by the columns the block needs.
PasteCells(grid, first, key) == PasteAs(grid, first, key, [k \in Channels |-> Widest(Parsed(grid, key), k)])
-----------------------------------------------------------------------------
(* Review and commit *)

\* A row nothing was entered in is left out; so is one with only a note.
Entered(row) == row.firstName # Empty \/ row.lastName # Empty \/ \E k \in Channels : Filled(row.at[k]) # <<>>
NonEmptyRows == Those(table, {row \in ToSet(table) : Entered(row)})

\* validateBulkContactRow
Valid(row) ==
  /\ row.firstName # Empty /\ row.lastName # Empty
  /\ \A k \in Channels : \A i \in DOMAIN row.at[k] : row.at[k][i] = Empty \/ row.at[k][i] \in Readable

Pending(next) == asking' = next /\ UNCHANGED <<table, columns, selected, lastPaste, tableEdits>>

AskReview ==
  /\ asking = NoAsk /\ ~review.shown /\ NonEmptyRows # <<>>
  /\ Pending([kind |-> "review", rows |-> NonEmptyRows]) /\ UNCHANGED <<review, batches>>

\* previewBulkContacts answers; the table may have changed since.
ReviewArrives ==
  /\ asking.kind = "review" /\ Pending(NoAsk)
  /\ review' = [shown |-> TRUE, bad |-> {asking.rows[i].id : i \in {j \in DOMAIN asking.rows : ~Valid(asking.rows[j])}}]
  /\ UNCHANGED batches

BackToEdit == review.shown /\ asking = NoAsk /\ review' = NoReview /\ Pending(NoAsk) /\ UNCHANGED batches

AskCreate ==
  /\ asking = NoAsk /\ review.shown /\ review.bad = {}
  /\ Pending([kind |-> "create", rows |-> NonEmptyRows]) /\ UNCHANGED <<review, batches>>

\* The contact of a row and its addresses, of which the first is primary.
NewContact(row) ==
  [firstName |-> row.firstName, lastName |-> row.lastName, owner |-> row.owner,
   at |-> [k \in Channels |-> Filled(row.at[k])]]

StoresRows(rows) ==
  /\ asking.kind = "create" /\ rows # <<>> /\ Len(batches) < MaxBatches
  /\ batches' = Append(batches, [i \in DOMAIN rows |-> NewContact(rows[i])])
  /\ Pending([kind |-> "created"]) /\ UNCHANGED review

\* bulkCreateContacts: one transaction, if every row passes once more.
CreateContacts ==
  asking.kind = "create" /\ (\A i \in DOMAIN asking.rows : Valid(asking.rows[i])) /\ StoresRows(asking.rows)

\* A row that does not pass, an owner no longer active, a failed transaction;
\* or an answer lost, with the contacts created or not.
AskFails == asking # NoAsk /\ Pending(NoAsk) /\ UNCHANGED <<review, batches>>

\* startNewImport, from the page that says what was created.
StartNewImport ==
  /\ asking.kind = "created" /\ asking' = NoAsk /\ review' = NoReview
  /\ columns' = [k \in Channels |-> 1] /\ table' = <<EmptyRow(<<tableEdits, 0>>, columns')>>
  /\ selected' = {} /\ lastPaste' = <<>> /\ UNCHANGED <<batches, tableEdits>>

BulkImportNext ==
  \/ AddRow \/ AskReview \/ ReviewArrives \/ BackToEdit \/ AskCreate \/ CreateContacts \/ AskFails \/ StartNewImport
  \/ \E k \in Channels : AddColumn(k) \/ \E c \in 1..MaxColumns : RemoveColumn(k, c)
  \/ \E ids \in SUBSET Ids : RemoveRows(ids)
  \/ \E id \in Ids : Toggle(id)
  \/ \E i \in DOMAIN table, k \in Channels : \E v \in {Empty} \cup {c \in Cells : CellKind[c] = k} : TypeCell(i, k, v)
  \/ \E o \in Owners : AssignRows(o)
  \/ \E grid \in Grids, i \in DOMAIN table, key \in {"firstName", "email"} : PasteCells(grid, i, key)

BulkImportSpec == BulkImportInit /\ [][BulkImportNext]_importVars
-----------------------------------------------------------------------------
(* The rows have a cell for every column of the header, however rows and    *)
(* columns were added, removed and pasted, and only rows that exist are      *)
(* ticked (bulk-contact-import.tsx:104-160, 180-207).                        *)
TableIsSquare ==
  /\ \A i \in DOMAIN table, k \in Channels : Len(table[i].at[k]) = columns[k]
  /\ selected \subseteq Ids /\ Cardinality(Ids) = Len(table)

(* What is pasted is in the rows it was pasted into, wherever the block has  *)
(* its columns: "automatically grows the table's columns to fit (rather      *)
(* than silently dropping data...)" (bulk-contact-import.tsx:214-222).       *)
NothingPastedIsLost ==
  \A j \in DOMAIN lastPaste :
    LET row == table[lastPaste[j].row] IN
    lastPaste[j].cells \subseteq
      {row.firstName, row.lastName} \cup ToSet(row.notes) \cup UNION {ToSet(row.at[k]) : k \in Channels}

(* Every contact that was created has both names and addresses that can be   *)
(* used, though the table stays open to changes while it is reviewed         *)
(* (actions/bulk-contacts.ts:126-139).                                       *)
CreatedRowsAreValid ==
  \A b \in DOMAIN batches : \A i \in DOMAIN batches[b] :
    LET c == batches[b][i] IN
    c.firstName # Empty /\ c.lastName # Empty /\ \A k \in Channels : ToSet(c.at[k]) \subseteq Readable

ImportsAreHonest == TableIsSquare /\ NothingPastedIsLost /\ CreatedRowsAreValid
=============================================================================

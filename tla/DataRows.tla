------------------------------ MODULE DataRows ------------------------------
(***************************************************************************)
(* The rows of a table handed to the parser one after the other            *)
(* (RangeDataRows in internal/importer/book/tableparser, Row and Cell in   *)
(* internal/importer/book/row.go). Cells are objects of a pool that all    *)
(* sheets share: the cells of a row go back to it when the row after the   *)
(* next has not been read yet, but the next one has, because a key that is *)
(* left out is taken from the row before (the option AdjacentKey).         *)
(*                                                                         *)
(* The sheet is written by somebody who knows that: a row is meant with    *)
(* all of its keys, and a key may be left out where it and the keys around *)
(* it are those of the row before. Rows with a mark in the column #IGNORE  *)
(* do not count.                                                           *)
(***************************************************************************)
EXTENDS TypeCells, FiniteSetsExt

CONSTANTS TableColumns, \* the headers: sequences of columns with name and type
          Data,         \* what a cell may hold
          MaxDataRows,  \* bound: rows of a sheet
          MaxCells      \* bound: cell objects that exist

Missing == "missing"   \* the data of an empty cell
Garbage == "garbage"   \* what another sheet writes to a cell it got
NoRow == <<>>

ASSUME DataAssumption == {Missing, Garbage} \cap Data = {}

KeyColumn(column) == \/ column.type.form = "map"
                     \/ (column.type.form = "list" /\ column.type.keyed)

\* The words of a name before the last two (camelcase.Split). The code compares
\* the strings that these words make and asks for a prefix of the string; a prefix
\* by words is the same where no word begins another.
LevelOf(words) == IF Len(words) < 2 THEN <<>> ELSE SubSeq(words, 1, Len(words) - 2)

(* A key has a name, and is below another key among the columns of that    *)
(* one's level; two rows at a time have cells.                             *)
Leveled(h) ==
  \A i \in 1..Len(h) : KeyColumn(h[i]) =>
    /\ h[i].name # <<>>
    /\ \/ LevelOf(h[i].name) = <<>>
       \/ \E k \in 1..(i - 1) :
            /\ KeyColumn(h[k])
            /\ \A j \in k..(i - 1) : IsPrefix(LevelOf(h[i].name), h[j].name)

ASSUME ColumnsAssumption ==
  /\ MaxCells \in Nat
  /\ \A h \in TableColumns : Len(h) \in Nat /\ Leveled(h) /\ 2 * Len(h) <= MaxCells

VARIABLES columns,    \* the header of the sheet
          meant,      \* the rows that count, as they were meant
          rows,       \* how many rows were read
          rowContent, \* the data of each cell object
          pool,       \* the cells that are free
          prev,       \* the row before: its cells
          curr,       \* the row that is being parsed: its cells
          given,      \* what the parser was given
          rowOutcome  \* "reading" or "failed"

rowVars == <<columns, meant, rows, rowContent, pool, prev, curr, given, rowOutcome>>

Ids == 1..MaxCells
Cols == 1..Len(columns)

\* parseColumns: a name may not be there twice.
NamesUnique(h) ==
  \A i, j \in 1..Len(h) : (h[i].name = h[j].name /\ h[i].name # <<>>) => i = j

IsKey(i) == KeyColumn(columns[i])
LevelPrefix(i) == LevelOf(columns[i].name)

(***************************************************************************)
(* AddCell: an empty key is that of the row before, if a key before it,    *)
(* with only columns of its own level in between, is the same in both.     *)
(***************************************************************************)
NeedPopulate(i, row, before) ==
  /\ before # NoRow
  /\ \/ LevelPrefix(i) = <<>>
     \/ \E k \in 1..(i - 1) :
          /\ IsKey(k) /\ before[k] = row[k]
          /\ \A j \in k..(i - 1) : IsPrefix(LevelPrefix(i), columns[j].name)

AddedCell(i, row, data, before) ==
  IF data[i] = Missing /\ IsKey(i) /\ columns[i].name # <<>> /\ NeedPopulate(i, row, before) THEN before[i] ELSE data[i]

RowOfCells(data, before) ==
  LET row[i \in 0..Len(columns)] ==
        IF i = 0 THEN <<>> ELSE Append(row[i - 1], AddedCell(i, row[i - 1], data, before))
  IN row[Len(columns)]

Read(cells) == [i \in DOMAIN cells |-> rowContent[cells[i]]]
-----------------------------------------------------------------------------
InitRows ==
  /\ columns \in TableColumns
  /\ meant = <<>> /\ rows = 0 /\ given = <<>>
  /\ rowContent = [c \in Ids |-> Missing]
  /\ pool = Ids
  /\ prev = NoRow /\ curr = NoRow
  /\ rowOutcome = IF NamesUnique(columns) THEN "reading" ELSE "failed"

\* What a row may say: only a key below a new one, two levels down or more,
\* may really be empty.
Meant(row) == \A i \in Cols :
  row[i] = Missing => /\ IsKey(i) /\ LevelPrefix(i) # <<>>
                      /\ meant # <<>> => \A k \in 1..(i - 1) :
                                          IsKey(k) => row[k] # Last(meant)[k]

\* A key may be left out if it and all keys before it repeat the last row.
MayOmit(row, i) ==
  /\ IsKey(i) /\ meant # <<>>
  /\ \A k \in 1..i : IsKey(k) => row[k] = Last(meant)[k]

\* newCell: free cells of the pool (a new one is one nobody used before). Free
\* cells differ in nothing, so it may as well be the first ones.
Taken == [i \in Cols |-> CHOOSE c \in pool : Cardinality({d \in pool : d < c}) = i - 1]

(* NewRow and AddCell for every column: the next row of the sheet, of which *)
(* the keys in omit are left out.                                           *)
ReadRow(row, omit) ==
  /\ rowOutcome = "reading" /\ curr = NoRow /\ rows < MaxDataRows
  /\ Meant(row)
  /\ \A i \in omit : MayOmit(row, i)
  /\ LET data == [i \in Cols |-> IF i \in omit THEN Missing ELSE row[i]]
         filled == RowOfCells(data, Read(prev))
     IN rowContent' = [c \in Ids |-> IF c \in Range(Taken)
                                     THEN filled[CHOOSE i \in Cols : Taken[i] = c]
                                     ELSE rowContent[c]]
  /\ curr' = Taken
  /\ pool' = pool \ Range(Taken)
  /\ rows' = rows + 1
  /\ meant' = Append(meant, row)
  /\ UNCHANGED <<columns, prev, given, rowOutcome>>

ParseRowFreesBoth ==
  /\ curr # NoRow
  /\ given' = Append(given, Read(curr))
  /\ pool' = pool \cup Range(curr)
  /\ prev' = curr
  /\ curr' = NoRow
  /\ UNCHANGED <<columns, meant, rows, rowContent, rowOutcome>>

(* The parser gets the row; then the row before it is freed.                *)
ParseRow ==
  /\ curr # NoRow
  /\ given' = Append(given, Read(curr))
  /\ pool' = pool \cup Range(prev)
  /\ prev' = curr
  /\ curr' = NoRow
  /\ UNCHANGED <<columns, meant, rows, rowContent, rowOutcome>>

(* A row that is ignored, whatever its cells hold: they are freed at once.  *)
IgnoreRow ==
  /\ rowOutcome = "reading" /\ curr = NoRow /\ rows < MaxDataRows
  /\ rowContent' = [c \in Ids |-> IF c \in Range(Taken) THEN Garbage ELSE rowContent[c]]
  /\ rows' = rows + 1
  /\ UNCHANGED <<columns, meant, pool, prev, curr, given, rowOutcome>>

(* A mark that is no boolean (E2013).                                       *)
BadMark ==
  /\ rowOutcome = "reading" /\ curr = NoRow /\ rows < MaxDataRows
  /\ rowOutcome' = "failed"
  /\ UNCHANGED <<columns, meant, rows, rowContent, pool, prev, curr, given>>

(* The parsers of other sheets get the free cells and write to them.        *)
OtherSheet ==
  /\ \E c \in pool : rowContent[c] # Garbage
  /\ rowContent' = [c \in Ids |-> IF c \in pool THEN Garbage ELSE rowContent[c]]
  /\ UNCHANGED <<columns, meant, rows, pool, prev, curr, given, rowOutcome>>

NextRow == \/ \E row \in [Cols -> Data \cup {Missing}], omit \in SUBSET {i \in Cols : IsKey(i)} :
                ReadRow(row, omit)
           \/ ParseRow
           \/ IgnoreRow
           \/ BadMark
           \/ OtherSheet

SpecRows == InitRows /\ [][NextRow]_rowVars
-----------------------------------------------------------------------------
(* The parser is given the rows as they were meant: no cell of a row that   *)
(* is still needed is taken by another sheet, no key is filled in from a    *)
(* row that is ignored or of another parent (RangeDataRows, AddCell).       *)
RowsAsMeant == given = SubSeq(meant, 1, Len(given))
=============================================================================

------------------------------ MODULE RowItems ------------------------------
(***************************************************************************)
(* What the cells that one data row holds for one list or map field mean   *)
(* (internal/confgen/table_parser.go and parser.go), stated without the    *)
(* loops that compute it: RowField has the loops and is checked against    *)
(* these definitions, TableParser uses them for the fields of a record.    *)
(* What a row means is what the options and the comments of the loops say; *)
(* where the code accepts a row that they refuse, the row has a definition *)
(* of its own (EmptyFirst, Hidden).                                        *)
(*                                                                         *)
(* An item is what one index of a horizontal field ("Item1ID", "Item1Num") *)
(* or one separated part of a cell gives: the cell of its key and the cell *)
(* of one more field. A cell holds a number, or nothing (Empty), which     *)
(* reads as the default value 0; so 0 and an empty cell give the same      *)
(* value, but only 0 is "present".                                         *)
(***************************************************************************)
EXTENDS Integers, Sequences

CONSTANTS
  Empty,
  None   \* an option that is not set

ASSUME EmptyAssumption == Empty \notin Nat

Cells == Nat \cup {Empty}
Items == [key : Cells, val : Cells]
Elems == [key : Nat, val : Nat]

ValueOf(cell) == IF cell = Empty THEN 0 ELSE cell
ElemOf(item) == [key |-> ValueOf(item.key), val |-> ValueOf(item.val)]
Present(item) == item.key # Empty \/ item.val # Empty
Blank == [key |-> 0, val |-> 0]

\* parseScalarField for a value that may be there already: it has to agree,
\* but a 0 that is there cannot be told from none.
Agrees(old, cell) == cell = Empty \/ old = 0 \/ old = cell

\* (mutant of Merged: the last value wins)
MergedLast(old, cell) == IF cell = Empty THEN old ELSE cell

Merged(old, cell) == IF old = 0 THEN ValueOf(cell) ELSE old

-----------------------------------------------------------------------------
(***************************************************************************)
(* The options "size" (0 when it is not set) and "fixed" of a horizontal   *)
(* list or map of n detected columns.                                      *)
(***************************************************************************)
IsFixed(o) == o.fixed \/ o.size > 0
GetSize(o, n) == IF o.size > 0 THEN o.size ELSE IF o.fixed THEN n ELSE 0

\* How many of the n columns are read.
Width(o, n) == IF GetSize(o, n) > 0 /\ GetSize(o, n) < n THEN GetSize(o, n) ELSE n

\* No present item behind an absent one, among the items first..last.
HoleFree(items, first, last) ==
  \A i, j \in first..last : i < j /\ Present(items[j]) => Present(items[i])

\* A horizontal list: its items up to the first absent one, all of them when
\* the size is fixed, then filled up with blanks.
RowListOk(o, items) == IsFixed(o) \/ HoleFree(items, 1, Len(items))

RowList(o, items) ==
  LET n == Len(items)
      m == IF IsFixed(o) THEN GetSize(o, n)
           ELSE CHOOSE k \in 0..n : /\ \A i \in 1..k : Present(items[i])
                                    /\ k < n => ~Present(items[k + 1])
  IN [i \in 1..m |-> IF i <= n THEN ElemOf(items[i]) ELSE Blank]

-----------------------------------------------------------------------------
(***************************************************************************)
(* A horizontal map has an entry for each of its items, and blank ones as  *)
(* well when the size is fixed. A blank item has the key 0, and is spare   *)
(* when the key 0 was given before.                                        *)
(***************************************************************************)
Kept(o, item) == IsFixed(o) \/ Present(item)

Spare(o, items, i) ==
  /\ ~Present(items[i])
  /\ \E j \in 1..(i - 1) : Kept(o, items[j]) /\ ValueOf(items[j].key) = 0

Entries(o, items) ==
  {i \in 1..Width(o, Len(items)) : Kept(o, items[i]) /\ ~Spare(o, items, i)}

\* The items at some of the indexes make a map: no hole, and no key twice.
MapOk(o, items, at) ==
  /\ ~IsFixed(o) => \A i, j \in at : i < j /\ Present(items[j]) => Present(items[i])
  /\ \A i, j \in Entries(o, items) \cap at :
       i # j => ValueOf(items[i].key) # ValueOf(items[j].key)

MapOf(o, items, at) == {ElemOf(items[i]) : i \in Entries(o, items) \cap at}

\* What the row means.
RowMapOk(o, items) == MapOk(o, items, 1..Width(o, Len(items)))
RowMap(o, items) == MapOf(o, items, 1..Width(o, Len(items)))

\* What the code reads of it: the loop is over at the first spare item.
ReadBefore(o, items) ==
  {i \in 1..Width(o, Len(items)) : \A j \in 1..i : ~Spare(o, items, j)}

ReadMapOk(o, items) == MapOk(o, items, ReadBefore(o, items))
ReadMap(o, items) == MapOf(o, items, ReadBefore(o, items))

\* An item that is present, and not read.
Hidden(o, items) ==
  \E i \in 1..Width(o, Len(items)) : Present(items[i]) /\ i \notin ReadBefore(o, items)

-----------------------------------------------------------------------------
(***************************************************************************)
(* A list or a map in one cell: the items that its separated parts give,   *)
(* with no empty one in the beginning or the middle, and no key of a map   *)
(* twice. The empty cell has no items.                                     *)
(***************************************************************************)
Unsized == [fixed |-> FALSE, size |-> 0]

CellListOk(items) == RowListOk(Unsized, items)
CellList(items) == RowList(Unsized, items)

\* An empty part that the code does not notice: the index it remembers counts
\* from 0, which is also "none".
EmptyFirst(items) ==
  \E i \in 2..Len(items) : Present(items[i]) /\ ~Present(items[1])

CellMapOk(items) ==
  /\ HoleFree(items, 1, Len(items))
  /\ \A i, j \in 1..Len(items) :
       Present(items[i]) /\ Present(items[j]) /\ i # j =>
         ValueOf(items[i].key) # ValueOf(items[j].key)
CellMap(items) == {ElemOf(items[i]) : i \in {j \in 1..Len(items) : Present(items[j])}}

\* An empty part of a map, which reads as the key 0, behind the key 0.
EmptyIsZero(items) ==
  \E i, j \in 1..Len(items) :
    i < j /\ Present(items[i]) /\ ValueOf(items[i].key) = 0 /\ ~Present(items[j])
=============================================================================

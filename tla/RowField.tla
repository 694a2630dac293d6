------------------------------ MODULE RowField ------------------------------
(***************************************************************************)
(* One list or map field of one record, read from the data rows that       *)
(* belong to the record: parseHorizontalListField, parseHorizontalMapField,*)
(* parseIncellListField and parseIncellMapField of                         *)
(* internal/confgen/table_parser.go, with parseIncellList and the two      *)
(* parseIncellMapWith... of parser.go. One step of the model is one turn   *)
(* of the loop over the items of a row, or what follows the loop.          *)
(*                                                                         *)
(* A cell that does not parse, or fails the checks of its own field        *)
(* (presence, range, refer), makes the row fail whatever the rest is, and  *)
(* is left out. So is what the collectors make of a failed row: here the   *)
(* first error ends the parse.                                             *)
(***************************************************************************)
EXTENDS RowItems, FiniteSets

CONSTANT Inputs  \* the fields and their rows: see InputOK

VARIABLES
  input,     \* the field's options and its rows (never changes)
  row, pos,  \* the row and the item being read
  list, map, \* what the row has given so far: one of them, by layout
  gap,       \* firstNonePresentIndex, or 1 for checkRemainFlag; 0 is none
  seen,      \* cards[cardPrefix]: the values of the unique sub-field so far
  fieldList, fieldMap,  \* the field in the message
  verdict    \* "parsing", "ok" or "error"

fieldVars == <<input, row, pos, list, map, gap, seen, fieldList, fieldMap, verdict>>

Layouts == {"horizontalList", "horizontalMap", "incellList", "incellMap"}
IsList(o) == o.layout \in {"horizontalList", "incellList"}
Horizontal(o) == o.layout \in {"horizontalList", "horizontalMap"}

(***************************************************************************)
(* keyed: the list has a key. distinct: what checkKeyUnique decides about  *)
(* the keys of a horizontal map. unique: the field "val" of an element has *)
(* the property unique; optional: the field, or the sheet, is optional.    *)
(* The rows of a horizontal field have one item per column; a cell that is *)
(* not empty has at least one separated part.                              *)
(***************************************************************************)
InputOK(o) ==
  /\ o.layout \in Layouts
  /\ {o.fixed, o.aggregate, o.keyed, o.distinct, o.unique, o.optional} \subseteq BOOLEAN
  /\ o.size \in Nat
  /\ o.sequence \in Nat \cup {None}
  /\ o.rows \in Seq(Seq(Items))
  /\ Horizontal(o) => \A r, s \in 1..Len(o.rows) : Len(o.rows[r]) = Len(o.rows[s])

ASSUME InputsAssumption == \A o \in Inputs : InputOK(o)

Row == input.rows[row]
Item == Row[pos]
Columns == Len(Row)
Last == IF Horizontal(input) THEN Width(input, Columns) ELSE Columns

InitField ==
  /\ input \in Inputs
  /\ row = 1 /\ pos = 1
  /\ list = <<>> /\ map = {} /\ gap = 0 /\ seen = {}
  /\ fieldList = <<>> /\ fieldMap = {}
  /\ verdict = "parsing"

-----------------------------------------------------------------------------
Parsing(layout) ==
  /\ verdict = "parsing" /\ row <= Len(input.rows)
  /\ input.layout = layout

Reading(layout) == Parsing(layout) /\ pos <= Last
RowIsRead(layout) ==
  Parsing(layout) /\ pos > Last /\ (Horizontal(input) => Columns > 0)

Fail ==
  /\ verdict' = "error"
  /\ UNCHANGED <<input, row, pos, list, map, gap, seen, fieldList, fieldMap>>

Skip == UNCHANGED <<input, row, list, map, seen, fieldList, fieldMap, verdict>>

Pass == pos' = pos + 1 /\ UNCHANGED gap /\ Skip

-----------------------------------------------------------------------------
(***************************************************************************)
(* checkSubFieldProp for a unique sub-field: its values are remembered for *)
(* the whole sheet under the field's card prefix, and the default value of *)
(* an optional field is not counted.                                       *)
(***************************************************************************)
CountsValue(e) == input.unique /\ ~(input.optional /\ e.val = 0)

\* (mutant of SubFieldOk: the check is lost)
SubFieldUnchecked(e) == TRUE

SubFieldOk(e) == CountsValue(e) => e.val \notin seen
SeenWith(e) == IF CountsValue(e) THEN seen \cup {e.val} ELSE seen

\* checkKeySequence: an empty cell is not a number.
InSequence(keyCell, count, merged) ==
  input.sequence # None =>
    keyCell # Empty /\ keyCell = input.sequence + count - (IF merged THEN 1 ELSE 0)

AppendElem(e) ==
  /\ list' = Append(list, e)
  /\ seen' = SeenWith(e)
  /\ pos' = pos + 1
  /\ UNCHANGED <<input, row, map, gap, fieldList, fieldMap, verdict>>

-----------------------------------------------------------------------------
\* (mutant of HorizontalElem: the rest is not checked behind an absent item)
HorizontalElemLoose ==
  /\ Reading("horizontalList")
  /\ \/ ~Present(Item) /\ ~IsFixed(input) /\ Pass
     \/ (Present(Item) \/ IsFixed(input)) /\ AppendElem(ElemOf(Item))

\* An index of a horizontal list.
HorizontalElem ==
  /\ Reading("horizontalList")
  /\ \/ gap # 0 /\ Present(Item) /\ Fail                              \* E2016
     \/ gap # 0 /\ ~Present(Item) /\ Pass
     \/ /\ gap = 0 /\ ~Present(Item) /\ ~IsFixed(input)
        /\ gap' = pos /\ pos' = pos + 1 /\ Skip
     \/ /\ gap = 0 /\ (Present(Item) \/ IsFixed(input))
        /\ \/ ~SubFieldOk(ElemOf(Item)) /\ Fail                       \* E2022
           \/ SubFieldOk(ElemOf(Item)) /\ AppendElem(ElemOf(Item))

HasKey(key) == \E i \in 1..Len(list) : list[i].key = key

\* A part of a list in one cell. The index that is remembered counts from 0,
\* so an absent first part is forgotten.
IncellElem ==
  /\ Reading("incellList")
  /\ \/ gap # 0 /\ Present(Item) /\ Fail                              \* E2016
     \/ gap # 0 /\ ~Present(Item) /\ Pass
     \/ /\ gap = 0 /\ ~Present(Item)
        /\ gap' = pos - 1 /\ pos' = pos + 1 /\ Skip
     \/ /\ gap = 0 /\ Present(Item)
        /\ LET e == ElemOf(Item)
               ok == (input.keyed => ~HasKey(e.key)) /\ SubFieldOk(e)
           IN \/ ~ok /\ Fail                                          \* E2028, E2022
              \/ ok /\ AppendElem(e)

-----------------------------------------------------------------------------
HasEntry(key) == \E e \in map : e.key = key

PutEntry(e) ==
  /\ map' = {f \in map : f.key # e.key} \cup {e}
  /\ seen' = IF HasEntry(e.key) THEN seen ELSE SeenWith(e)
  /\ pos' = pos + 1
  /\ UNCHANGED <<input, row, list, gap, fieldList, fieldMap, verdict>>

\* An index of a horizontal map whose key is not in the map yet.
NewEntry(e) ==
  \/ ~InSequence(Item.key, Cardinality(map), FALSE) /\ Fail           \* E2003
  \/ /\ InSequence(Item.key, Cardinality(map), FALSE)
     /\ \/ gap # 0 /\ Present(Item) /\ Fail
        \/ gap # 0 /\ ~Present(Item) /\ Pass
        \/ /\ gap = 0 /\ ~Present(Item) /\ ~IsFixed(input)
           /\ gap' = 1 /\ pos' = pos + 1 /\ Skip
        \/ /\ gap = 0 /\ (Present(Item) \/ IsFixed(input))
           /\ \/ ~SubFieldOk(e) /\ Fail                               \* E2022
              \/ SubFieldOk(e) /\ PutEntry(e)

\* An index whose key is there: the value is merged into that entry, or fails.
OldEntry(old) ==
  LET ok == /\ ~input.distinct
            /\ InSequence(Item.key, Cardinality(map), TRUE)
            /\ Agrees(old.val, Item.val)
            /\ gap = 0
  IN \/ ~ok /\ Fail                                  \* E2005, E2003, E2023, hole
     \/ ok /\ PutEntry([old EXCEPT !.val = Merged(old.val, Item.val)])

HorizontalEntry ==
  /\ Reading("horizontalMap")
  /\ LET e == ElemOf(Item) IN
     \/ /\ Item.key = Empty /\ HasEntry(0) /\ Item.val # Empty /\ Fail     \* E2017
     \/ /\ Item.key = Empty /\ HasEntry(0) /\ Item.val = Empty             \* break
        /\ pos' = Last + 1 /\ UNCHANGED gap /\ Skip
     \/ ~HasEntry(e.key) /\ NewEntry(e)
     \/ Item.key # Empty /\ \E old \in map : old.key = e.key /\ OldEntry(old)

\* A part of a map in one cell.
IncellEntry ==
  /\ Reading("incellMap")
  /\ LET e == ElemOf(Item) IN
     \/ HasEntry(e.key) /\ Fail                                            \* E2005
     \/ /\ ~HasEntry(e.key) /\ ~Present(Item)                              \* break
        /\ pos' = Last + 1 /\ UNCHANGED gap /\ Skip
     \/ /\ ~HasEntry(e.key) /\ Present(Item)
        /\ map' = map \cup {e}
        /\ pos' = pos + 1
        /\ UNCHANGED <<input, row, list, gap, seen, fieldList, fieldMap, verdict>>

-----------------------------------------------------------------------------
NextRow ==
  /\ row' = row + 1 /\ pos' = 1
  /\ list' = <<>> /\ map' = {} /\ gap' = 0
  /\ UNCHANGED <<input, seen, verdict>>

\* No column of a horizontal field: E2014's kin, or fine when it is optional.
NoColumns ==
  /\ \E layout \in Layouts : Parsing(layout)
  /\ Horizontal(input) /\ Columns = 0
  /\ \/ input.optional /\ NextRow /\ UNCHANGED <<fieldList, fieldMap>>
     \/ ~input.optional /\ Fail

\* A fixed list is filled up with blank elements, which nothing checks.
Filled ==
  LET size == IF Horizontal(input) THEN GetSize(input, Columns) ELSE 0 IN
  IF IsFixed(input) /\ size > Len(list)
  THEN [i \in 1..size |-> IF i <= Len(list) THEN list[i] ELSE Blank]
  ELSE list

\* An aggregated list with a key: each new element is compared with those of
\* the field, among them the ones that this row has just added.
Repeats(new) ==
  \E i \in 1..Len(new) :
     \/ \E j \in 1..Len(fieldList) : fieldList[j].key = new[i].key
     \/ \E j \in 1..(i - 1) : new[j].key = new[i].key

\* After the loop: aggregate what the row gave, or compare it.
ListRowEnds ==
  /\ \E layout \in {"horizontalList", "incellList"} : RowIsRead(layout)
  /\ LET new == Filled
         first == fieldList = <<>>
         ok == first \/ (IF input.aggregate THEN input.keyed => ~Repeats(new)
                         ELSE fieldList = new)
     IN \/ new = <<>> /\ NextRow /\ UNCHANGED <<fieldList, fieldMap>>
        \/ new # <<>> /\ ~ok /\ Fail                              \* E2028, E2023
        \/ /\ new # <<>> /\ ok
           /\ fieldList' = IF first \/ ~input.aggregate THEN new ELSE fieldList \o new
           /\ NextRow /\ UNCHANGED fieldMap

MapRowEnds ==
  /\ \E layout \in {"horizontalMap", "incellMap"} : RowIsRead(layout)
  /\ LET first == fieldMap = {}
         ok == first \/ (IF input.aggregate
                         THEN \A e \in map, f \in fieldMap : e.key # f.key
                         ELSE fieldMap = map)
     IN \/ map = {} /\ NextRow /\ UNCHANGED <<fieldList, fieldMap>>
        \/ map # {} /\ ~ok /\ Fail                                \* E2005, E2023
        \/ map # {} /\ ok /\ fieldMap' = fieldMap \cup map /\ NextRow /\ UNCHANGED fieldList

AllRead ==
  /\ verdict = "parsing" /\ row > Len(input.rows)
  /\ verdict' = "ok"
  /\ UNCHANGED <<input, row, pos, list, map, gap, seen, fieldList, fieldMap>>

NextField ==
  \/ HorizontalElem \/ IncellElem \/ HorizontalEntry \/ IncellEntry
  \/ NoColumns \/ ListRowEnds \/ MapRowEnds \/ AllRead

SpecField == InitField /\ [][NextField]_fieldVars
-----------------------------------------------------------------------------
(***************************************************************************)
(* Properties                                                              *)
(***************************************************************************)
RowOk ==
  CASE input.layout = "horizontalList" -> RowListOk(input, Row)
    [] input.layout = "incellList" -> CellListOk(Row)
    [] input.layout = "horizontalMap" -> RowMapOk(input, Row)
    [] input.layout = "incellMap" -> CellMapOk(Row)

\* The rows with an empty item that the loop does not notice. Two of the
\* layouts contradict a comment of the code (see HolesRefused), and the third
\* one has it as work to do.
Overlooked ==
  CASE input.layout = "horizontalList" -> FALSE
    [] input.layout = "incellList" -> EmptyFirst(Row)
    [] input.layout = "horizontalMap" -> Hidden(input, Row)
    [] input.layout = "incellMap" -> ~HoleFree(Row, 1, Columns)

\* When the loop of a row is over without an error, the row was acceptable and
\* has given exactly what its items mean, in their order: no turn of the loop
\* confuses an index, stops too early or keeps the element of another turn. And
\* there is no false alarm: a row that breaks none of the properties (unique,
\* key, sequence) fails in its loop only when its items are not acceptable.
RowIsReference ==
  /\ (\E layout \in Layouts : RowIsRead(layout)) /\ (IsList(input) \/ input.distinct)
     /\ ~Overlooked
       => /\ RowOk
          /\ CASE input.layout = "horizontalList" -> Filled = RowList(input, Row)
               [] input.layout = "incellList" -> list = CellList(Row)
               [] input.layout = "horizontalMap" -> map = RowMap(input, Row)
               [] input.layout = "incellMap" -> map = CellMap(Row)
  /\ verdict = "error" /\ pos <= Last =>
       \/ ~RowOk
       \/ input.layout = "incellMap" /\ EmptyIsZero(Row)
       \/ input.unique \/ input.keyed \/ ~input.distinct \/ input.sequence # None

\* A unique sub-field has different values in all the elements of the field, of
\* whatever rows they come (0 aside, which blank and optional elements share).
ValuesUnique ==
  input.unique =>
    \A i, j \in 1..Len(fieldList) :
      i # j /\ fieldList[i].val = fieldList[j].val => fieldList[i].val = 0
=============================================================================

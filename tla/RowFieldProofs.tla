--------------------------- MODULE RowFieldProofs ---------------------------
(***************************************************************************)
(* Theorems of RowField, for any options, rows and values.                 *)
(*                                                                         *)
(* Each of the four loops has an invariant over the items that it has      *)
(* passed, which is stated without variables (HorizontalListLoop and so    *)
(* on): lemmas say what a turn of the loop makes of it, what it says when  *)
(* the loop is over, and why a turn that fails is right to do so.          *)
(***************************************************************************)
EXTENDS RowField, SequenceTheorems, TLAPS

Loop == verdict = "parsing" /\ row <= Len(input.rows)

TypeInv ==
  /\ input \in Inputs
  /\ row \in Nat \ {0} /\ pos \in Nat \ {0} /\ gap \in Nat
  /\ list \in Seq(Elems) /\ map \subseteq Elems
  /\ fieldList \in Seq(Elems) /\ fieldMap \subseteq Elems
  /\ verdict \in {"parsing", "ok", "error"}
  /\ verdict = "error" => row <= Len(input.rows)
  /\ Loop => pos <= Last + 1

LEMMA InputFacts ==
  ASSUME input \in Inputs
  PROVE  /\ InputOK(input) /\ input.layout \in Layouts
         /\ input.size \in Nat /\ input.fixed \in BOOLEAN
         /\ input.rows \in Seq(Seq(Items)) /\ Len(input.rows) \in Nat
BY InputsAssumption, LenProperties DEF InputOK

LEMMA RowFacts ==
  ASSUME input \in Inputs, row \in Nat \ {0}, row <= Len(input.rows)
  PROVE  /\ Row \in Seq(Items) /\ Columns \in Nat
         /\ \A i \in 1..Columns : Row[i] \in Items
<1>1. row \in 1..Len(input.rows)
  BY InputFacts
<1>2. Row \in Seq(Items)
  BY <1>1, InputFacts, ElementOfSeq DEF Row
<1> QED
  BY <1>2, LenProperties, ElementOfSeq DEF Columns

LEMMA ItemFacts ==
  ASSUME NEW item \in Items
  PROVE  /\ item.key \in Cells /\ item.val \in Cells
         /\ ElemOf(item) \in Elems /\ ElemOf(item).key = ValueOf(item.key)
         /\ ElemOf(item).val = ValueOf(item.val)
BY DEF Items, Elems, ElemOf, ValueOf, Cells

\* How many columns are read, and how many elements a list gets.
LEMMA WidthFacts ==
  ASSUME NEW o, o.size \in Nat, o.fixed \in BOOLEAN, NEW n \in Nat
  PROVE  /\ GetSize(o, n) \in Nat /\ Width(o, n) \in 0..n
         /\ ~IsFixed(o) => GetSize(o, n) = 0 /\ Width(o, n) = n
         /\ IsFixed(o) /\ n > 0 =>
              /\ GetSize(o, n) > 0
              /\ GetSize(o, n) <= n => Width(o, n) = GetSize(o, n)
              /\ GetSize(o, n) > n => Width(o, n) = n
BY DEF GetSize, Width, IsFixed

LEMMA LastFacts ==
  ASSUME input \in Inputs, row \in Nat \ {0}, row <= Len(input.rows)
  PROVE  Last \in 0..Columns
BY InputFacts, RowFacts, WidthFacts DEF Last
-----------------------------------------------------------------------------
LEMMA TypeInit == InitField => TypeInv
<1> SUFFICES ASSUME InitField PROVE TypeInv
  OBVIOUS
<1>1. <<>> \in Seq(Elems)
  BY EmptySeq
<1>2. Loop => Last \in 0..Columns /\ Columns \in Nat
  BY LastFacts, RowFacts DEF InitField, Loop
<1>3. Loop => pos <= Last + 1
  BY <1>2 DEF InitField
<1> QED
  BY <1>1, <1>3 DEF InitField, TypeInv

LEMMA FilledType ==
  ASSUME TypeInv, Loop
  PROVE  Filled \in Seq(Elems)
<1> DEFINE size == IF Horizontal(input) THEN GetSize(input, Columns) ELSE 0
           full == [i \in 1..size |-> IF i <= Len(list) THEN list[i] ELSE Blank]
<1>1. size \in Nat
  BY InputFacts, RowFacts, WidthFacts DEF TypeInv, Loop
<1>2. Blank \in Elems /\ list \in Seq(Elems) /\ Len(list) \in Nat
  BY LenProperties DEF Blank, Elems, TypeInv
<1>3. \A i \in 1..size : (IF i <= Len(list) THEN list[i] ELSE Blank) \in Elems
  BY <1>1, <1>2, ElementOfSeq
<1>4. full \in Seq(Elems)
  BY <1>1, <1>3
<1>5. Filled = IF IsFixed(input) /\ size > Len(list) THEN full ELSE list
  BY DEF Filled
<1> QED
  BY <1>2, <1>4, <1>5

LEMMA NextRowType ==
  ASSUME TypeInv, Loop, NextRow,
         fieldList' \in Seq(Elems), fieldMap' \subseteq Elems
  PROVE  TypeInv'
<1>1. /\ row' = row + 1 /\ pos' = 1 /\ list' = <<>> /\ map' = {} /\ gap' = 0
      /\ UNCHANGED <<input, seen, verdict>>
  BY DEF NextRow
<1>2. Loop' => Last' \in 0..Columns'
  <2>1. SUFFICES ASSUME Loop' PROVE Last' \in 0..Columns'
    OBVIOUS
  <2>2. input' \in Inputs /\ row' \in Nat \ {0} /\ row' <= Len(input'.rows)
    BY <1>1, <2>1 DEF TypeInv, Loop
  <2>3. (input \in Inputs /\ row \in Nat \ {0} /\ row <= Len(input.rows) => Last \in 0..Columns)'
    BY LastFacts, PTL
  <2> QED
    BY <2>2, <2>3
<1>3. <<>> \in Seq(Elems)
  BY EmptySeq
<1>4. Loop' => pos' <= Last' + 1
  BY <1>1, <1>2
<1> QED
  BY <1>1, <1>3, <1>4 DEF TypeInv, Loop

LEMMA TypeStep == TypeInv /\ [NextField]_fieldVars => TypeInv'
<1> SUFFICES ASSUME TypeInv, [NextField]_fieldVars PROVE TypeInv'
  OBVIOUS
<1> DEFINE Same == UNCHANGED <<input, row, fieldList, fieldMap, verdict>>
<1>1. Loop => /\ Row \in Seq(Items) /\ Columns \in Nat /\ Last \in 0..Columns
              /\ \A i \in 1..Columns : Row[i] \in Items
  BY RowFacts, LastFacts DEF TypeInv, Loop
<1>2. ASSUME Loop, Fail PROVE TypeInv'
  BY <1>2 DEF Fail, TypeInv, Loop
<1>3. ASSUME Loop, Same, pos' \in Nat \ {0}, pos' <= Last + 1, gap' \in Nat,
             list' \in Seq(Elems), map' \subseteq Elems
      PROVE  TypeInv'
  <2>1. Last' = Last
    BY <1>3 DEF Last, Columns, Row, Horizontal
  <2> QED
    BY <1>3, <2>1 DEF TypeInv, Loop
<1>4. ASSUME NEW layout, Reading(layout)
      PROVE  /\ Loop /\ pos \in 1..Last /\ Last \in Nat /\ pos + 1 \in Nat \ {0} /\ pos + 1 <= Last + 1
             /\ Item \in Items /\ ElemOf(Item) \in Elems
  <2>1. Loop /\ pos \in 1..Last /\ Last \in 0..Columns /\ Columns \in Nat
    BY <1>1, <1>4 DEF Reading, Parsing, Loop, TypeInv
  <2>2. Item \in Items
    BY <1>1, <2>1 DEF Item
  <2> QED
    BY <2>1, <2>2, ItemFacts
<1>5. ASSUME NEW layout, Reading(layout), Pass PROVE TypeInv'
  BY <1>3, <1>4, <1>5 DEF Pass, Skip, TypeInv
<1>6. ASSUME NEW layout, Reading(layout), Skip, pos' \in {pos + 1, Last + 1}, gap' \in {gap, 1, pos, pos - 1}
      PROVE  TypeInv'
  BY <1>3, <1>4, <1>6 DEF Skip, TypeInv
<1>7. ASSUME NEW layout, Reading(layout), AppendElem(ElemOf(Item)) PROVE TypeInv'
  <2>1. list' \in Seq(Elems)
    BY <1>4, <1>7 DEF AppendElem, TypeInv
  <2> QED
    BY <1>3, <1>4, <1>7, <2>1 DEF AppendElem, TypeInv
<1>8. ASSUME NEW layout, Reading(layout), NEW e \in Elems, PutEntry(e) PROVE TypeInv'
  <2>1. map' \subseteq Elems
    BY <1>8 DEF PutEntry, TypeInv
  <2> QED
    BY <1>3, <1>4, <1>8, <2>1 DEF PutEntry, TypeInv
<1>9. CASE HorizontalElem
  <2>1. Reading("horizontalList")
    BY <1>9 DEF HorizontalElem
  <2>2. \/ Fail \/ Pass \/ AppendElem(ElemOf(Item))
        \/ gap' = pos /\ pos' = pos + 1 /\ Skip
    BY <1>9 DEF HorizontalElem
  <2> QED
    BY <1>2, <1>4, <1>5, <1>6, <1>7, <2>1, <2>2
<1>10. CASE IncellElem
  <2>1. Reading("incellList")
    BY <1>10 DEF IncellElem
  <2>2. \/ Fail \/ Pass \/ AppendElem(ElemOf(Item))
        \/ gap' = pos - 1 /\ pos' = pos + 1 /\ Skip
    BY <1>10 DEF IncellElem
  <2> QED
    BY <1>2, <1>4, <1>5, <1>6, <1>7, <2>1, <2>2
<1>11. CASE HorizontalEntry
  <2>1. Reading("horizontalMap")
    BY <1>11 DEF HorizontalEntry
  <2>2. ASSUME NEW old \in map, OldEntry(old) PROVE TypeInv'
    <3>1. [old EXCEPT !.val = Merged(old.val, Item.val)] \in Elems
      BY <1>4, <2>1, ItemFacts DEF TypeInv, Elems, Merged, ValueOf, Cells
    <3> QED
      BY <1>2, <1>4, <1>8, <2>1, <2>2, <3>1 DEF OldEntry
  <2>3. ASSUME NewEntry(ElemOf(Item)) PROVE TypeInv'
    <3>1. \/ Fail \/ Pass \/ PutEntry(ElemOf(Item))
          \/ (gap' = 1 /\ pos' = pos + 1 /\ Skip)
      BY <2>3 DEF NewEntry
    <3> QED
      BY <1>2, <1>4, <1>5, <1>6, <1>8, <2>1, <3>1
  <2>4. \/ Fail
        \/ pos' = Last + 1 /\ UNCHANGED gap /\ Skip
        \/ NewEntry(ElemOf(Item))
        \/ \E old \in map : OldEntry(old)
    BY <1>11 DEF HorizontalEntry
  <2> QED
    BY <1>2, <1>4, <1>6, <2>1, <2>2, <2>3, <2>4
<1>12. CASE IncellEntry
  <2>1. Reading("incellMap")
    BY <1>12 DEF IncellEntry
  <2>2. \/ Fail
        \/ pos' = Last + 1 /\ UNCHANGED gap /\ Skip
        \/ /\ map' = map \cup {ElemOf(Item)} /\ pos' = pos + 1
           /\ UNCHANGED <<input, row, list, gap, seen, fieldList, fieldMap, verdict>>
    BY <1>12 DEF IncellEntry
  <2>3. ASSUME map' = map \cup {ElemOf(Item)}, pos' = pos + 1,
               UNCHANGED <<input, row, list, gap, seen, fieldList, fieldMap, verdict>>
        PROVE  TypeInv'
    BY <1>3, <1>4, <2>1, <2>3 DEF TypeInv
  <2> QED
    BY <1>2, <1>4, <1>6, <2>1, <2>2, <2>3
<1>13. CASE NoColumns
  <2>1. Loop
    BY <1>13 DEF NoColumns, Parsing, Loop
  <2>2. Fail \/ (NextRow /\ UNCHANGED <<fieldList, fieldMap>>)
    BY <1>13 DEF NoColumns
  <2> QED
    BY <1>2, <2>1, <2>2, NextRowType DEF TypeInv
<1>14. CASE ListRowEnds
  <2>1. Loop
    BY <1>14 DEF ListRowEnds, RowIsRead, Parsing, Loop
  <2>2. Fail \/ (NextRow /\ fieldMap' = fieldMap
                 /\ fieldList' \in {fieldList, Filled, fieldList \o Filled})
    BY <1>14 DEF ListRowEnds
  <2>3. fieldList \in Seq(Elems) /\ Filled \in Seq(Elems) /\ fieldList \o Filled \in Seq(Elems)
    BY <2>1, FilledType, ConcatProperties DEF TypeInv
  <2> QED
    BY <1>2, <2>1, <2>2, <2>3, NextRowType DEF TypeInv
<1>15. CASE MapRowEnds
  <2>1. Loop
    BY <1>15 DEF MapRowEnds, RowIsRead, Parsing, Loop
  <2>2. Fail \/ (NextRow /\ fieldList' = fieldList /\ fieldMap' \in {fieldMap, fieldMap \cup map})
    BY <1>15 DEF MapRowEnds
  <2> QED
    BY <1>2, <2>1, <2>2, NextRowType DEF TypeInv
<1>16. CASE AllRead
  BY <1>16 DEF AllRead, TypeInv, Loop
<1>17. CASE UNCHANGED fieldVars
  <2>1. Last' = Last
    BY <1>17 DEF fieldVars, Last, Columns, Row, Horizontal
  <2> QED
    BY <1>17, <2>1 DEF fieldVars, TypeInv, Loop
<1> QED
  BY <1>9, <1>10, <1>11, <1>12, <1>13, <1>14, <1>15, <1>16, <1>17 DEF NextField

(***************************************************************************)
(* Every reachable state of the loops is well typed, and no position is    *)
(* beyond the columns that are read.                                       *)
(***************************************************************************)
THEOREM TypeCorrect == SpecField => []TypeInv
<1> QED
  BY TypeInit, TypeStep, PTL DEF SpecField
-----------------------------------------------------------------------------
(***************************************************************************)
(* No value of a unique sub-field is given twice: what is in the row and   *)
(* in the field is remembered.                                             *)
(***************************************************************************)
Differ(l) ==
  \A i, j \in 1..Len(l) : i # j /\ l[i].val = l[j].val => l[i].val = 0
Apart(k, l) ==
  \A i \in 1..Len(k), j \in 1..Len(l) : k[i].val = l[j].val => k[i].val = 0
Remembered(l, values) == \A i \in 1..Len(l) : l[i].val = 0 \/ l[i].val \in values

UniqueInv ==
  input.unique =>
    /\ Differ(list) /\ Differ(fieldList) /\ Apart(fieldList, list)
    /\ Remembered(list, seen) /\ Remembered(fieldList, seen)

LEMMA DifferOrdered ==
  ASSUME NEW l, Len(l) \in Nat,
         \A i, j \in 1..Len(l) : i < j /\ l[i].val = l[j].val => l[i].val = 0
  PROVE  Differ(l)
<1> SUFFICES ASSUME NEW i \in 1..Len(l), NEW j \in 1..Len(l), i # j, l[i].val = l[j].val
             PROVE  l[i].val = 0
  BY DEF Differ
<1>1. i < j \/ j < i
  OBVIOUS
<1> QED
  BY <1>1

LEMMA AppendFacts ==
  ASSUME NEW l \in Seq(Elems), NEW e \in Elems
  PROVE  /\ Append(l, e) \in Seq(Elems) /\ Len(l) \in Nat /\ Len(Append(l, e)) = Len(l) + 1
         /\ Append(l, e)[Len(l) + 1] = e
         /\ \A i \in 1..Len(l) : Append(l, e)[i] = l[i]
OBVIOUS

\* The element is one whose value is new, or 0.
LEMMA UniqueTakes ==
  ASSUME TypeInv, UniqueInv, NEW e \in Elems, SubFieldOk(e), AppendElem(e)
  PROVE  UniqueInv'
<1> SUFFICES ASSUME input.unique
             PROVE  /\ Differ(list') /\ Apart(fieldList, list')
                    /\ Remembered(list', seen') /\ Remembered(fieldList, seen')
  BY DEF UniqueInv, AppendElem, Differ, Apart, Remembered
<1>1. /\ Differ(list) /\ Apart(fieldList, list) /\ Remembered(list, seen) /\ Remembered(fieldList, seen)
  BY DEF UniqueInv
<1>2. list' = Append(list, e) /\ seen' = SeenWith(e)
  BY DEF AppendElem
<1>3. seen \subseteq seen' /\ (e.val = 0 \/ (e.val \in seen' /\ e.val \notin seen))
  BY <1>2 DEF SeenWith, SubFieldOk, CountsValue
<1>4. /\ Len(list) \in Nat /\ Len(list') = Len(list) + 1 /\ list'[Len(list) + 1] = e
      /\ \A i \in 1..Len(list) : list'[i] = list[i]
  BY <1>2, AppendFacts DEF TypeInv
<1>5. Remembered(list', seen')
  BY <1>1, <1>3, <1>4 DEF Remembered
<1>6. Differ(list')
  BY <1>1, <1>3, <1>4 DEF Differ, Remembered
<1>7. Apart(fieldList, list')
  BY <1>1, <1>3, <1>4 DEF Apart, Remembered
<1> QED
  BY <1>1, <1>3, <1>5, <1>6, <1>7 DEF Remembered

\* What a row adds to the field is what it has read, and blanks.
LEMMA FilledFacts ==
  ASSUME TypeInv, Loop
  PROVE  \A i \in 1..Len(Filled) :
           (i \in 1..Len(list) /\ Filled[i] = list[i]) \/ Filled[i].val = 0
<1> DEFINE size == IF Horizontal(input) THEN GetSize(input, Columns) ELSE 0
           full == [i \in 1..size |-> IF i <= Len(list) THEN list[i] ELSE Blank]
<1>1. size \in Nat /\ Len(list) \in Nat
  BY InputFacts, RowFacts, WidthFacts, LenProperties DEF TypeInv, Loop
<1>2. Filled = IF IsFixed(input) /\ size > Len(list) THEN full ELSE list
  BY DEF Filled
<1> HIDE DEF size
<1>3. Len(full) = size /\ \A i \in 1..size : full[i] = IF i <= Len(list) THEN list[i] ELSE Blank
  BY <1>1
<1>4. Blank.val = 0
  BY DEF Blank
<1> HIDE DEF full
<1> QED
  BY <1>1, <1>2, <1>3, <1>4

LEMMA UniqueRowEnds ==
  ASSUME TypeInv, UniqueInv, Loop, input.unique,
         fieldList' \in {fieldList, Filled, fieldList \o Filled}, seen' = seen
  PROVE  Differ(fieldList') /\ Remembered(fieldList', seen')
<1>1. /\ Differ(list) /\ Differ(fieldList) /\ Apart(fieldList, list)
      /\ Remembered(list, seen) /\ Remembered(fieldList, seen)
  BY DEF UniqueInv
<1>2. Filled \in Seq(Elems) /\ fieldList \in Seq(Elems) /\ Len(Filled) \in Nat /\ Len(fieldList) \in Nat
  BY FilledType, LenProperties DEF TypeInv
<1>3. Differ(Filled) /\ Remembered(Filled, seen) /\ Apart(fieldList, Filled)
  BY <1>1, FilledFacts DEF Differ, Remembered, Apart
<1>4. /\ Len(fieldList \o Filled) = Len(fieldList) + Len(Filled)
      /\ \A i \in 1..Len(fieldList) : (fieldList \o Filled)[i] = fieldList[i]
      /\ \A i \in (Len(fieldList) + 1)..(Len(fieldList) + Len(Filled)) :
           i - Len(fieldList) \in 1..Len(Filled)
           /\ (fieldList \o Filled)[i] = Filled[i - Len(fieldList)]
  BY <1>2, ConcatProperties
<1>5. Remembered(fieldList \o Filled, seen)
  BY <1>1, <1>2, <1>3, <1>4 DEF Remembered
<1>6. Differ(fieldList \o Filled)
  <2> SUFFICES ASSUME NEW both, both = fieldList \o Filled
               PROVE  Differ(both)
    OBVIOUS
  <2>1. ASSUME NEW i \in 1..Len(both), NEW j \in 1..Len(both), i < j, both[i].val = both[j].val
        PROVE  both[i].val = 0
    <3>1. CASE j <= Len(fieldList)
      BY <1>1, <1>2, <1>4, <2>1, <3>1 DEF Differ
    <3>2. CASE i > Len(fieldList)
      <4> DEFINE m == i - Len(fieldList)
                 n == j - Len(fieldList)
      <4>1. /\ m \in 1..Len(Filled) /\ n \in 1..Len(Filled) /\ m # n
            /\ both[i] = Filled[m] /\ both[j] = Filled[n]
        BY <1>2, <1>4, <2>1, <3>2
      <4> HIDE DEF m, n
      <4> QED
        BY <1>3, <2>1, <4>1 DEF Differ
    <3>3. CASE i <= Len(fieldList) /\ j > Len(fieldList)
      BY <1>2, <1>3, <1>4, <2>1, <3>3 DEF Apart
    <3> QED
      BY <1>2, <1>4, <3>1, <3>2, <3>3
  <2>2. Len(both) \in Nat
    BY <1>2, <1>4
  <2> QED
    BY ONLY <2>1, <2>2, DifferOrdered
<1> QED
  BY <1>1, <1>3, <1>5, <1>6

LEMMA UniqueStep == TypeInv /\ UniqueInv /\ [NextField]_fieldVars => UniqueInv'
<1> SUFFICES ASSUME TypeInv, UniqueInv, [NextField]_fieldVars PROVE UniqueInv'
  OBVIOUS
<1> DEFINE Same == UNCHANGED <<input, list, fieldList>> /\ seen \subseteq seen'
<1>1. ASSUME Same PROVE UniqueInv'
  BY <1>1 DEF UniqueInv, Differ, Apart, Remembered
<1>2. ASSUME Fail \/ Skip \/ Pass PROVE Same
  BY <1>2 DEF Fail, Skip, Pass
<1>3. ASSUME Loop, NextRow, fieldList' \in {fieldList, Filled, fieldList \o Filled}
      PROVE  UniqueInv'
  <2>1. input' = input /\ list' = <<>> /\ seen' = seen
    BY <1>3 DEF NextRow
  <2>2. input.unique => Differ(fieldList') /\ Remembered(fieldList', seen')
    BY <1>3, <2>1, UniqueRowEnds
  <2>3. Differ(<<>>) /\ Remembered(<<>>, seen') /\ Apart(fieldList', <<>>)
    BY DEF Differ, Remembered, Apart
  <2>4. input.unique => /\ Differ(list') /\ Differ(fieldList') /\ Apart(fieldList', list')
                        /\ Remembered(list', seen') /\ Remembered(fieldList', seen')
    BY <2>1, <2>2, <2>3
  <2> QED
    BY <2>1, <2>4 DEF UniqueInv, Differ, Apart, Remembered
<1>4. ASSUME NEW e, PutEntry(e) PROVE Same
  BY <1>4 DEF PutEntry, SeenWith
<1>5. CASE HorizontalElem \/ IncellElem
  <2>1. Item \in Items
    BY <1>5, RowFacts, LastFacts DEF HorizontalElem, IncellElem, Reading, Parsing, TypeInv, Item
  <2>2. ElemOf(Item) \in Elems
    BY <2>1, ItemFacts
  <2>3. Fail \/ Skip \/ Pass \/ (SubFieldOk(ElemOf(Item)) /\ AppendElem(ElemOf(Item)))
    BY <1>5 DEF HorizontalElem, IncellElem
  <2> QED
    BY <1>1, <1>2, <2>2, <2>3, UniqueTakes
<1>6. CASE HorizontalEntry
  <2>1. Fail \/ Skip \/ Pass \/ (\E e : PutEntry(e))
    BY <1>6 DEF HorizontalEntry, NewEntry, OldEntry
  <2> QED
    BY <1>1, <1>2, <1>4, <2>1
<1>7. CASE IncellEntry
  BY <1>1, <1>2, <1>7 DEF IncellEntry
<1>8. CASE NoColumns
  BY <1>1, <1>2, <1>3, <1>8 DEF NoColumns, Parsing, Loop
<1>9. CASE ListRowEnds
  <2>1. Loop
    BY <1>9 DEF ListRowEnds, RowIsRead, Parsing, Loop
  <2>2. Fail \/ (NextRow /\ fieldList' \in {fieldList, Filled, fieldList \o Filled})
    BY <1>9 DEF ListRowEnds
  <2> QED
    BY <1>1, <1>2, <1>3, <2>1, <2>2
<1>10. CASE MapRowEnds
  <2>1. Loop
    BY <1>10 DEF MapRowEnds, RowIsRead, Parsing, Loop
  <2>2. Fail \/ (NextRow /\ fieldList' = fieldList)
    BY <1>10 DEF MapRowEnds
  <2> QED
    BY <1>1, <1>2, <1>3, <2>1, <2>2
<1>11. CASE AllRead \/ UNCHANGED fieldVars
  BY <1>1, <1>11 DEF AllRead, fieldVars
<1> QED
  BY <1>5, <1>6, <1>7, <1>8, <1>9, <1>10, <1>11 DEF NextField

(***************************************************************************)
(* A unique sub-field has different values in all elements of the field,   *)
(* of whatever rows they come.                                             *)
(***************************************************************************)
THEOREM UniqueValues == SpecField => []ValuesUnique
<1>1. InitField => UniqueInv
  BY DEF InitField, UniqueInv, Differ, Apart, Remembered
<1>2. UniqueInv => ValuesUnique
  BY DEF UniqueInv, Differ, ValuesUnique
<1> QED
  BY <1>1, <1>2, UniqueStep, TypeCorrect, PTL DEF SpecField
-----------------------------------------------------------------------------
(***************************************************************************)
(* What a loop has made of the items before item n.                        *)
(***************************************************************************)
HorizontalListLoop(o, items, n, l, g) ==
  /\ g \in 0..(n - 1) /\ (IsFixed(o) => g = 0)
  /\ Len(l) = (IF g = 0 THEN n ELSE g) - 1
  /\ \A i \in 1..Len(l) : l[i] = ElemOf(items[i]) /\ (IsFixed(o) \/ Present(items[i]))
  /\ g # 0 => \A i \in g..(n - 1) : ~Present(items[i])

\* The loop of a horizontal list without a size, with the index of the first
\* absent item less by one. When the first item is absent, which is as if none
\* were, all that matters is whether it is the only kind so far.
Counted(g) == IF g = 0 THEN 0 ELSE g + 1

IncellListLoop(items, n, l, g) ==
  /\ n = 1 \/ Present(items[1]) => HorizontalListLoop(Unsized, items, n, l, Counted(g))
  /\ (\A i \in 1..(n - 1) : ~Present(items[i])) => l = <<>>

KeysDiffer(o, items, n) ==
  \A i, j \in 1..(n - 1) :
    i # j /\ Kept(o, items[i]) /\ Kept(o, items[j]) => ValueOf(items[i].key) # ValueOf(items[j].key)

\* The gap is where the first item was absent.
GapIn(o, items, n, g) ==
  /\ g = 0 => \A i \in 1..(n - 1) : Kept(o, items[i])
  /\ g # 0 => /\ ~IsFixed(o)
              /\ \E k \in 1..(n - 1) : /\ \A i \in 1..(k - 1) : Present(items[i])
                                       /\ \A i \in k..(n - 1) : ~Present(items[i])

HorizontalMapLoop(o, items, n, m, g) ==
  /\ m = {ElemOf(items[i]) : i \in {j \in 1..(n - 1) : Kept(o, items[j])}}
  /\ \A j \in 1..(n - 1) : ~Spare(o, items, j)
  /\ KeysDiffer(o, items, n) /\ GapIn(o, items, n, g)

IncellMapLoop(items, n, m) ==
  /\ m = {ElemOf(items[i]) : i \in 1..(n - 1)}
  /\ \A i \in 1..(n - 1) : Present(items[i])
  /\ \A i, j \in 1..(n - 1) : i < j => ValueOf(items[i].key) # ValueOf(items[j].key)

\* A map may be over before its last column.
LoopInv ==
  Loop =>
    /\ input.layout = "horizontalList" => HorizontalListLoop(input, Row, pos, list, gap)
    /\ input.layout = "incellList" => IncellListLoop(Row, pos, list, gap)
    /\ input.layout = "horizontalMap" /\ input.distinct =>
         \/ HorizontalMapLoop(input, Row, pos, map, gap)
         \/ /\ pos = Last + 1
            /\ \E q \in 1..Last : /\ HorizontalMapLoop(input, Row, q, map, gap)
                                  /\ Spare(input, Row, q)
    /\ input.layout = "incellMap" =>
         \/ IncellMapLoop(Row, pos, map)
         \/ /\ pos = Last + 1
            /\ \E q \in 1..Last : /\ IncellMapLoop(Row, q, map)
                                  /\ ~Present(Row[q])

\* Why a turn of a loop may fail.
Refused ==
  \/ ~RowOk
  \/ input.layout = "incellMap" /\ EmptyIsZero(Row)
  \/ input.unique \/ input.keyed \/ ~input.distinct \/ input.sequence # None

ErrorInv == verdict = "error" /\ pos <= Last => Refused
-----------------------------------------------------------------------------
(***************************************************************************)
(* A horizontal list.                                                      *)
(***************************************************************************)
LEMMA HorizontalListTakes ==
  ASSUME NEW o, NEW items, NEW n \in Nat \ {0}, NEW l \in Seq(Elems),
         HorizontalListLoop(o, items, n, l, 0), Kept(o, items[n]), ElemOf(items[n]) \in Elems
  PROVE  HorizontalListLoop(o, items, n + 1, Append(l, ElemOf(items[n])), 0)
<1> DEFINE e == ElemOf(items[n])
<1>1. /\ Len(l) = n - 1 /\ Len(Append(l, e)) = n /\ Append(l, e)[n] = e
      /\ \A i \in 1..(n - 1) : Append(l, e)[i] = l[i]
  BY AppendFacts DEF HorizontalListLoop
<1>2. \A i \in 1..(n - 1) : l[i] = ElemOf(items[i]) /\ Kept(o, items[i])
  BY <1>1 DEF HorizontalListLoop, Kept
<1> HIDE DEF e
<1>3. \A i \in 1..n : Append(l, e)[i] = ElemOf(items[i]) /\ Kept(o, items[i])
  BY <1>1, <1>2 DEF e
<1> QED
  BY <1>1, <1>3 DEF HorizontalListLoop, Kept, e

LEMMA HorizontalListPasses ==
  ASSUME NEW o, NEW items, NEW n \in Nat \ {0}, NEW l \in Seq(Elems), NEW g \in Nat, NEW h,
         HorizontalListLoop(o, items, n, l, g), ~Kept(o, items[n]),
         h = IF g = 0 THEN n ELSE g
  PROVE  HorizontalListLoop(o, items, n + 1, l, h)
<1>1. ~IsFixed(o) /\ ~Present(items[n])
  BY DEF Kept
<1>2. CASE g = 0
  BY <1>1, <1>2 DEF HorizontalListLoop
<1>3. CASE g # 0
  BY <1>1, <1>3 DEF HorizontalListLoop
<1> QED
  BY <1>2, <1>3

LEMMA HorizontalListRefuses ==
  ASSUME NEW o, NEW items \in Seq(Items), NEW n \in 1..Len(items), NEW l, NEW g \in Nat,
         HorizontalListLoop(o, items, n, l, g), g # 0, Present(items[n])
  PROVE  ~RowListOk(o, items)
<1>1. Len(items) \in Nat /\ ~IsFixed(o) /\ g \in 1..(n - 1) /\ ~Present(items[g])
  BY LenProperties DEF HorizontalListLoop
<1>2. g \in 1..Len(items) /\ g < n
  BY <1>1
<1> QED
  BY <1>1, <1>2 DEF RowListOk, HoleFree

\* What Filled makes of the list.
FilledUp(o, items, l) ==
  IF IsFixed(o) /\ GetSize(o, Len(items)) > Len(l)
  THEN [i \in 1..GetSize(o, Len(items)) |-> IF i <= Len(l) THEN l[i] ELSE Blank]
  ELSE l

LEMMA HorizontalListEnds ==
  ASSUME NEW o, o.size \in Nat, o.fixed \in BOOLEAN,
         NEW items \in Seq(Items), IsFixed(o) => Len(items) > 0,
         NEW l \in Seq(Elems), NEW g \in Nat,
         HorizontalListLoop(o, items, Width(o, Len(items)) + 1, l, g)
  PROVE  RowListOk(o, items) /\ FilledUp(o, items, l) = RowList(o, items)
<1> DEFINE n == Len(items)
           w == Width(o, n)
<1>1. n \in Nat /\ Len(l) \in Nat /\ l = [i \in 1..Len(l) |-> l[i]]
  BY LenProperties
<1>2. /\ GetSize(o, n) \in Nat /\ w \in 0..n
      /\ ~IsFixed(o) => GetSize(o, n) = 0 /\ w = n
      /\ IsFixed(o) => /\ GetSize(o, n) > 0
                       /\ GetSize(o, n) <= n => w = GetSize(o, n)
                       /\ GetSize(o, n) > n => w = n
  BY <1>1, WidthFacts
<1>3. /\ g \in 0..w /\ (IsFixed(o) => g = 0)
      /\ Len(l) = IF g = 0 THEN w ELSE g - 1
      /\ \A i \in 1..Len(l) : l[i] = ElemOf(items[i]) /\ (IsFixed(o) \/ Present(items[i]))
      /\ g # 0 => \A i \in g..w : ~Present(items[i])
  BY <1>2 DEF HorizontalListLoop
<1> HIDE DEF n, w
<1>4. CASE ~IsFixed(o)
  <2> DEFINE Ends(k) == /\ \A i \in 1..k : Present(items[i])
                        /\ k < n => ~Present(items[k + 1])
  <2>1. Len(l) \in 0..n /\ Ends(Len(l))
    BY <1>1, <1>2, <1>3, <1>4
  <2>2. ASSUME NEW j \in 0..n, NEW k \in 0..n, Ends(j), Ends(k), j < k PROVE FALSE
    <3>1. j + 1 \in 1..k /\ j < n
      BY <1>1, <2>2
    <3> QED
      BY <2>2, <3>1
  <2>3. \A k \in 0..n : Ends(k) => k = Len(l)
    <3> SUFFICES ASSUME NEW k \in 0..n, Ends(k) PROVE k = Len(l)
      OBVIOUS
    <3>1. ~(k < Len(l)) /\ ~(Len(l) < k)
      BY <2>1, <2>2
    <3> QED
      BY <1>1, <3>1
  <2>4. (CHOOSE k \in 0..n : Ends(k)) = Len(l)
    <3> HIDE DEF Ends
    <3> QED
      BY <2>1, <2>3
  <2>5. RowList(o, items) = [i \in 1..Len(l) |-> IF i <= n THEN ElemOf(items[i]) ELSE Blank]
    BY <1>4, <2>4 DEF RowList, n
  <2>6. \A i \in 1..Len(l) : (IF i <= n THEN ElemOf(items[i]) ELSE Blank) = l[i]
    BY <1>1, <1>3, <2>1
  <2>7. RowList(o, items) = l
    BY <1>1, <2>5, <2>6
  <2>8. RowListOk(o, items)
    <3> SUFFICES ASSUME NEW i \in 1..n, NEW j \in 1..n, i < j, Present(items[j])
                 PROVE  Present(items[i])
      BY DEF RowListOk, HoleFree, n
    <3>1. g = 0 \/ j < g
      BY <1>1, <1>2, <1>3, <1>4
    <3>2. i \in 1..Len(l)
      BY <1>1, <1>2, <1>3, <1>4, <3>1
    <3> QED
      BY <1>3, <1>4, <3>2
  <2> QED
    BY <1>4, <2>7, <2>8 DEF FilledUp
<1>5. CASE IsFixed(o)
  <2>1. Len(l) = w /\ \A i \in 1..w : l[i] = ElemOf(items[i])
    BY <1>3, <1>5
  <2>2. RowList(o, items) = [i \in 1..GetSize(o, n) |-> IF i <= n THEN ElemOf(items[i]) ELSE Blank]
    BY <1>5 DEF RowList, n
  <2>3. CASE GetSize(o, n) > n
    <3>1. w = n /\ Len(l) = n
      BY <1>2, <1>5, <2>1, <2>3
    <3>2. FilledUp(o, items, l) = [i \in 1..GetSize(o, n) |-> IF i <= n THEN l[i] ELSE Blank]
      BY <1>5, <2>3, <3>1 DEF FilledUp, n
    <3>3. \A i \in 1..GetSize(o, n) : (IF i <= n THEN l[i] ELSE Blank)
                                        = IF i <= n THEN ElemOf(items[i]) ELSE Blank
      BY <1>1, <1>2, <2>1, <3>1
    <3> QED
      BY <1>5, <2>2, <3>2, <3>3 DEF RowListOk
  <2>4. CASE GetSize(o, n) <= n
    <3>1. w = GetSize(o, n) /\ Len(l) = GetSize(o, n)
      BY <1>2, <1>5, <2>1, <2>4
    <3>2. FilledUp(o, items, l) = l
      BY <1>2, <3>1 DEF FilledUp, n
    <3>3. \A i \in 1..Len(l) : l[i] = IF i <= n THEN ElemOf(items[i]) ELSE Blank
      BY <1>1, <2>1, <2>4, <3>1
    <3> QED
      BY <1>1, <1>5, <2>2, <3>1, <3>2, <3>3 DEF RowListOk
  <2> QED
    BY <1>1, <1>2, <2>3, <2>4
<1> QED
  BY <1>4, <1>5

(***************************************************************************)
(* A list in one cell.                                                     *)
(***************************************************************************)
LEMMA IncellListTakes ==
  ASSUME NEW items, NEW n \in Nat \ {0}, NEW l \in Seq(Elems), ElemOf(items[n]) \in Elems,
         IncellListLoop(items, n, l, 0), Present(items[n])
  PROVE  IncellListLoop(items, n + 1, Append(l, ElemOf(items[n])), 0)
<1>1. Kept(Unsized, items[n]) /\ Counted(0) = 0
  BY DEF Kept, Counted
<1>2. ASSUME Present(items[1])
      PROVE  HorizontalListLoop(Unsized, items, n + 1, Append(l, ElemOf(items[n])), 0)
  <2>1. HorizontalListLoop(Unsized, items, n, l, 0)
    BY <1>1, <1>2 DEF IncellListLoop
  <2> QED
    BY <1>1, <2>1, HorizontalListTakes
<1>3. n + 1 # 1 /\ n \in 1..(n + 1 - 1)
  OBVIOUS
<1> QED
  BY <1>1, <1>2, <1>3 DEF IncellListLoop

LEMMA IncellListPasses ==
  ASSUME NEW items, NEW n \in Nat \ {0}, NEW l \in Seq(Elems), NEW g \in Nat, NEW h,
         IncellListLoop(items, n, l, g), ~Present(items[n]), h = IF g = 0 THEN n - 1 ELSE g
  PROVE  IncellListLoop(items, n + 1, l, h)
<1>1. n + 1 # 1 /\ 1..(n - 1) \subseteq 1..(n + 1 - 1)
  OBVIOUS
<1>2. ASSUME Present(items[1])
      PROVE  HorizontalListLoop(Unsized, items, n + 1, l, Counted(h))
  <2>1. HorizontalListLoop(Unsized, items, n, l, Counted(g)) /\ n # 1
    BY <1>2 DEF IncellListLoop
  <2>2. ~Kept(Unsized, items[n])
    BY DEF Kept, IsFixed, Unsized
  <2>3. Counted(g) \in Nat /\ Counted(h) = IF Counted(g) = 0 THEN n ELSE Counted(g)
    BY <2>1 DEF Counted
  <2> QED
    BY <2>1, <2>2, <2>3, HorizontalListPasses
<1> QED
  BY <1>1, <1>2 DEF IncellListLoop

LEMMA IncellListRefuses ==
  ASSUME NEW items \in Seq(Items), NEW n \in 1..Len(items), NEW l, NEW g \in Nat,
         IncellListLoop(items, n, l, g), g # 0, Present(items[n])
  PROVE  ~CellListOk(items)
<1>1. Counted(g) \in Nat /\ Counted(g) # 0 /\ Len(items) \in Nat
  BY LenProperties DEF Counted
<1>2. CASE n = 1 \/ Present(items[1])
  <2>1. HorizontalListLoop(Unsized, items, n, l, Counted(g))
    BY <1>2 DEF IncellListLoop
  <2> QED
    BY <1>1, <2>1, HorizontalListRefuses DEF CellListOk
<1>3. CASE n # 1 /\ ~Present(items[1])
  <2>1. 1 \in 1..Len(items) /\ 1 < n
    BY <1>1, <1>3
  <2> QED
    BY <1>3, <2>1 DEF CellListOk, RowListOk, HoleFree, IsFixed, Unsized
<1> QED
  BY <1>2, <1>3

LEMMA IncellListEnds ==
  ASSUME NEW items \in Seq(Items), NEW l \in Seq(Elems), NEW g \in Nat,
         IncellListLoop(items, Len(items) + 1, l, g), ~EmptyFirst(items)
  PROVE  CellListOk(items) /\ l = CellList(items)
<1>1. Len(items) \in Nat /\ Width(Unsized, Len(items)) = Len(items) /\ Counted(g) \in Nat
  BY LenProperties DEF Width, GetSize, Unsized, Counted
<1>2. \E f \in Nat : HorizontalListLoop(Unsized, items, Len(items) + 1, l, f)
  <2>1. CASE Len(items) = 0 \/ Present(items[1])
    BY <1>1, <2>1 DEF IncellListLoop
  <2>2. CASE Len(items) # 0 /\ ~Present(items[1])
    <3>1. \A i \in 1..Len(items) : ~Present(items[i])
      BY <1>1, <2>2 DEF EmptyFirst
    <3>2. l = <<>>
      BY <1>1, <3>1 DEF IncellListLoop
    <3>3. HorizontalListLoop(Unsized, items, Len(items) + 1, <<>>, 1)
      BY <1>1, <2>2, <3>1 DEF HorizontalListLoop, IsFixed, Unsized
    <3> QED
      BY <3>2, <3>3
  <2> QED
    BY <2>1, <2>2
<1>3. PICK f \in Nat : HorizontalListLoop(Unsized, items, Len(items) + 1, l, f)
  BY <1>2
<1>4. ~IsFixed(Unsized) /\ Unsized.size \in Nat /\ Unsized.fixed \in BOOLEAN
  BY DEF IsFixed, Unsized
<1>5. RowListOk(Unsized, items) /\ FilledUp(Unsized, items, l) = RowList(Unsized, items)
  BY <1>1, <1>3, <1>4, HorizontalListEnds
<1> QED
  BY <1>4, <1>5 DEF FilledUp, CellListOk, CellList

(***************************************************************************)
(* A horizontal map.                                                       *)
(***************************************************************************)
KeyIn(m, key) == \E e \in m : e.key = key

LEMMA MapKeys ==
  ASSUME NEW o, NEW items, NEW n, NEW m, NEW g, HorizontalMapLoop(o, items, n, m, g), NEW key
  PROVE  KeyIn(m, key) <=>
           \E j \in 1..(n - 1) : Kept(o, items[j]) /\ ValueOf(items[j].key) = key
<1>1. \A i : ElemOf(items[i]).key = ValueOf(items[i].key)
  BY DEF ElemOf
<1>2. m = {ElemOf(items[i]) : i \in {j \in 1..(n - 1) : Kept(o, items[j])}}
  BY DEF HorizontalMapLoop
<1> QED
  BY <1>1, <1>2 DEF KeyIn

LEMMA MapSpare ==
  ASSUME NEW o, NEW items, NEW n, NEW m, NEW g, HorizontalMapLoop(o, items, n, m, g)
  PROVE  /\ Spare(o, items, n) <=> ~Present(items[n]) /\ KeyIn(m, 0)
         /\ ~KeyIn(m, ValueOf(items[n].key)) => ~Spare(o, items, n)
<1>1. KeyIn(m, 0) <=> \E j \in 1..(n - 1) : Kept(o, items[j]) /\ ValueOf(items[j].key) = 0
  BY MapKeys
<1>2. ~Present(items[n]) => ValueOf(items[n].key) = 0
  BY DEF ValueOf, Present
<1> QED
  BY <1>1, <1>2 DEF Spare

LEMMA MapTakes ==
  ASSUME NEW o, NEW items, NEW n \in Nat \ {0}, NEW m,
         HorizontalMapLoop(o, items, n, m, 0), Kept(o, items[n]),
         ~KeyIn(m, ValueOf(items[n].key))
  PROVE  HorizontalMapLoop(o, items, n + 1, m \cup {ElemOf(items[n])}, 0)
<1>1. n + 1 - 1 = n /\ 1..n = 1..(n - 1) \cup {n} /\ n \notin 1..(n - 1)
  OBVIOUS
<1>2. {j \in 1..n : Kept(o, items[j])} = {j \in 1..(n - 1) : Kept(o, items[j])} \cup {n}
  BY <1>1
<1>3. m \cup {ElemOf(items[n])} = {ElemOf(items[i]) : i \in {j \in 1..(n + 1 - 1) : Kept(o, items[j])}}
  BY <1>1, <1>2 DEF HorizontalMapLoop
<1> ~Spare(o, items, n)
  BY MapSpare
<1>4. \A j \in 1..(n + 1 - 1) : ~Spare(o, items, j)
  BY <1>1 DEF HorizontalMapLoop
<1>5. \A j \in 1..(n - 1) : Kept(o, items[j]) => ValueOf(items[j].key) # ValueOf(items[n].key)
  <2>1. KeyIn(m, ValueOf(items[n].key)) <=>
          \E j \in 1..(n - 1) : Kept(o, items[j]) /\ ValueOf(items[j].key) = ValueOf(items[n].key)
    BY MapKeys
  <2> QED
    BY <2>1
<1>6. KeysDiffer(o, items, n + 1)
  BY <1>1, <1>5 DEF HorizontalMapLoop, KeysDiffer
<1>7. GapIn(o, items, n + 1, 0)
  BY <1>1 DEF HorizontalMapLoop, GapIn
<1> QED
  BY ONLY <1>3, <1>4, <1>6, <1>7 DEF HorizontalMapLoop

LEMMA MapPasses ==
  ASSUME NEW o, NEW items, NEW n \in Nat \ {0}, NEW m, NEW g \in Nat, NEW h,
         HorizontalMapLoop(o, items, n, m, g), ~Kept(o, items[n]),
         ~KeyIn(m, ValueOf(items[n].key)), h = IF g = 0 THEN 1 ELSE g
  PROVE  HorizontalMapLoop(o, items, n + 1, m, h)
<1>1. n + 1 - 1 = n /\ 1..n = 1..(n - 1) \cup {n} /\ n \notin 1..(n - 1) /\ h # 0
  OBVIOUS
<1>2. {j \in 1..n : Kept(o, items[j])} = {j \in 1..(n - 1) : Kept(o, items[j])}
  BY <1>1
<1>3. m = {ElemOf(items[i]) : i \in {j \in 1..(n + 1 - 1) : Kept(o, items[j])}}
  BY <1>1, <1>2 DEF HorizontalMapLoop
<1> ~Spare(o, items, n)
  BY MapSpare
<1>4. \A j \in 1..(n + 1 - 1) : ~Spare(o, items, j)
  BY <1>1 DEF HorizontalMapLoop
<1>5. KeysDiffer(o, items, n + 1)
  BY <1>1 DEF HorizontalMapLoop, KeysDiffer
<1>6. ~IsFixed(o) /\ ~Present(items[n])
  BY DEF Kept
<1>7. PICK k \in 1..n : /\ \A i \in 1..(k - 1) : Present(items[i])
                        /\ \A i \in k..n : ~Present(items[i])
  <2>1. CASE g = 0
    <3>1. \A i \in 1..(n - 1) : Present(items[i])
      BY <1>6, <2>1 DEF HorizontalMapLoop, GapIn, Kept
    <3>2. \A i \in n..n : ~Present(items[i])
      BY <1>6
    <3> QED
      BY <3>1, <3>2
  <2>2. CASE g # 0
    <3>1. PICK k \in 1..(n - 1) : /\ \A i \in 1..(k - 1) : Present(items[i])
                                  /\ \A i \in k..(n - 1) : ~Present(items[i])
      BY <2>2 DEF HorizontalMapLoop, GapIn
    <3>2. \A i \in k..n : ~Present(items[i])
      BY <1>6, <3>1
    <3> QED
      BY <3>1, <3>2
  <2> QED
    BY <2>1, <2>2
<1>8. GapIn(o, items, n + 1, h)
  <2> DEFINE p == n + 1
  <2>1. p - 1 = n
    OBVIOUS
  <2> HIDE DEF p
  <2>2. k \in 1..(p - 1) /\ \A i \in k..(p - 1) : ~Present(items[i])
    BY <1>7, <2>1
  <2>3. GapIn(o, items, p, h)
    BY <1>1, <1>6, <1>7, <2>2 DEF GapIn
  <2> QED
    BY <2>3 DEF p
<1> QED
  BY ONLY <1>3, <1>4, <1>5, <1>8 DEF HorizontalMapLoop

LEMMA MapRead ==
  ASSUME NEW o, NEW items, NEW n \in Nat \ {0}, NEW m, NEW g,
         HorizontalMapLoop(o, items, n, m, g), ~Spare(o, items, n), n <= Width(o, Len(items))
  PROVE  \A i \in 1..n : Width(o, Len(items)) \in Nat => i \in ReadBefore(o, items)
<1>1. \A i \in 1..n : ~Spare(o, items, i)
  BY DEF HorizontalMapLoop
<1> QED
  BY <1>1 DEF ReadBefore

\* An item that is present is an entry.
LEMMA MapPresent ==
  ASSUME NEW o, NEW items, NEW n \in 1..Width(o, Len(items)), Present(items[n])
  PROVE  n \in Entries(o, items) /\ ~Spare(o, items, n)
BY DEF Entries, Kept, Spare

\* Why a turn of the loop may fail: an item without a key behind the key 0, a hole,
\* a key that is there.
LEMMA MapRefuses ==
  ASSUME NEW o, o.size \in Nat, o.fixed \in BOOLEAN, NEW items \in Seq(Items),
         NEW n \in 1..Width(o, Len(items)), NEW m, NEW g \in Nat,
         HorizontalMapLoop(o, items, n, m, g), Present(items[n]),
         g # 0 \/ KeyIn(m, ValueOf(items[n].key))
  PROVE  ~ReadMapOk(o, items)
<1>1. Len(items) \in Nat /\ Width(o, Len(items)) \in Nat
  BY LenProperties, WidthFacts
<1>2. n \in Nat \ {0} /\ n <= Width(o, Len(items)) /\ n \in Entries(o, items)
      /\ ~Spare(o, items, n)
  BY <1>1, MapPresent
<1>3. CASE g # 0
  <2>1. PICK k \in 1..(n - 1) : ~Present(items[k])
    BY <1>2, <1>3 DEF HorizontalMapLoop, GapIn
  <2>2. ~IsFixed(o)
    BY <1>3 DEF HorizontalMapLoop, GapIn
  <2>3. k \in ReadBefore(o, items) /\ n \in ReadBefore(o, items) /\ k < n
    BY <1>1, <1>2, <2>1, MapRead
  <2> QED
    BY <2>1, <2>2, <2>3 DEF ReadMapOk, MapOk
<1>4. CASE KeyIn(m, ValueOf(items[n].key))
  <2>1. PICK j \in 1..(n - 1) : Kept(o, items[j]) /\ ValueOf(items[j].key) = ValueOf(items[n].key)
    <3>1. KeyIn(m, ValueOf(items[n].key)) <=>
            \E i \in 1..(n - 1) : Kept(o, items[i]) /\ ValueOf(items[i].key) = ValueOf(items[n].key)
      BY MapKeys
    <3> QED
      BY <1>4, <3>1
  <2>2. ~Spare(o, items, j)
    BY <2>1 DEF HorizontalMapLoop
  <2>3. j \in 1..Width(o, Len(items)) /\ j # n
    BY <1>1, <1>2
  <2>4. j \in ReadBefore(o, items) /\ n \in ReadBefore(o, items)
    BY <1>1, <1>2, <2>3, MapRead
  <2>5. j \in Entries(o, items)
    BY <2>1, <2>2, <2>3 DEF Entries
  <2> QED
    BY <1>2, <2>1, <2>3, <2>4, <2>5 DEF ReadMapOk, MapOk
<1> QED
  BY <1>3, <1>4

\* The loop is over behind the last column, or at a spare item.
LEMMA MapEnds ==
  ASSUME NEW o, o.size \in Nat, o.fixed \in BOOLEAN, NEW items \in Seq(Items),
         NEW n \in Nat \ {0}, NEW m, NEW g \in Nat,
         HorizontalMapLoop(o, items, n, m, g),
         \/ n = Width(o, Len(items)) + 1
         \/ n <= Width(o, Len(items)) /\ Spare(o, items, n)
  PROVE  ReadMapOk(o, items) /\ m = ReadMap(o, items)
<1>1. Len(items) \in Nat /\ Width(o, Len(items)) \in Nat
  BY LenProperties, WidthFacts
<1> DEFINE w == Width(o, Len(items))
<1>2. \A j \in 1..(n - 1) : ~Spare(o, items, j)
  BY DEF HorizontalMapLoop
<1>3. ReadBefore(o, items) = 1..(n - 1)
  <2> HIDE DEF w
  <2>1. ReadBefore(o, items) = {i \in 1..w : \A j \in 1..i : ~Spare(o, items, j)}
    BY DEF ReadBefore, w
  <2>2. ASSUME NEW i \in 1..(n - 1) PROVE i \in 1..w /\ \A j \in 1..i : ~Spare(o, items, j)
    BY <1>1, <1>2 DEF w
  <2>3. ASSUME NEW i \in 1..w, \A j \in 1..i : ~Spare(o, items, j) PROVE i \in 1..(n - 1)
    <3>1. n = w + 1 \/ (n <= w /\ Spare(o, items, n))
      BY DEF w
    <3>2. ~(n \in 1..i) \/ n = w + 1
      BY <2>3, <3>1
    <3> QED
      BY <1>1, <3>2 DEF w
  <2> QED
    BY <2>1, <2>2, <2>3
<1>4. Entries(o, items) \cap ReadBefore(o, items) = {j \in 1..(n - 1) : Kept(o, items[j])}
  <2>1. 1..(n - 1) \subseteq 1..w
    BY <1>1
  <2> QED
    BY <1>2, <1>3, <2>1 DEF Entries
<1>5. ASSUME ~IsFixed(o), NEW i \in 1..(n - 1), NEW j \in 1..(n - 1), i < j, Present(items[j])
      PROVE  Present(items[i])
  BY <1>5 DEF HorizontalMapLoop, GapIn, Kept
<1>6. KeysDiffer(o, items, n)
  BY DEF HorizontalMapLoop
<1>7. ReadMapOk(o, items)
  BY <1>3, <1>4, <1>5, <1>6 DEF ReadMapOk, MapOk, KeysDiffer
<1>8. m = ReadMap(o, items)
  BY <1>4 DEF HorizontalMapLoop, ReadMap, MapOf
<1> QED
  BY <1>7, <1>8

\* What is read of a row is all that it means, but for items that are present
\* and not read. And it is refused only when the row is not acceptable.
LEMMA ReadMeans ==
  ASSUME NEW o, NEW items \in Seq(Items), o.size \in Nat, o.fixed \in BOOLEAN
  PROVE  /\ RowMapOk(o, items) => ReadMapOk(o, items)
         /\ ReadMapOk(o, items) /\ ~Hidden(o, items) =>
              RowMapOk(o, items) /\ ReadMap(o, items) = RowMap(o, items)
<1> DEFINE w == Width(o, Len(items))
           all == 1..w
           first == ReadBefore(o, items)
<1>1. w \in Nat
  BY LenProperties, WidthFacts
<1>2. first \subseteq all /\ Entries(o, items) \subseteq all
  BY DEF ReadBefore, Entries
<1>3. \A i \in all, j \in first : i < j => i \in first
  BY <1>1 DEF ReadBefore
<1>4. RowMapOk(o, items) => ReadMapOk(o, items)
  BY <1>2 DEF RowMapOk, ReadMapOk, MapOk
<1>5. ASSUME ~Hidden(o, items) PROVE Entries(o, items) \subseteq first
  <2> SUFFICES ASSUME NEW i \in Entries(o, items), NEW j \in 1..i, Spare(o, items, j), i \notin first
               PROVE  FALSE
    BY <1>2 DEF ReadBefore
  <2>1. i \in all /\ Kept(o, items[i]) /\ ~Spare(o, items, i)
    BY DEF Entries
  <2>2. ~Present(items[i])
    BY <1>5, <2>1 DEF Hidden
  <2>3. PICK k \in 1..(j - 1) : Kept(o, items[k]) /\ ValueOf(items[k].key) = 0
    BY DEF Spare
  <2>4. k \in 1..(i - 1)
    BY <1>1, <2>1
  <2> QED
    BY <2>1, <2>2, <2>3, <2>4 DEF Spare
<1>6. ASSUME ~Hidden(o, items), ReadMapOk(o, items) PROVE RowMapOk(o, items)
  <2>1. ASSUME ~IsFixed(o), NEW i \in all, NEW j \in all, i < j, Present(items[j])
        PROVE  Present(items[i])
    <3>1. j \in first
      BY <1>6, <2>1 DEF Hidden
    <3>2. i \in first
      BY <1>3, <2>1, <3>1
    <3> QED
      BY <1>6, <2>1, <3>1, <3>2 DEF ReadMapOk, MapOk
  <2>2. Entries(o, items) \cap all = Entries(o, items) \cap first
    BY <1>2, <1>5, <1>6
  <2> QED
    BY <1>6, <2>1, <2>2 DEF RowMapOk, ReadMapOk, MapOk
<1>7. ~Hidden(o, items) => ReadMap(o, items) = RowMap(o, items)
  <2>1. ~Hidden(o, items) => Entries(o, items) \cap all = Entries(o, items) \cap first
    BY <1>2, <1>5
  <2> QED
    BY <2>1 DEF ReadMap, RowMap, MapOf
<1> QED
  BY <1>4, <1>6, <1>7

(***************************************************************************)
(* A map in one cell.                                                      *)
(***************************************************************************)
LEMMA CellKeys ==
  ASSUME NEW items, NEW n, NEW m, IncellMapLoop(items, n, m), NEW key
  PROVE  KeyIn(m, key) <=> \E j \in 1..(n - 1) : ValueOf(items[j].key) = key
<1>1. \A i : ElemOf(items[i]).key = ValueOf(items[i].key)
  BY DEF ElemOf
<1>2. m = {ElemOf(items[i]) : i \in 1..(n - 1)}
  BY DEF IncellMapLoop
<1> QED
  BY <1>1, <1>2 DEF KeyIn

LEMMA CellTakes ==
  ASSUME NEW items, NEW n \in Nat \ {0}, NEW m, IncellMapLoop(items, n, m),
         Present(items[n]), ~KeyIn(m, ValueOf(items[n].key))
  PROVE  IncellMapLoop(items, n + 1, m \cup {ElemOf(items[n])})
<1>1. n + 1 - 1 = n /\ 1..n = 1..(n - 1) \cup {n} /\ n \notin 1..(n - 1)
  OBVIOUS
<1>2. m \cup {ElemOf(items[n])} = {ElemOf(items[i]) : i \in 1..(n + 1 - 1)}
  BY <1>1 DEF IncellMapLoop
<1>3. \A i \in 1..(n + 1 - 1) : Present(items[i])
  BY <1>1 DEF IncellMapLoop
<1>4. \A j \in 1..(n - 1) : ValueOf(items[j].key) # ValueOf(items[n].key)
  <2>1. KeyIn(m, ValueOf(items[n].key)) <=>
          \E j \in 1..(n - 1) : ValueOf(items[j].key) = ValueOf(items[n].key)
    BY CellKeys
  <2> QED
    BY <2>1
<1>5. \A i, j \in 1..(n + 1 - 1) : i < j => ValueOf(items[i].key) # ValueOf(items[j].key)
  BY <1>1, <1>4 DEF IncellMapLoop
<1> QED
  BY ONLY <1>2, <1>3, <1>5 DEF IncellMapLoop

LEMMA CellRefuses ==
  ASSUME NEW items \in Seq(Items), NEW n \in 1..Len(items), NEW m,
         IncellMapLoop(items, n, m), KeyIn(m, ValueOf(items[n].key))
  PROVE  ~CellMapOk(items) \/ EmptyIsZero(items)
<1>1. KeyIn(m, ValueOf(items[n].key)) <=>
        \E j \in 1..(n - 1) : ValueOf(items[j].key) = ValueOf(items[n].key)
  BY CellKeys
<1>2. PICK j \in 1..(n - 1) : ValueOf(items[j].key) = ValueOf(items[n].key)
  BY <1>1
<1>3. Len(items) \in Nat /\ \A k \in 1..(n - 1) : Present(items[k])
  BY LenProperties DEF IncellMapLoop
<1>4. j \in 1..Len(items) /\ j < n /\ Present(items[j])
  BY <1>3
<1>5. CASE Present(items[n])
  BY <1>2, <1>4, <1>5 DEF CellMapOk
<1>6. CASE ~Present(items[n])
  <2>1. ValueOf(items[n].key) = 0
    BY <1>6 DEF Present, ValueOf
  <2> QED
    BY <1>2, <1>4, <1>6, <2>1 DEF EmptyIsZero
<1> QED
  BY <1>5, <1>6

\* The loop is over behind the last part, or at an absent one.
LEMMA CellEnds ==
  ASSUME NEW items \in Seq(Items), NEW n \in Nat \ {0}, NEW m, IncellMapLoop(items, n, m),
         n = Len(items) + 1 \/ (n <= Len(items) /\ ~Present(items[n])),
         HoleFree(items, 1, Len(items))
  PROVE  CellMapOk(items) /\ m = CellMap(items)
<1>1. Len(items) \in Nat /\ \A i \in 1..(n - 1) : Present(items[i])
  BY LenProperties DEF IncellMapLoop
<1>2. {i \in 1..Len(items) : Present(items[i])} = 1..(n - 1)
  <2>1. ASSUME NEW i \in 1..Len(items), Present(items[i]) PROVE i \in 1..(n - 1)
    <3>1. n <= Len(items) => ~(n < i) /\ n # i
      BY <1>1, <2>1 DEF HoleFree
    <3> QED
      BY <1>1, <3>1
  <2>2. 1..(n - 1) \subseteq 1..Len(items)
    BY <1>1
  <2> QED
    BY <1>1, <2>1, <2>2
<1>3. CellMapOk(items)
  <2> SUFFICES ASSUME NEW i \in 1..(n - 1), NEW j \in 1..(n - 1), i # j
               PROVE  ValueOf(items[i].key) # ValueOf(items[j].key)
    BY <1>2 DEF CellMapOk
  <2>1. i < j \/ j < i
    OBVIOUS
  <2> QED
    BY <2>1 DEF IncellMapLoop
<1>4. m = CellMap(items)
  BY <1>2 DEF IncellMapLoop, CellMap
<1> QED
  BY <1>3, <1>4
-----------------------------------------------------------------------------
(***************************************************************************)
(* A row begins with its first item.                                       *)
(***************************************************************************)
LEMMA LoopStarts ==
  ASSUME NEW o, NEW items
  PROVE  /\ HorizontalListLoop(o, items, 1, <<>>, 0) /\ IncellListLoop(items, 1, <<>>, 0)
         /\ HorizontalMapLoop(o, items, 1, {}, 0) /\ IncellMapLoop(items, 1, {})
<1>1. 1..(1 - 1) = {} /\ Len(<<>>) = 0 /\ 0 \in 0..(1 - 1) /\ 1..0 = {}
  OBVIOUS
<1>2. \A p : HorizontalListLoop(p, items, 1, <<>>, 0)
  BY <1>1 DEF HorizontalListLoop
<1>3. IncellListLoop(items, 1, <<>>, 0)
  BY <1>2 DEF IncellListLoop, Counted
<1>4. HorizontalMapLoop(o, items, 1, {}, 0)
  BY <1>1 DEF HorizontalMapLoop, KeysDiffer, GapIn
<1>5. IncellMapLoop(items, 1, {})
  BY <1>1 DEF IncellMapLoop
<1> QED
  BY <1>2, <1>3, <1>4, <1>5

LEMMA LoopInit == InitField => LoopInv /\ ErrorInv
BY LoopStarts DEF InitField, LoopInv, ErrorInv

\* The end of a row, whatever it adds to the field.
LEMMA LoopNextRow ==
  ASSUME NextRow
  PROVE  LoopInv' /\ (verdict = "parsing" => ErrorInv')
<1>1. pos' = 1 /\ list' = <<>> /\ map' = {} /\ gap' = 0 /\ verdict' = verdict
  BY DEF NextRow
<1>2. LoopInv'
  BY <1>1, LoopStarts DEF LoopInv
<1> QED
  BY <1>1, <1>2 DEF ErrorInv
-----------------------------------------------------------------------------
(***************************************************************************)
(* The turns of the loops.                                                 *)
(***************************************************************************)
LEMMA TurnFacts ==
  ASSUME TypeInv, NEW layout, Reading(layout)
  PROVE  /\ Row \in Seq(Items) /\ Last \in Nat /\ pos \in 1..Last /\ pos \in 1..Len(Row)
         /\ Item \in Items /\ ElemOf(Item) \in Elems /\ verdict = "parsing"
         /\ input.size \in Nat /\ input.fixed \in BOOLEAN
         /\ Horizontal(input) => Last = Width(input, Len(Row))
<1>1. /\ input \in Inputs /\ row \in Nat \ {0} /\ row <= Len(input.rows)
      /\ pos \in Nat \ {0} /\ pos <= Last /\ verdict = "parsing"
  BY DEF TypeInv, Reading, Parsing
<1>2. Last \in Nat /\ Last <= Columns /\ Columns \in Nat /\ Row \in Seq(Items)
  BY <1>1, RowFacts, LastFacts
<1>3. pos \in 1..Columns /\ pos \in 1..Last
  BY <1>1, <1>2
<1>4. Item \in Items
  BY <1>1, <1>3, RowFacts DEF Item
<1> QED
  BY <1>1, <1>2, <1>3, <1>4, ItemFacts, InputFacts DEF Columns, Last

\* A turn that fails.
LEMMA LoopFails ==
  ASSUME Fail, Refused \/ pos > Last, TypeInv, Last \in Nat
  PROVE  LoopInv' /\ ErrorInv'
<1>1. /\ verdict' = "error" /\ pos' = pos /\ Row' = Row /\ Last' = Last /\ input' = input
      /\ pos \in Nat
  BY DEF Fail, Row, Last, Columns, TypeInv
<1>2. Refused => Refused'
  BY <1>1 DEF Refused, RowOk
<1> QED
  BY <1>1, <1>2 DEF LoopInv, Loop, ErrorInv

LEMMA LoopHorizontalList ==
  ASSUME TypeInv, LoopInv, HorizontalElem
  PROVE  LoopInv' /\ ErrorInv'
<1>1. /\ Reading("horizontalList") /\ input.layout = "horizontalList" /\ Loop
      /\ Horizontal(input)
  BY DEF HorizontalElem, Reading, Parsing, Loop, Horizontal
<1>2. /\ Row \in Seq(Items) /\ Last \in Nat /\ pos \in Nat \ {0} /\ pos \in 1..Len(Row)
      /\ ElemOf(Item) \in Elems /\ verdict = "parsing" /\ gap \in Nat /\ list \in Seq(Elems)
  BY <1>1, TurnFacts DEF TypeInv
<1>3. HorizontalListLoop(input, Row, pos, list, gap)
  BY <1>1 DEF LoopInv
<1>4. ASSUME Fail, ~RowListOk(input, Row) \/ input.unique PROVE LoopInv' /\ ErrorInv'
  <2>1. Refused
    BY <1>1, <1>4 DEF Refused, RowOk
  <2> QED
    BY <1>2, <1>4, <2>1, LoopFails
<1>5. ASSUME UNCHANGED <<input, row, verdict>>, HorizontalListLoop(input, Row, pos', list', gap')
      PROVE  LoopInv' /\ ErrorInv'
  BY <1>1, <1>2, <1>5 DEF LoopInv, ErrorInv, Row
<1>6. CASE gap # 0 /\ Present(Item) /\ Fail
  BY <1>2, <1>3, <1>4, <1>6, HorizontalListRefuses DEF Item
<1>7. CASE gap # 0 /\ ~Present(Item) /\ Pass
  <2>1. ~Kept(input, Row[pos])
    BY <1>3, <1>7 DEF HorizontalListLoop, Kept, Item
  <2>2. HorizontalListLoop(input, Row, pos + 1, list, gap)
    BY <1>2, <1>3, <1>7, <2>1, HorizontalListPasses
  <2> QED
    BY <1>5, <1>7, <2>2 DEF Pass, Skip
<1>8. CASE /\ gap = 0 /\ ~Present(Item) /\ ~IsFixed(input)
           /\ gap' = pos /\ pos' = pos + 1 /\ Skip
  <2>1. ~Kept(input, Row[pos])
    BY <1>8 DEF Kept, Item
  <2>2. HorizontalListLoop(input, Row, pos + 1, list, pos)
    BY <1>2, <1>3, <1>8, <2>1, HorizontalListPasses
  <2> QED
    BY <1>5, <1>8, <2>2 DEF Skip
<1>9. CASE gap = 0 /\ (Present(Item) \/ IsFixed(input)) /\ ~SubFieldOk(ElemOf(Item)) /\ Fail
  BY <1>4, <1>9 DEF SubFieldOk, CountsValue
<1>10. CASE gap = 0 /\ (Present(Item) \/ IsFixed(input)) /\ AppendElem(ElemOf(Item))
  <2>1. Kept(input, Row[pos])
    BY <1>10 DEF Kept, Item
  <2>2. HorizontalListLoop(input, Row, pos + 1, Append(list, ElemOf(Item)), 0)
    BY <1>2, <1>3, <1>10, <2>1, HorizontalListTakes DEF Item
  <2> QED
    BY <1>5, <1>10, <2>2 DEF AppendElem
<1> QED
  BY <1>6, <1>7, <1>8, <1>9, <1>10 DEF HorizontalElem

LEMMA LoopIncellList ==
  ASSUME TypeInv, LoopInv, IncellElem
  PROVE  LoopInv' /\ ErrorInv'
<1>1. Reading("incellList") /\ input.layout = "incellList" /\ Loop
  BY DEF IncellElem, Reading, Parsing, Loop
<1>2. /\ Row \in Seq(Items) /\ Last \in Nat /\ pos \in Nat \ {0} /\ pos \in 1..Len(Row)
      /\ ElemOf(Item) \in Elems /\ verdict = "parsing" /\ gap \in Nat /\ list \in Seq(Elems)
  BY <1>1, TurnFacts DEF TypeInv
<1>3. IncellListLoop(Row, pos, list, gap)
  BY <1>1 DEF LoopInv
<1>4. ASSUME Fail, ~CellListOk(Row) \/ input.unique \/ input.keyed PROVE LoopInv' /\ ErrorInv'
  <2>1. Refused
    BY <1>1, <1>4 DEF Refused, RowOk
  <2> QED
    BY <1>2, <1>4, <2>1, LoopFails
<1>5. ASSUME UNCHANGED <<input, row, verdict>>, IncellListLoop(Row, pos', list', gap')
      PROVE  LoopInv' /\ ErrorInv'
  BY <1>1, <1>2, <1>5 DEF LoopInv, ErrorInv, Row
<1>6. CASE gap # 0 /\ Present(Item) /\ Fail
  BY <1>2, <1>3, <1>4, <1>6, IncellListRefuses DEF Item
<1>7. CASE gap # 0 /\ ~Present(Item) /\ Pass
  <2>1. IncellListLoop(Row, pos + 1, list, gap)
    BY <1>2, <1>3, <1>7, IncellListPasses DEF Item
  <2> QED
    BY <1>5, <1>7, <2>1 DEF Pass, Skip
<1>8. CASE gap = 0 /\ ~Present(Item) /\ gap' = pos - 1 /\ pos' = pos + 1 /\ Skip
  <2>1. IncellListLoop(Row, pos + 1, list, pos - 1)
    BY <1>2, <1>3, <1>8, IncellListPasses DEF Item
  <2> QED
    BY <1>5, <1>8, <2>1 DEF Skip
<1> DEFINE ok == (input.keyed => ~HasKey(ElemOf(Item).key)) /\ SubFieldOk(ElemOf(Item))
<1>9. CASE gap = 0 /\ Present(Item) /\ ~ok /\ Fail
  BY <1>4, <1>9 DEF SubFieldOk, CountsValue
<1>10. CASE gap = 0 /\ Present(Item) /\ AppendElem(ElemOf(Item))
  <2>1. IncellListLoop(Row, pos + 1, Append(list, ElemOf(Item)), 0)
    BY <1>2, <1>3, <1>10, IncellListTakes DEF Item
  <2> QED
    BY <1>5, <1>10, <2>1 DEF AppendElem
<1> QED
  BY <1>6, <1>7, <1>8, <1>9, <1>10 DEF IncellElem

LEMMA LoopHorizontalMap ==
  ASSUME TypeInv, LoopInv, HorizontalEntry
  PROVE  LoopInv' /\ ErrorInv'
<1>1. /\ Reading("horizontalMap") /\ input.layout = "horizontalMap" /\ Loop
      /\ Horizontal(input)
  BY DEF HorizontalEntry, Reading, Parsing, Loop, Horizontal
<1>2. /\ Row \in Seq(Items) /\ Last \in Nat /\ pos \in Nat \ {0} /\ pos \in 1..Last
      /\ verdict = "parsing" /\ gap \in Nat /\ Last = Width(input, Len(Row))
      /\ input.size \in Nat /\ input.fixed \in BOOLEAN
  BY <1>1, TurnFacts DEF TypeInv
<1>3. UNCHANGED <<input, row>>
  BY DEF HorizontalEntry, Fail, Skip, Pass, NewEntry, OldEntry, PutEntry
<1>4. CASE ~input.distinct
  <2>1. Refused' /\ input'.layout = "horizontalMap" /\ ~input'.distinct
    BY <1>1, <1>3, <1>4 DEF Refused
  <2> QED
    BY <2>1 DEF LoopInv, ErrorInv
<1>5. CASE input.distinct
  <2> DEFINE e == ElemOf(Item)
  <2>1. HorizontalMapLoop(input, Row, pos, map, gap)
    BY <1>1, <1>2, <1>5 DEF LoopInv
  <2>2. ASSUME Fail, ~ReadMapOk(input, Row) \/ input.unique \/ input.sequence # None
        PROVE  LoopInv' /\ ErrorInv'
    <3>1. ~ReadMapOk(input, Row) => ~RowMapOk(input, Row)
      BY <1>2, ReadMeans
    <3>2. Refused
      BY <1>1, <2>2, <3>1 DEF Refused, RowOk
    <3> QED
      BY <1>2, <2>2, <3>2, LoopFails
  <2>3. ASSUME UNCHANGED verdict, HorizontalMapLoop(input, Row, pos', map', gap')
        PROVE  LoopInv' /\ ErrorInv'
    BY <1>1, <1>2, <1>3, <2>3 DEF LoopInv, ErrorInv, Row
  <2>4. e.key = ValueOf(Row[pos].key)
    BY DEF ElemOf, Item
  <2>5. \A key : HasEntry(key) <=> KeyIn(map, key)
    BY DEF HasEntry, KeyIn
  <2> HIDE DEF e
  <2>6. CASE Item.key = Empty /\ HasEntry(0) /\ Item.val # Empty /\ Fail
    <3>1. KeyIn(map, ValueOf(Row[pos].key)) /\ Present(Row[pos])
      BY <2>5, <2>6 DEF Item, ValueOf, Present
    <3> QED
      BY <1>2, <2>1, <2>2, <2>6, <3>1, MapRefuses
  <2>7. CASE Item.key = Empty /\ HasEntry(0) /\ Item.val = Empty
             /\ pos' = Last + 1 /\ UNCHANGED gap /\ Skip
    <3>1. Spare(input, Row, pos)
      BY <2>1, <2>5, <2>7, MapSpare DEF Item, Present
    <3>2. Last' = Last /\ Row' = Row /\ map' = map /\ gap' = gap
      BY <2>7 DEF Skip, Row, Last, Columns
    <3>3. verdict' = verdict /\ input' = input /\ pos' = Last + 1
      BY <2>7 DEF Skip
    <3> QED
      BY <1>1, <1>2, <2>1, <3>1, <3>2, <3>3 DEF LoopInv, ErrorInv
  <2>8. CASE ~HasEntry(e.key) /\ NewEntry(e)
    <3>1. ~KeyIn(map, ValueOf(Row[pos].key))
      BY <2>4, <2>5, <2>8
    <3>2. CASE ~InSequence(Item.key, Cardinality(map), FALSE) /\ Fail
      BY <2>2, <3>2 DEF InSequence
    <3>3. CASE gap # 0 /\ Present(Item) /\ Fail
      BY <1>2, <2>1, <2>2, <3>3, MapRefuses DEF Item
    <3>4. CASE gap # 0 /\ ~Present(Item) /\ Pass
      <4>1. ~Kept(input, Row[pos])
        BY <2>1, <3>4 DEF HorizontalMapLoop, GapIn, Kept, Item
      <4>2. HorizontalMapLoop(input, Row, pos + 1, map, gap)
        BY <1>2, <2>1, <3>1, <3>4, <4>1, MapPasses
      <4> QED
        BY <2>3, <3>4, <4>2 DEF Pass, Skip
    <3>5. CASE /\ gap = 0 /\ ~Present(Item) /\ ~IsFixed(input)
               /\ gap' = 1 /\ pos' = pos + 1 /\ Skip
      <4>1. ~Kept(input, Row[pos])
        BY <3>5 DEF Kept, Item
      <4>2. HorizontalMapLoop(input, Row, pos + 1, map, 1)
        BY <1>2, <2>1, <3>1, <3>5, <4>1, MapPasses
      <4> QED
        BY <2>3, <3>5, <4>2 DEF Skip
    <3>6. CASE ~SubFieldOk(e) /\ Fail
      BY <2>2, <3>6 DEF SubFieldOk, CountsValue
    <3>7. CASE gap = 0 /\ (Present(Item) \/ IsFixed(input)) /\ PutEntry(e)
      <4>1. Kept(input, Row[pos])
        BY <3>7 DEF Kept, Item
      <4>2. map' = map \cup {e} /\ e = ElemOf(Row[pos])
        BY <2>8, <3>7 DEF PutEntry, HasEntry, e, Item
      <4>3. HorizontalMapLoop(input, Row, pos + 1, map', 0)
        BY <1>2, <2>1, <3>1, <3>7, <4>1, <4>2, MapTakes
      <4> QED
        BY <2>3, <3>7, <4>3 DEF PutEntry
    <3> QED
      BY <2>8, <3>2, <3>3, <3>4, <3>5, <3>6, <3>7 DEF NewEntry
  <2>9. CASE Item.key # Empty /\ \E old \in map : old.key = e.key /\ OldEntry(old)
    <3>1. Fail /\ HasEntry(e.key)
      BY <1>5, <2>9 DEF OldEntry, HasEntry
    <3>2. KeyIn(map, ValueOf(Row[pos].key)) /\ Present(Row[pos])
      BY <2>4, <2>5, <2>9, <3>1 DEF Item, Present
    <3> QED
      BY <1>2, <2>1, <2>2, <3>1, <3>2, MapRefuses
  <2> QED
    BY <2>6, <2>7, <2>8, <2>9 DEF HorizontalEntry, e
<1> QED
  BY <1>4, <1>5

LEMMA LoopIncellMap ==
  ASSUME TypeInv, LoopInv, IncellEntry
  PROVE  LoopInv' /\ ErrorInv'
<1>1. Reading("incellMap") /\ input.layout = "incellMap" /\ Loop
  BY DEF IncellEntry, Reading, Parsing, Loop
<1>2. /\ Row \in Seq(Items) /\ Last \in Nat /\ pos \in Nat \ {0} /\ pos \in 1..Last
      /\ verdict = "parsing" /\ pos \in 1..Len(Row)
  BY <1>1, TurnFacts DEF TypeInv
<1>3. IncellMapLoop(Row, pos, map)
  BY <1>1, <1>2 DEF LoopInv
<1> DEFINE e == ElemOf(Item)
<1>4. e.key = ValueOf(Row[pos].key) /\ e = ElemOf(Row[pos])
  BY DEF ElemOf, Item
<1>5. \A key : HasEntry(key) <=> KeyIn(map, key)
  BY DEF HasEntry, KeyIn
<1> HIDE DEF e
<1>6. CASE HasEntry(e.key) /\ Fail
  <2>1. Refused
    BY <1>1, <1>2, <1>3, <1>4, <1>5, <1>6, CellRefuses DEF Refused, RowOk
  <2> QED
    BY <1>2, <1>6, <2>1, LoopFails
<1>7. CASE ~HasEntry(e.key) /\ ~Present(Item) /\ pos' = Last + 1 /\ UNCHANGED gap /\ Skip
  <2>1. ~Present(Row[pos])
    BY <1>7 DEF Item
  <2>2. Last' = Last /\ Row' = Row /\ map' = map /\ verdict' = verdict /\ input' = input
    BY <1>7 DEF Skip, Row, Last, Columns
  <2> QED
    BY <1>1, <1>2, <1>3, <1>7, <2>1, <2>2 DEF LoopInv, ErrorInv
<1>8. CASE /\ ~HasEntry(e.key) /\ Present(Item) /\ map' = map \cup {e} /\ pos' = pos + 1
           /\ UNCHANGED <<input, row, list, gap, seen, fieldList, fieldMap, verdict>>
  <2>1. IncellMapLoop(Row, pos + 1, map')
    BY <1>2, <1>3, <1>4, <1>5, <1>8, CellTakes DEF Item
  <2> QED
    BY <1>1, <1>2, <1>8, <2>1 DEF LoopInv, ErrorInv, Row
<1> QED
  BY <1>6, <1>7, <1>8 DEF IncellEntry, e

-----------------------------------------------------------------------------
LEMMA LoopStep == TypeInv /\ LoopInv /\ ErrorInv /\ [NextField]_fieldVars => LoopInv' /\ ErrorInv'
<1> SUFFICES ASSUME TypeInv, LoopInv, ErrorInv, [NextField]_fieldVars PROVE LoopInv' /\ ErrorInv'
  OBVIOUS
<1>1. ASSUME NEW layout, Parsing(layout) PROVE Last \in 0..Columns /\ verdict = "parsing"
  BY <1>1, LastFacts DEF TypeInv, Parsing
<1>2. CASE NoColumns
  <2>1. Last \in 0..Columns /\ Columns = 0 /\ verdict = "parsing"
    BY <1>1, <1>2 DEF NoColumns
  <2>2. pos \in Nat /\ pos > Last /\ Last \in Nat
    BY <2>1 DEF TypeInv
  <2> QED
    BY <1>2, <2>1, <2>2, LoopNextRow, LoopFails DEF NoColumns
<1>3. CASE ListRowEnds
  <2>1. PICK layout \in {"horizontalList", "incellList"} : RowIsRead(layout)
    BY <1>3 DEF ListRowEnds
  <2>2. Columns \in Nat /\ Last \in 0..Columns /\ pos > Last /\ verdict = "parsing"
    BY <1>1, <2>1, RowFacts DEF RowIsRead, TypeInv, Parsing
  <2>3. NextRow \/ Fail
    BY <1>3 DEF ListRowEnds
  <2> QED
    BY <2>2, <2>3, LoopNextRow, LoopFails
<1>4. CASE MapRowEnds
  <2>1. PICK layout \in {"horizontalMap", "incellMap"} : RowIsRead(layout)
    BY <1>4 DEF MapRowEnds
  <2>2. Columns \in Nat /\ Last \in 0..Columns /\ pos > Last /\ verdict = "parsing"
    BY <1>1, <2>1, RowFacts DEF RowIsRead, TypeInv, Parsing
  <2>3. NextRow \/ Fail
    BY <1>4 DEF MapRowEnds
  <2> QED
    BY <2>2, <2>3, LoopNextRow, LoopFails
<1>5. CASE AllRead
  BY <1>5 DEF AllRead, LoopInv, Loop, ErrorInv
<1>6. CASE UNCHANGED fieldVars
  <2>1. Row' = Row /\ Last' = Last /\ (Loop' <=> Loop) /\ (Refused' <=> Refused)
    BY <1>6 DEF fieldVars, Row, Last, Columns, Loop, Refused, RowOk
  <2> QED
    BY <1>6, <2>1 DEF fieldVars, LoopInv, ErrorInv
<1> QED
  BY <1>2, <1>3, <1>4, <1>5, <1>6, LoopHorizontalList, LoopIncellList, LoopHorizontalMap,
     LoopIncellMap DEF NextField

LEMMA LoopMeans ==
  ASSUME TypeInv, LoopInv, ErrorInv
  PROVE  RowIsReference
<1>1. verdict = "error" /\ pos <= Last => Refused
  BY DEF ErrorInv
<1>2. ASSUME NEW layout \in Layouts, RowIsRead(layout), IsList(input) \/ input.distinct,
             ~Overlooked
      PROVE  /\ RowOk
             /\ CASE input.layout = "horizontalList" -> Filled = RowList(input, Row)
                  [] input.layout = "incellList" -> list = CellList(Row)
                  [] input.layout = "horizontalMap" -> map = RowMap(input, Row)
                  [] input.layout = "incellMap" -> map = CellMap(Row)
  <2>1. /\ input \in Inputs /\ row \in Nat \ {0} /\ row <= Len(input.rows) /\ Loop
        /\ pos \in Nat /\ pos > Last /\ pos <= Last + 1 /\ gap \in Nat /\ list \in Seq(Elems)
    BY <1>2 DEF RowIsRead, Parsing, TypeInv, Loop
  <2>2. /\ Row \in Seq(Items) /\ Columns \in Nat /\ Last \in 0..Columns
        /\ input.size \in Nat /\ input.fixed \in BOOLEAN
    BY <2>1, RowFacts, LastFacts, InputFacts
  <2>3. pos = Last + 1 /\ Last \in Nat
    BY <2>1, <2>2
  <2>4. CASE input.layout = "horizontalList"
    <3>1. Horizontal(input) /\ Last = Width(input, Len(Row)) /\ Len(Row) > 0
      BY <1>2, <2>4 DEF Horizontal, Last, Columns, RowIsRead
    <3>2. HorizontalListLoop(input, Row, Width(input, Len(Row)) + 1, list, gap)
      BY <2>1, <2>3, <2>4, <3>1 DEF LoopInv
    <3>3. RowListOk(input, Row) /\ FilledUp(input, Row, list) = RowList(input, Row)
      BY <2>1, <2>2, <3>1, <3>2, HorizontalListEnds
    <3>4. Filled = FilledUp(input, Row, list)
      BY <3>1 DEF Filled, FilledUp, Columns
    <3> QED
      BY <2>4, <3>3, <3>4 DEF RowOk
  <2>5. CASE input.layout = "incellList"
    <3>1. Last = Len(Row)
      BY <2>5 DEF Last, Columns, Horizontal
    <3>2. IncellListLoop(Row, Len(Row) + 1, list, gap)
      BY <2>1, <2>3, <2>5, <3>1 DEF LoopInv
    <3>3. CellListOk(Row) /\ list = CellList(Row)
      BY <1>2, <2>1, <2>2, <2>5, <3>2, IncellListEnds DEF Overlooked
    <3> QED
      BY <2>5, <3>3 DEF RowOk
  <2>6. CASE input.layout = "horizontalMap"
    <3>1. Last = Width(input, Len(Row)) /\ input.distinct
      BY <1>2, <2>6 DEF Horizontal, Last, Columns, IsList
    <3>2. PICK q \in Nat \ {0} : /\ HorizontalMapLoop(input, Row, q, map, gap)
                                 /\ \/ q = Last + 1
                                    \/ q <= Last /\ Spare(input, Row, q)
      BY <2>1, <2>3, <2>6, <3>1 DEF LoopInv
    <3>3. ReadMapOk(input, Row) /\ map = ReadMap(input, Row)
      BY <2>1, <2>2, <3>1, <3>2, MapEnds
    <3>4. ~Hidden(input, Row)
      BY <1>2, <2>6 DEF Overlooked
    <3>5. RowMapOk(input, Row) /\ map = RowMap(input, Row)
      BY <2>2, <3>3, <3>4, ReadMeans
    <3> QED
      BY <2>6, <3>5 DEF RowOk
  <2>7. CASE input.layout = "incellMap"
    <3>1. Last = Len(Row)
      BY <2>7 DEF Last, Columns, Horizontal
    <3>2. PICK q \in Nat \ {0} : /\ IncellMapLoop(Row, q, map)
                                 /\ \/ q = Last + 1
                                    \/ q <= Last /\ ~Present(Row[q])
      BY <2>1, <2>3, <2>7 DEF LoopInv
    <3>3. HoleFree(Row, 1, Len(Row))
      BY <1>2, <2>7 DEF Overlooked, Columns
    <3>4. CellMapOk(Row) /\ map = CellMap(Row)
      BY <2>2, <3>1, <3>2, <3>3, CellEnds
    <3> QED
      BY <2>7, <3>4 DEF RowOk
  <2> QED
    BY <2>1, <2>4, <2>5, <2>6, <2>7, InputFacts DEF Layouts
<1> QED
  BY <1>1, <1>2 DEF RowIsReference, Refused

\* When the loop over the items of a row is over, the row was acceptable and
\* has given exactly what its items mean, and a loop fails only for a reason
\* (parseHorizontalListField, parseHorizontalMapField, parseIncellListField,
\* parseIncellMapField), for rows of any length.
THEOREM RowReference == SpecField => []RowIsReference
<1>1. InitField => LoopInv /\ ErrorInv
  BY LoopInit
<1>2. TypeInv /\ LoopInv /\ ErrorInv => RowIsReference
  BY LoopMeans
<1> QED
  BY <1>1, <1>2, LoopStep, TypeCorrect, PTL DEF SpecField
=============================================================================

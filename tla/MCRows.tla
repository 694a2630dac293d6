------------------------------- MODULE MCRows --------------------------------
(***************************************************************************)
(* Rows of one list or map field (RowField), and rows of whole records     *)
(* (TableParser): a behaviour reads a field or a sheet. The fields have    *)
(* one row of three items or two rows of two, with every combination of    *)
(* the options that the layout looks at. The sheets are three families:    *)
(* records with a key and a value, with a tag that has a property, and     *)
(* with a field of their own.                                              *)
(***************************************************************************)
EXTENDS TableParser, RowField

VARIABLE reading  \* "field" or "sheet"; the other one keeps its first state

I(k, v) == [key |-> k, val |-> v]
Blanks == I(Empty, Empty)

-----------------------------------------------------------------------------
(***************************************************************************)
(* Fields.                                                                 *)
(***************************************************************************)
\* With the key 0 given and left empty, repeated keys and repeated values.
Few == {I(Empty, Empty), I(0, 1), I(1, 1), I(2, Empty)}
More == Few \cup {I(Empty, 2), I(1, 2), I(2, 0)}

FieldOptions == [layout : Layouts, fixed : BOOLEAN, size : {0, 1, 3}, aggregate : BOOLEAN,
            keyed : BOOLEAN, distinct : BOOLEAN, unique : BOOLEAN, optional : BOOLEAN,
            sequence : {None, 0, 1}]

\* An option the layout does not look at keeps one value; "fixed" and "size"
\* are not both set.
Sensible(o) ==
  /\ ~Horizontal(o) => ~o.fixed /\ o.size = 0
  /\ o.fixed => o.size = 0
  /\ ~IsList(o) => ~o.keyed
  /\ o.layout # "horizontalMap" => o.distinct /\ o.sequence = None
  /\ ~IsList(o) => o.size < 3
  /\ o.layout = "incellMap" => ~o.unique
  /\ ~o.unique => ~o.optional
  /\ o.sequence # None => ~o.unique
  /\ o.keyed => ~o.unique

With(o, rows) ==
  [layout |-> o.layout, fixed |-> o.fixed, size |-> o.size, aggregate |-> o.aggregate,
   keyed |-> o.keyed, distinct |-> o.distinct, unique |-> o.unique,
   optional |-> o.optional, sequence |-> o.sequence, rows |-> rows]

\* A cell that is not empty is not one absent part.
CellsOf(items) == items # <<I(Empty, Empty)>>

\* One row does not tell whether it is aggregated.
OneRow ==
  {With(o, <<items>>) : o \in {p \in FieldOptions : Sensible(p) /\ ~p.aggregate},
                        items \in [1..3 -> More]}
TwoRows ==
  {With(o, <<a, b>>) : o \in {p \in FieldOptions : Sensible(p)}, a \in [1..2 -> Few], b \in [1..2 -> Few]}

\* No columns, and empty cells.
NoItems ==
  {With(o, <<<<>>, <<>>>>) : o \in {p \in FieldOptions : Sensible(p)}}
  \cup {With([layout |-> "horizontalList", fixed |-> FALSE, size |-> 3, aggregate |-> FALSE,
              keyed |-> FALSE, distinct |-> TRUE, unique |-> FALSE, optional |-> TRUE,
              sequence |-> None], <<<<>>, <<>>>>)}

MCInputs == OneRow \cup TwoRows \cup NoItems

-----------------------------------------------------------------------------
(***************************************************************************)
(* Sheets.                                                                 *)
(***************************************************************************)
RecordLayouts == {"map", "keyedList", "list"}

O(layout, sub, aggregate, uniqueKey, sequence, tag, first, optional) ==
  [layout |-> layout, sub |-> sub, aggregate |-> aggregate, uniqueKey |-> uniqueKey,
   sequence |-> sequence, tag |-> tag, first |-> first, optional |-> optional]

KeyOptions ==
  {O(layout, "none", FALSE, unique, sequence, "plain", 0, FALSE) :
     layout \in RecordLayouts, unique \in {TRUE, FALSE, None}, sequence \in {None, 0, 1}}
TagOptions ==
  {O(layout, "none", FALSE, unique, None, tag, first, optional) :
     layout \in RecordLayouts, unique \in {FALSE, None}, tag \in {"unique", "sequence"} \cup Orders,
     first \in {0, 1}, optional \in BOOLEAN}
SubOptions ==
  {O(layout, sub, aggregate, unique, None, "plain", 0, FALSE) :
     layout \in RecordLayouts, sub \in Subs \ {"none"}, aggregate \in BOOLEAN,
     unique \in {FALSE, None}}

MCOptions ==
  {o \in KeyOptions \cup TagOptions \cup SubOptions :
     /\ o.layout = "list" => o.uniqueKey = None /\ o.sequence = None
     /\ o.tag # "sequence" => o.first = 0
     /\ o.tag # "unique" => ~o.optional
     /\ o.sub \in {"none", "list", "map"} => ~o.aggregate}

R(key, val, tag, items) == [key |-> key, val |-> val, tag |-> tag, items |-> items]

\* 0 in both spellings, and enough values to agree and to conflict.
KeyRows == {R(k, v, Empty, <<>>) : k \in {Empty, 0, 1, 2}, v \in {Empty, 0, 1, 2}}
TagRows == {R(k, Empty, t, <<>>) : k \in {Empty, 1, 2}, t \in {Empty, 0, 1, 2}}
OneItem == {<<i>> : i \in {Blanks, I(1, 1), I(1, 2), I(Empty, 1)}}
TwoItems ==
  {<<Blanks, Blanks>>, <<I(1, 1), Blanks>>, <<I(1, 1), I(2, 1)>>, <<I(2, 1), Blanks>>,
   <<I(0, 1), Blanks>>, <<Blanks, I(1, 1)>>, <<I(1, 1), I(1, 2)>>}
SubRows(sub) ==
  {R(k, Empty, Empty, items) :
     k \in {Empty, 1, 2}, items \in IF sub \in {"list", "map"} THEN OneItem ELSE TwoItems}

MCRowsOf(o) ==
  IF o.sub # "none" THEN SubRows(o.sub) ELSE IF o.tag = "plain" THEN KeyRows ELSE TagRows

-----------------------------------------------------------------------------
NoField == CHOOSE o \in MCInputs : o.rows = <<<<>>, <<>>>>
NoSheet == CHOOSE o \in MCOptions : o.sub = "none"

InitRows ==
  \/ reading = "field" /\ InitField /\ opts = NoSheet /\ Init
  \/ reading = "sheet" /\ input = NoField /\ InitField /\ Init

NextRows ==
  /\ \/ reading = "field" /\ NextField /\ UNCHANGED vars
     \/ reading = "sheet" /\ Next /\ UNCHANGED fieldVars
  /\ UNCHANGED reading

SpecRows == InitRows /\ [][NextRows]_<<vars, fieldVars, reading>>
=============================================================================

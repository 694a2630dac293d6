---------------------------- MODULE SheetHeaders ----------------------------
(***************************************************************************)
(* A designer lays out a sheet: fields are added to the columns one after  *)
(* the other, and empty columns put between them. What the proto generator *)
(* makes of the header, and what the conf generator asks of the columns    *)
(* afterwards (both in Headers), must be the fields that were meant.       *)
(*                                                                         *)
(* Design is the reference: Layout writes a field down as the naming rules *)
(* of tableau say, every column prefixed with the names of the fields that *)
(* it is inside of.                                                        *)
(***************************************************************************)
EXTENDS Headers

CONSTANTS Shapes(_, _),\* the fields that may be added, named after a word, in
                       \* a sheet that is nested or not
          Words,       \* the words of the fields, in their order
          MaxFields,   \* bound: fields that are added
          MaxBlanks,   \* bound: columns left empty
          Elements     \* bound: how many elements a horizontal field has

ASSUME BoundsAssumption ==
  /\ MaxFields \in 0..Len(Words) /\ MaxBlanks \in Nat /\ Elements \in 1..9

VARIABLES fields,  \* the fields that were meant
          count,   \* how many were added
          nested,  \* the option Nested of the sheet
          header   \* the columns

headerVars == <<fields, count, nested, header>>

RECURSIVE Layout(_, _), AddAt(_, _, _)

Column(name, type) == [name |-> name, type |-> type]
Blank == Column(<<>>, NoType)
LayoutAll(fs, prefix) ==
  FlattenSeq([i \in 1..Len(fs) |-> Layout(fs[i], prefix)])

\* The text that names the type of a field.
TypeText(f) ==
  IF f.predefined /\ f.type \notin WellKnownTypes
    THEN CHOOSE t \in DOMAIN TypeInfos : TypeInfos[t].name = f.type
    ELSE f.type
KeyText(f) ==
  IF f.fields = <<>> \/ ~f.fields[1].predefined THEN f.keyType
  ELSE CHOOSE e \in DOMAIN EnumTypes : EnumTypes[e] = TypeText(f.fields[1])
ValueText(f) == IF f.type = "" THEN TypeText(f.fields[2]) ELSE TypeText(f)
Pairs(fs) == [i \in 1..Len(fs) |-> <<fs[i].type, fs[i].name[1]>>]
ScalarCell(f) == Basic(TypeText(f), f.prop)
StructCell(f) == IF f.predefined THEN StructOf(TypeText(f), <<>>, <<>>, NoType, f.prop)
                 ELSE StructOf("", Pairs(f.fields), <<>>, Basic(f.type, {}), f.prop)
\* The columns cs with the type of the first one inside that of a field.
Wrapped(cs, type(_, _)) ==
  <<Column(cs[1].name, type([cs[1].type EXCEPT !.prop = {}], cs[1].type.prop))>>
    \o Tail(cs)

Layout(f, prefix) ==
  LET own == prefix \o f.name
      Elem(i) == Append(own, ToString(i))
      Later(At(_)) == FlattenSeq([i \in 1..(Elements - 1) |-> At(Elem(i + 1))])
      MapCell(props) == MapOf(KeyText(f), ValueText(f), f.prop \cup props)
      ListCell(col, props) == ListOf(TypeText(f), col, f.layout = "vertical" /\ f.key # <<>>,
                                     f.prop \cup props)
      InnerCol == IF f.span = "inner" THEN [StructCell(f) EXCEPT !.prop = {}]
                  ELSE Basic(TypeText(f), {})
      MapColumns(p) == <<Column(p \o f.key, MapCell(f.fields[1].prop))>>
                         \o LayoutAll(Tail(f.fields), p)
  IN CASE f.kind = "scalar" -> <<Column(own, ScalarCell(f))>>
       [] f.kind = "struct" /\ f.span = "inner" -> <<Column(own, StructCell(f))>>
       [] f.kind = "struct" /\ f.span = "none" ->
            Wrapped(LayoutAll(f.fields, own),
                    LAMBDA col, props : StructOf(TypeText(f), <<>>,
                                                 IF f.name = <<f.type>> THEN <<>> ELSE f.name,
                                                 col, f.prop \cup props))
       [] f.kind = "map" /\ f.layout = "incell" ->
            <<Column(own, MapCell({}))>>
       [] f.kind = "map" /\ f.layout = "vertical" -> MapColumns(own)
       [] f.kind = "map" /\ f.layout = "horizontal" ->
            MapColumns(Elem(1)) \o Later(LAMBDA p : LayoutAll(f.fields, p))
       [] f.kind = "list" /\ f.layout = "incell" ->
            <<Column(own, ListOf("", InnerCol, f.key # <<>>, f.prop))>>
       [] f.kind = "list" /\ f.layout = "vertical" ->
            Wrapped(LayoutAll(f.fields, own), ListCell)
       [] f.kind = "list" /\ f.layout = "horizontal" /\ (f.fields = <<>> \/ f.span = "inner") ->
            <<Column(Elem(1), ListOf("", InnerCol, FALSE, f.prop))>>
              \o Later(LAMBDA p : <<Column(p, InnerCol)>>)
       [] f.kind = "list" /\ f.layout = "horizontal" /\ f.fields # <<>> /\ f.span = "none" ->
            Wrapped(LayoutAll(f.fields, Elem(1)), ListCell)
              \o Later(LAMBDA p : LayoutAll(f.fields, p))

(***************************************************************************)
(* Where a field may be added: a vertical map or list takes what comes     *)
(* after its columns; in a nested sheet the prefix tells whether a column  *)
(* is still inside of it.                                                  *)
(***************************************************************************)
IsOpen(fs) == fs # <<>> /\ Last(fs).layout = "vertical"

AddAt(fs, f, depth) ==
  IF depth = 0 THEN Append(fs, f)
  ELSE [fs EXCEPT ![Len(fs)].fields = AddAt(fs[Len(fs)].fields, f, depth - 1)]

RECURSIVE Depth(_)
Depth(fs) == IF IsOpen(fs) THEN 1 + Depth(Last(fs).fields) ELSE 0

InitHeaders == fields = <<>> /\ header = <<>> /\ count = 0 /\ nested \in BOOLEAN

\* The columns of a field; empty ones that were put in stay where they are.
AddField(f, depth) ==
  /\ count < MaxFields
  /\ header = SelectSeq(header, LAMBDA c : c # Blank)
  /\ ~nested => depth = Depth(fields)
  /\ fields' = AddAt(fields, f, depth)
  /\ header' = LayoutAll(fields', <<>>)
  /\ count' = count + 1
  /\ UNCHANGED nested

InsertBlank(i) ==
  /\ Cardinality({j \in 1..Len(header) : header[j] = Blank}) < MaxBlanks
  /\ header' = InsertAt(header, i, Blank)
  /\ UNCHANGED <<fields, count, nested>>

NextHeaders == \/ \E f \in Shapes(Words[count + 1], nested), depth \in 0..Depth(fields) : AddField(f, depth)
        \/ \E i \in 1..Len(header) : InsertBlank(i)

-----------------------------------------------------------------------------
Parsed == ParseHeader(header, nested)

\* The conf generator finds every column that it asks for, and every column
\* that has a name is the cell of one field of one element.
ColumnsReadOnce ==
  LET reads == ReadsAll(header, Parsed.fields, <<>>)
      names == {header[i].name : i \in 1..Len(header)} \ {<<>>}
  IN /\ IsInjective(reads)
     /\ ToSet(reads) = names
     /\ KeyColumnsAll(header, Parsed.fields, <<>>) \subseteq names

(* The fields of the proto message are the ones that were meant, whatever   *)
(* their layouts, how they are nested, where the map or list ends that      *)
(* takes a column, and where columns are left empty (parseField). The conf  *)
(* generator reads every column for one of them, none twice.                *)
HeaderIsUnderstood == Parsed.ok /\ Parsed.fields = fields /\ ColumnsReadOnce
=============================================================================

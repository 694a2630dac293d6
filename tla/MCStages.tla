------------------------------ MODULE MCStages ------------------------------
(* Every stage on its own small instance. *)
EXTENDS Stages, MCFieldNumbers, MCWorkbookIndex

CONSTANTS impA, impB, impC \* importers

MCNumberOf == [n \in {"0", "1"} |-> IF n = "0" THEN 0 ELSE 1]
MCLimits == {-2, 0, 3}

\* Cases that hold nothing, a scalar, or a message of a number and a list.
MCCaseNames == <<"x", "y">>
MCHoldings == {Nothing, OneScalar, <<"number", "list">>}
MCInnerColumns == {{0, 1, 2}, {0, 1}}
MCInnerCells == {<<>>, <<1>>, <<BlankPart, 1>>, <<1, BlankPart>>, <<JunkPart>>}

\* The scattered workbook has the name of the main sheet, in another directory.
MCMainBook == [dir |-> "p", book |-> "a", sheet |-> "S"]
MCOutBooks == {MCMainBook, [dir |-> "q", book |-> "b", sheet |-> "S"]}
MCConfSamples == [one |-> {<<1>>, <<2>>}, many |-> {<<1>>},
                  text |-> {<<"word">>, <<"blank", "wide", "word">>},
                  use_time |-> {<<0>>, <<5>>, <<-4>>}]
\* Before the turn the offset has half a minute.
MCZones == {[known |-> TRUE, turn |-> 1, before |-> 3, after |-> 4]}
MCLowestTime == -6
-----------------------------------------------------------------------------
(* SheetHeaders: one field of every form that a header can describe, and    *)
(* the compositions of them in which a prefix is inside of another.         *)

MCWords == <<"Ann", "Bob", "Cyd", "Dan">>
MCEnumTypes == [e \in {"enum<.Color>"} |-> ".Color"]
MCTypeInfos ==
  [t \in {".Color", ".Item"} |->
     IF t = ".Color"
       THEN [name |-> "Color", kind |-> "enum", first |-> <<>>, fields |-> <<>>]
       ELSE [name |-> "Item", kind |-> "message", first |-> <<"Key">>,
             fields |-> <<<<"Key">>, <<"Num">>>>]]

OneField(name, type, prop) == [BasicField(name, Basic(type, {})) EXCEPT !.prop = prop]
FieldOf(form, layout, name, type, fs) ==
  [NoField EXCEPT !.kind = form, !.layout = layout, !.name = name, !.type = type,
                  !.fields = fs]
IdField == OneField(<<"ID">>, "int32", {})
KeyField == OneField(<<"Key">>, "int32", {})
UniqueField == OneField(<<"ID">>, "int32", {"unique", "optional"})
NumField == OneField(<<"Num">>, "string", {})
IdAndNum == <<IdField, NumField>>

ListIn(name) == FieldOf("list", "horizontal", name, "int32", <<>>)
MapIn(name) == [FieldOf("map", "horizontal", name, "Val", IdAndNum)
                  EXCEPT !.key = <<"ID">>, !.keyType = "int32"]
StructIn(name) == FieldOf("struct", "none", name, "Sub", IdAndNum)

OneCell(w) ==
  {OneField(<<w>>, "int32", {}), OneField(<<w>>, "datetime", {"optional", "unique"}),
   OneField(<<w>>, ".Color", {}),
   [FieldOf("struct", "none", <<w>>, w, IdAndNum) EXCEPT !.span = "inner", !.prop = {"form"}],
   [FieldOf("struct", "none", <<w>>, "Item", <<>>) EXCEPT
      !.span = "inner", !.predefined = TRUE],
   [FieldOf("map", "incell", <<w>>, "int32", <<>>) EXCEPT !.keyType = "int32", !.prop = {"sep"}],
   [FieldOf("map", "incell", <<w>>, "", <<OneField(<<"Key">>, ".Color", {}),
                                        OneField(<<"Value">>, "int32", {})>>)
      EXCEPT !.keyType = "int32", !.key = <<"Key">>],
   FieldOf("list", "incell", <<w>>, "int32", <<>>),
   [FieldOf("list", "incell", <<w>>, "int32", <<>>) EXCEPT !.key = <<w>>],
   [FieldOf("list", "incell", <<w>>, "Sub", IdAndNum) EXCEPT !.span = "inner"]}

Horizontal(w) ==
  {ListIn(<<w>>), MapIn(<<w>>),
   [MapIn(<<w>>) EXCEPT !.prop = {"size", "aggregate", "optional"}, !.fields = <<UniqueField, NumField>>],
   FieldOf("list", "horizontal", <<w>>, "Sub", IdAndNum),
   [FieldOf("list", "horizontal", <<w>>, "Sub", IdAndNum) EXCEPT !.span = "inner"],
   [FieldOf("list", "horizontal", <<w>>, "Item", <<KeyField, OneField(<<"Num">>, "int32", {})>>)
      EXCEPT !.predefined = TRUE],
   FieldOf("list", "horizontal", <<w>>, "Sub", <<ListIn(<<"Lot">>), NumField>>),
   FieldOf("list", "horizontal", <<w>>, "Sub", <<IdField, MapIn(<<"Lot">>)>>),
   FieldOf("list", "horizontal", <<w>>, "Sub", <<StructIn(<<"Sub">>), NumField>>)}

Structs(w) ==
  {StructIn(<<w>>), FieldOf("struct", "none", <<w>>, w, <<ListIn(<<"Lot">>), NumField>>),
   FieldOf("struct", "none", <<w>>, w, <<IdField, StructIn(<<"Sub">>), NumField>>),
   [FieldOf("struct", "none", <<w>>, "Item", <<KeyField, OneField(<<"Num">>, "int32", {})>>)
      EXCEPT !.predefined = TRUE]}

Vertical(w, n) ==
  LET name == IF n THEN <<w>> ELSE <<>>
  IN {[FieldOf("map", "vertical", name, w, <<IdField>>) EXCEPT !.key = <<"ID">>, !.keyType = "int32"],
      [FieldOf("map", "vertical", name, w, <<UniqueField>>) EXCEPT
         !.key = <<"ID">>, !.keyType = "int32", !.prop = {"optional", "size"}],
      [FieldOf("list", "vertical", name, w, <<IdField>>) EXCEPT !.key = <<"ID">>],
      FieldOf("list", "vertical", name, w, <<StructIn(<<"Sub">>)>>)}

\* In a sheet that is not nested the columns of two vertical fields have no
\* prefix: only one of them may have the column IdField.
Distinct(w, f) ==
  IF w = MCWords[1] \/ f.layout # "vertical" \/ f.name # <<>> THEN f
  ELSE [f EXCEPT !.fields[1].name = <<w>>, !.key = IF f.key = <<>> THEN <<>> ELSE <<w>>]

MCShapes(w, n) ==
  {Distinct(w, f) : f \in OneCell(w) \cup Horizontal(w) \cup Structs(w) \cup Vertical(w, n)}

\* The third field and those after it, of the forms that end another one.
Fewer(w, n) ==
  IF w \in {MCWords[1], MCWords[2]} THEN MCShapes(w, n)
  ELSE {OneField(<<w>>, "int32", {}), StructIn(<<w>>), ListIn(<<w>>)}
-----------------------------------------------------------------------------
(* DataRows: a map with a keyed list in it, two maps without a common       *)
(* prefix, and a header with a name that is there twice.                    *)

HeaderCell(name, type) == [name |-> name, type |-> type]
KeyOfMap == MapOf("uint32", "Item", {})
IntCell == Basic("int32", {})

MCTableColumns ==
  {<<HeaderCell(<<"Ann", "ID">>, KeyOfMap), HeaderCell(<<"Ann", "Bob", "ID">>, ListOf("Bob", "uint32", TRUE, {})),
     HeaderCell(<<"Ann", "Bob", "Num">>, IntCell)>>,
   <<HeaderCell(<<"Num">>, IntCell), HeaderCell(<<"Ann", "ID">>, KeyOfMap), HeaderCell(<<"Bob", "ID">>, KeyOfMap)>>,
   <<HeaderCell(<<"ID">>, KeyOfMap), HeaderCell(<<"ID">>, IntCell)>>}
-----------------------------------------------------------------------------
(* DocumentSheets: every form of an item, and forms inside of others.       *)

MCItemNames == <<"Ann", "Bob">>

TextItem(form, name) == Item(name, form, <<>>)
IdItem == TextItem("scalar", "ID")
NumItem == TextItem("scalar", "Num")

FormsOfItem(name) ==
  {TextItem(form, name) : form \in {"scalar", "incellList", "incellMap", "incellStruct",
                                "scalarList", "kvMap"}}
  \cup {Item(name, "struct", <<TextItem("scalarList", "Lot"), NumItem>>),
        Item(name, "struct", <<TextItem("incellMap", "Lot"), TextItem("incellStruct", "Pair")>>),
        Item(name, "list", <<IdItem, NumItem>>),
        Item(name, "list", <<IdItem, Item("Sub", "struct", <<NumItem>>)>>),
        Item(name, "map", <<IdItem, NumItem>>),
        Item(name, "map", <<IdItem, TextItem("scalarList", "Lot")>>),
        Item(name, "map", <<IdItem, Item("Sub", "struct", <<NumItem>>)>>)}

\* The second item: one of each kind.
MCItems(name) ==
  IF name = MCItemNames[1] THEN FormsOfItem(name)
  ELSE {TextItem("scalar", name), TextItem("scalarList", name), Item(name, "struct", <<NumItem>>)}
-----------------------------------------------------------------------------
(* MergeReduce.                                                             *)

\* Keys are shared by some of these and not by others; two lists of which one
\* may be empty; one message with a field that cannot be merged.
MessageWithKeys(k1, k2, fs) == [keys |-> [m1 |-> k1, m2 |-> k2], populated |-> fs]

MCContents ==
  {MessageWithKeys({}, {}, {}), MessageWithKeys({1}, {1}, {"l1"}), MessageWithKeys({2}, {1}, {"l1", "l2"}),
   MessageWithKeys({1, 2}, {}, {"l2"}), MessageWithKeys({2}, {2}, {"s"}), MessageWithKeys({}, {3}, {"l1", "l2"}),
   MessageWithKeys({3}, {}, {"l1", "l2"})}
=============================================================================

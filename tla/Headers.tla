------------------------------ MODULE Headers -------------------------------
(***************************************************************************)
(* The header of a table read as the fields of a message                   *)
(* (internal/protogen/table_parser.go): a descent over the columns from    *)
(* left to right, in which a map, a list or a struct takes the columns     *)
(* after its own as long as they belong to it.                             *)
(*                                                                         *)
(* A header h is a sequence of columns, each with the name and the type of *)
(* its cells. What a parse returns is a record: ok, the cursor cur it      *)
(* stopped at, the fields it found, and seen, the cursors of the names     *)
(* that checkNameConflicts has met. vt is the virtual type cell, the type  *)
(* of the first column of an element, which stands in for the cell at its  *)
(* cursor (Options.GetVTypeCell); only the last one given is ever at the   *)
(* cursor of a field. nested is the option Nested of the sheet.            *)
(***************************************************************************)
EXTENDS TypeCells, FiniteSetsExt, TLC

NoCell == [at |-> 0, type |-> NoType]
Cell(at, type) == [at |-> at, type |-> type]

Result(cur, fields, seen) == [ok |-> TRUE, cur |-> cur, fields |-> fields, seen |-> seen]
Failure == [ok |-> FALSE, cur |-> 0, fields |-> <<>>, seen |-> {}]

NameCell(h, c) == IF c <= Len(h) THEN h[c].name ELSE <<>>
TypeCell(h, c) == IF c <= Len(h) THEN h[c].type ELSE NoType

\* getValidNameCell: the cursor of the first column with a name from c on.
ValidNameCell(h, c) ==
  LET named == {i \in c..Len(h) : h[i].name # <<>>}
  IN IF named # {} THEN Min(named) ELSE IF c > Len(h) THEN c ELSE Len(h) + 1

\* opts.GetVTypeCell(cursor), else the cell of the header
TypeAt(h, c, vt) == IF vt.at = c /\ vt.type # NoType THEN vt.type ELSE TypeCell(h, c)

Conflicts(h, c, seen) == \E i \in seen \ {c} : h[i].name = h[c].name

RECURSIVE ParseField(_, _, _, _, _, _),
          ParseRest(_, _, _, _, _, _, _, _)
-----------------------------------------------------------------------------
(* parseMapField                                                            *)
MapLayout(h, c, prefix, type) ==
  LET name  == TrimPrefix(NameCell(h, c), prefix)
      next  == ValidNameCell(h, c + 1)
      incell == IsIncellValue(TypeDescriptor(type.value))
  IN CASE ~HasDigit(name, "1") -> IF incell THEN "incell" ELSE "vertical"
       [] HasDigit(name, "1") /\ c + 1 > Len(h) -> "horizontal"
       [] HasDigit(name, "1") /\ c + 1 <= Len(h) ->
            IF /\ incell
               /\ HasDigit(TrimPrefix(NameCell(h, next), prefix), "2")
                    => IsMap(TypeCell(h, next))
            THEN "incell" ELSE "horizontal"

KeyCell(type) == Basic(type.key, type.prop)
MapKeyOk(type) == BasicOk(KeyCell(type)) /\ TypeFound(type.value)

MapField(type, layout) ==
  LET d == TypeDescriptor(type.value)
  IN [NoField EXCEPT !.kind = "map", !.layout = layout, !.type = d.name,
                     !.predefined = d.predefined,
                     !.keyType = IF IsEnum(type.key) THEN "int32" ELSE type.key,
                     !.prop = ExtractMapFieldProp(type.prop, layout)]

ParseVerticalMap(h, c, prefix, nested, type, seen) ==
  LET value == TypeDescriptor(type.value).name
      inner == IF nested THEN Append(prefix, value) ELSE prefix
      key   == TrimPrefix(NameCell(h, c), inner)
      rest  == ParseRest(h, c + 1, inner, IF nested THEN "prefixed" ELSE "all",
                         nested, <<BasicField(key, KeyCell(type))>>, NoCell, seen)
  IN IF rest.ok
       THEN Result(rest.cur,
                   <<[MapField(type, "vertical") EXCEPT
                        !.name = IF nested THEN <<value>> ELSE <<>>,
                        !.key = key, !.fields = rest.fields]>>, rest.seen)
       ELSE Failure

ParseHorizontalMap(h, c, prefix, nested, type, seen) ==
  LET mapName == BeforeDigit(TrimPrefix(NameCell(h, c), prefix), "1")
      inner   == prefix \o mapName
      key     == TrimPrefix(NameCell(h, c), Append(inner, "1"))
      rest    == ParseRest(h, c + 1, inner, "first", nested,
                           <<BasicField(key, KeyCell(type))>>, NoCell, seen)
  IN IF rest.ok
       THEN Result(rest.cur,
                   <<[MapField(type, "horizontal") EXCEPT
                        !.name = mapName, !.key = key, !.fields = rest.fields]>>,
                   rest.seen)
       ELSE Failure

\* A map in one cell; an enum as its key makes a message of key and value.
ParseIncellMap(h, c, prefix, type, seen) ==
  LET name == TrimPrefix(NameCell(h, c), prefix)
      enumKey == TypeFound(type.key) /\ TypeDescriptor(type.key).kind = "enum"
      field == [MapField(type, "incell") EXCEPT !.name = name, !.prop = WholeProp(type.prop)]
  IN IF ~TypeFound(type.key) THEN Failure
     ELSE IF enumKey
       THEN Result(c, <<[field EXCEPT !.predefined = FALSE, !.type = "", !.key = <<"Key">>,
                           !.fields = <<BasicField(<<"Key">>, KeyCell(type)),
                                        BasicField(<<"Value">>, Basic(type.value, {}))>>]>>,
                   seen)
       ELSE Result(c, <<field>>, seen)

ParseMapField(h, c, prefix, nested, vt, seen) ==
  LET type == TypeAt(h, c, vt)
      layout == MapLayout(h, c, prefix, type)
  IN IF ~TypeFound(type.value) \/ ~PropOk(type.prop) THEN Failure
     ELSE CASE layout = "incell" -> ParseIncellMap(h, c, prefix, type, seen)
            [] layout = "vertical" ->
                 IF MapKeyOk(type) THEN ParseVerticalMap(h, c, prefix, nested, type, seen)
                 ELSE Failure
            [] layout = "horizontal" ->
                 IF MapKeyOk(type) THEN ParseHorizontalMap(h, c, prefix, nested, type, seen)
                 ELSE Failure
-----------------------------------------------------------------------------
(* parseListField. The element of a list whose cell is "[]col" is in one    *)
(* cell: a scalar, an incell struct or a predefined one.                    *)
InnerCell(type) == type.elem = ""
ScalarElement(type) == InnerCell(type) /\ ~IsStruct(type.col)

ListElem(type) ==
  IF ~InnerCell(type) THEN type.elem
  ELSE IF ~IsStruct(type.col) THEN type.col.of
  ELSE IF type.col.col = NoType THEN type.col.of ELSE type.col.col.of

ListLayout(h, c, prefix, type) ==
  LET name == TrimPrefix(NameCell(h, c), prefix)
      next == ValidNameCell(h, c + 1)
  IN CASE ~HasDigit(name, "1") -> IF InnerCell(type) THEN "incell" ELSE "vertical"
       [] HasDigit(name, "1") /\ c + 1 > Len(h) -> "horizontal"
       [] HasDigit(name, "1") /\ c + 1 <= Len(h) ->
            IF /\ ScalarElement(type)
               /\ HasDigit(TrimPrefix(NameCell(h, next), prefix), "2")
                    => IsList(TypeCell(h, next))
            THEN "incell" ELSE "horizontal"

ListField(type, layout) ==
  LET d == TypeDescriptor(ListElem(type))
  IN [NoField EXCEPT !.kind = "list", !.layout = layout, !.type = d.name,
                     !.predefined = d.predefined,
                     !.prop = ExtractListFieldProp(type.prop,
                                d.name \in ScalarTypes \cup WellKnownTypes, layout)]

ParseVerticalList(h, c, prefix, nested, type, vt, seen) ==
  LET elem  == TypeDescriptor(type.elem).name
      inner == IF nested THEN Append(prefix, elem) ELSE prefix
      first == ParseField(h, c, inner, nested,
                          Cell(c, WithProp(type.col, type.prop)), seen)
      rest  == ParseRest(h, first.cur + 1, inner,
                         IF nested THEN "prefixed" ELSE "all", nested,
                         first.fields, vt, first.seen)
  IN IF first.ok /\ rest.ok
       THEN Result(rest.cur,
                   <<[ListField(type, "vertical") EXCEPT
                        !.name = IF nested THEN <<elem>> ELSE <<>>,
                        !.key = IF type.keyed THEN TrimPrefix(NameCell(h, c), inner)
                                ELSE <<>>,
                        !.fields = rest.fields]>>, rest.seen)
       ELSE Failure

ParseHorizontalList(h, c, prefix, nested, type, vt, seen) ==
  LET listName == BeforeDigit(TrimPrefix(NameCell(h, c), prefix), "1")
      inner    == prefix \o listName
      first    == ParseField(h, c, Append(inner, "1"), nested,
                             Cell(c, WithProp(type.col, type.prop)), seen)
      rest     == IF InnerCell(type)
                    THEN ParseRest(h, c + 1, inner, "skip", nested,
                                   first.fields[1].fields, vt, first.seen)
                    ELSE ParseRest(h, first.cur + 1, inner, "first", nested,
                                   first.fields, vt, first.seen)
      field    == [ListField(type, "horizontal") EXCEPT !.name = listName]
  IN IF ~first.ok \/ (InnerCell(type) /\ first.fields = <<>>) THEN Failure
     ELSE IF ~rest.ok THEN Failure
     ELSE Result(rest.cur,
                 <<[field EXCEPT
                      !.fields = rest.fields,
                      !.predefined = IF InnerCell(type) THEN first.fields[1].predefined
                                     ELSE field.predefined,
                      !.span = IF InnerCell(type) THEN first.fields[1].span
                               ELSE field.span]>>, rest.seen)

ParseIncellList(h, c, prefix, type, seen) ==
  LET name  == TrimPrefix(NameCell(h, c), prefix)
      pairs == IF IsStruct(type.col) /\ type.col.col # NoType THEN type.col.pairs ELSE <<>>
      basic == Basic(ListElem(type), type.prop)
  IN IF PairsOk(pairs) /\ BasicOk(basic)
       THEN Result(c, <<[ListField(type, "incell") EXCEPT
                           !.name = name,
                           !.key = IF type.keyed THEN name ELSE <<>>,
                           !.span = IF ScalarElement(type) THEN "none" ELSE "inner",
                           !.fields = PairFields(pairs)]>>, seen)
       ELSE Failure

ParseListField(h, c, prefix, nested, vt, seen) ==
  LET type == TypeAt(h, c, vt)
      layout == ListLayout(h, c, prefix, type)
  IN IF ~TypeFound(ListElem(type)) \/ ~PropOk(type.prop) THEN Failure
     ELSE CASE layout = "incell" -> ParseIncellList(h, c, prefix, type, seen)
            [] layout = "vertical" ->
                 ParseVerticalList(h, c, prefix, nested, type, vt, seen)
            [] layout = "horizontal" ->
                 ParseHorizontalList(h, c, prefix, nested, type, vt, seen)
-----------------------------------------------------------------------------
(* parseStructField                                                         *)
FirstOptionName(of) ==
  IF Stripped(of) \in DOMAIN TypeInfos THEN TypeInfos[Stripped(of)].first ELSE <<>>

\* trimmedNameCell[:strings.LastIndex(trimmedNameCell, FirstFieldOptionName)]
BeforeLast(name, part) ==
  LET at == {i \in 1..Len(name) : IsPrefix(part, SubSeq(name, i, Len(name)))}
  IN SubSeq(name, 1, Max(at) - 1)
Occurs(name, part) ==
  \E i \in 1..Len(name) : IsPrefix(part, SubSeq(name, i, Len(name)))

StructName(name, type) ==
  LET d == TypeDescriptor(type.of)
  IN IF d.predefined /\ Occurs(name, FirstOptionName(type.of))
       THEN BeforeLast(name, FirstOptionName(type.of))
     ELSE IF type.custom # <<>> THEN type.custom
     ELSE <<d.name>>

StructField(name, cell, type) ==
  [BasicField(name, cell) EXCEPT !.kind = "struct", !.span = "inner",
                                 !.prop = ExtractStructFieldProp(type.prop)]

ParseIncellStruct(h, c, prefix, type, seen) ==
  LET name == TrimPrefix(NameCell(h, c), prefix)
      cell == IF type.col = NoType THEN Basic(type.of, {}) ELSE type.col
  IN IF PairsOk(type.pairs) /\ BasicOk(cell)
       THEN Result(c, <<[StructField(name, cell, type) EXCEPT
                           !.fields = PairFields(type.pairs)]>>, seen)
       ELSE Failure

ParseCrossCellStruct(h, c, prefix, nested, type, vt, seen) ==
  LET name  == StructName(TrimPrefix(NameCell(h, c), prefix), type)
      inner == prefix \o name
      first == ParseField(h, c, inner, nested,
                          Cell(c, WithProp(type.col, type.prop)), seen)
      rest  == ParseRest(h, first.cur + 1, inner, "prefixed", nested,
                         first.fields, vt, first.seen)
      predefined == TypeDescriptor(type.of).predefined
  IN IF predefined /\ FirstOptionName(type.of) = <<>> THEN Failure
     ELSE IF first.ok /\ rest.ok
       THEN Result(rest.cur,
                   <<[StructField(name, Basic(type.of, {}), type) EXCEPT
                        !.span = "none", !.fields = rest.fields]>>, rest.seen)
       ELSE Failure

ParseStructField(h, c, prefix, nested, vt, seen) ==
  LET type == TypeAt(h, c, vt)
  IN IF ~PropOk(type.prop) THEN Failure
     ELSE IF type.col = NoType \/ type.pairs # <<>>
       THEN ParseIncellStruct(h, c, prefix, type, seen)
     ELSE IF ~TypeFound(type.of) THEN Failure
     ELSE ParseCrossCellStruct(h, c, prefix, nested, type, vt, seen)
-----------------------------------------------------------------------------
(* parseField and parseSubField: the field at the cursor, if there is one.  *)
ParseField(h, c0, prefix, nested, vt, seen0) ==
  LET c    == ValidNameCell(h, c0)
      seen == seen0 \cup {c}
      type == TypeAt(h, c, vt)
  IN IF NameCell(h, c) = <<>> \/ TypeCell(h, c) = NoType
       THEN Result(c, <<>>, seen0)
     ELSE IF Conflicts(h, c, seen0) THEN Failure
     ELSE CASE IsMap(type) -> ParseMapField(h, c, prefix, nested, vt, seen)
            [] IsList(type) -> ParseListField(h, c, prefix, nested, vt, seen)
            [] IsStruct(type) -> ParseStructField(h, c, prefix, nested, vt, seen)
            [] type.form = "basic" ->
                 IF BasicOk(type)
                   THEN Result(c, <<BasicField(TrimPrefix(NameCell(h, c), prefix), type)>>,
                               seen)
                   ELSE Failure

(***************************************************************************)
(* The loops over the columns after the first one of a map, a list or a    *)
(* struct with the prefix: "all" columns, those with the prefix            *)
(* ("prefixed"), and in a horizontal layout the other columns of the first *)
(* element ("first"), or none of them ("skip"), the ones of the elements   *)
(* after it being passed over.                                             *)
(***************************************************************************)
ParseRest(h, c0, prefix, mode, nested, fields, vt, seen) ==
  LET horizontal == mode \in {"first", "skip"}
      c   == IF mode = "all" THEN c0 ELSE ValidNameCell(h, c0)
      name == NameCell(h, c)
      takes == CASE mode = "all" -> TRUE
                 [] mode = "prefixed" -> IsPrefix(prefix, name)
                 [] mode = "first" -> BelongToFirstElement(name, prefix)
                 [] mode = "skip" -> FALSE
      sub == ParseField(h, c, IF horizontal THEN Append(prefix, "1") ELSE prefix,
                        nested, vt, seen)
  IN IF c0 > Len(h) THEN Result(c0, fields, seen)
     ELSE IF horizontal /\ TypeCell(h, c0) = NoType
       THEN ParseRest(h, c0 + 1, prefix, mode, nested, fields, vt, seen)
     ELSE IF takes
       THEN IF sub.ok THEN ParseRest(h, sub.cur + 1, prefix, mode, nested,
                                     fields \o sub.fields, vt, sub.seen)
            ELSE Failure
     ELSE IF horizontal /\ IsPrefix(prefix, name)
       THEN ParseRest(h, c + 1, prefix, mode, nested, fields, vt, seen)
     ELSE Result(c - 1, fields, seen)

(* The loop of the sheet (protogen.go): every column, with no prefix.       *)
ParseHeader(h, nested) == ParseRest(h, 1, <<>>, "all", nested, <<>>, NoCell, {})
-----------------------------------------------------------------------------
(***************************************************************************)
(* The columns of a table that the conf generator asks for                 *)
(* (internal/confgen/table_parser.go, Row.Cell in internal/importer/book), *)
(* given the fields that the proto generator wrote into the proto file. A  *)
(* predefined message has the fields of its own file, not those of the     *)
(* header.                                                                 *)
(***************************************************************************)
RECURSIVE Reads(_, _, _), KeyColumns(_, _, _)

\* (mutant of GetCellCountWithPrefix: it counts the columns)
CountWithPrefix(h, prefix) ==
  Cardinality({i \in 1..Len(h) : IsPrefix(prefix, h[i].name)
                                 /\ BelongToFirstElement(h[i].name, prefix)})

\* GetCellCountWithPrefix: the largest number right after the prefix. (Numbers
\* of one digit: no header here has more elements.)
GetCellCountWithPrefix(h, prefix) ==
  LET n == Len(prefix) + 1
      suffixes == {h[i].name[n] : i \in {j \in 1..Len(h) : IsPrefix(prefix, h[j].name)
                                                           /\ Len(h[j].name) >= n}}
  IN Max({0} \cup {k \in 1..9 : ToString(k) \in suffixes})

IsMessage(f) ==
  \/ f.kind \in {"map", "list", "struct"} /\ f.fields # <<>> /\ f.span = "none"
  \/ f.predefined /\ f.type \notin ScalarTypes \cup WellKnownTypes
     /\ \E t \in DOMAIN TypeInfos : TypeInfos[t].name = f.type /\ TypeInfos[t].kind = "message"

SubFields(f) ==
  IF f.predefined
    THEN LET t == CHOOSE t \in DOMAIN TypeInfos : TypeInfos[t].name = f.type
         IN [i \in 1..Len(TypeInfos[t].fields) |->
               BasicField(TypeInfos[t].fields[i], Basic("int32", {}))]
    ELSE f.fields

\* parseMessage: the fields of a message, one after the other
ReadsAll(h, fields, prefix) ==
  FlattenSeq([i \in 1..Len(fields) |-> Reads(h, fields[i], prefix)])
KeyColumnsAll(h, fields, prefix) == UNION {KeyColumns(h, fields[i], prefix) : i \in 1..Len(fields)}

\* newPrefix + strconv.Itoa(i), the prefix of the i-th element
ElemPrefix(prefix, i) == Append(prefix, ToString(i))

(***************************************************************************)
(* The columns whose cell a field is made of: of a horizontal map or list  *)
(* those of each of its elements, of what is in one cell that one.         *)
(***************************************************************************)
Reads(h, f, prefix) ==
  LET own == prefix \o f.name
      elements == 1..GetCellCountWithPrefix(h, own)
      oneCell == \/ f.kind = "scalar" \/ f.layout = "incell"
                 \/ f.kind = "struct" /\ f.span = "inner"
  IN CASE oneCell -> <<own>>
       [] ~oneCell /\ f.layout = "horizontal" /\ (f.span = "inner" \/ ~IsMessage(f)) ->
            [i \in elements |-> ElemPrefix(own, i)]
       [] ~oneCell /\ f.layout = "horizontal" /\ f.span # "inner" /\ IsMessage(f) ->
            FlattenSeq([i \in elements |-> ReadsAll(h, SubFields(f), ElemPrefix(own, i))])
       [] ~oneCell /\ f.layout # "horizontal" -> ReadsAll(h, SubFields(f), own)

(***************************************************************************)
(* The columns that are asked for as keys: keyColName of maps and lists.   *)
(***************************************************************************)
KeyColumns(h, f, prefix) ==
  LET own == prefix \o f.name
      elements == 1..GetCellCountWithPrefix(h, own)
      hasKey == f.key # <<>>
      fields == IF IsMessage(f) THEN SubFields(f) ELSE <<>>
  IN CASE f.kind = "scalar" \/ f.layout = "incell" \/ f.span = "inner" -> {}
       [] f.layout = "horizontal" /\ f.span # "inner" ->
            UNION {(IF f.kind = "map" THEN {ElemPrefix(own, i) \o f.key} ELSE {})
                     \cup KeyColumnsAll(h, fields, ElemPrefix(own, i)) : i \in elements}
       [] f.layout = "vertical" ->
            (IF hasKey THEN {own \o f.key} ELSE {}) \cup KeyColumnsAll(h, fields, own)
       [] f.kind = "struct" /\ f.span # "inner" -> KeyColumnsAll(h, fields, own)
=============================================================================

--------------------------- MODULE DocumentSheets ---------------------------
(***************************************************************************)
(* An author describes a document by a schema and writes one. The schema   *)
(* becomes the nodes and then the fields of a message (DocNodes), and the  *)
(* document its value: what is read must be what was written, in XML and   *)
(* in YAML.                                                                *)
(*                                                                         *)
(* An item of a schema has a name, a form and the items inside of it. What *)
(* is written for it is a sequence: of texts for the forms that are texts, *)
(* of pairs for a map of scalars, and of functions from the items inside   *)
(* to what is written for them for the others.                             *)
(***************************************************************************)
EXTENDS DocNodes, FiniteSets

(***************************************************************************)
(* The message a data sheet of a document is parsed into: the document     *)
(* parser of confgen (internal/confgen/document_parser.go), a descent over *)
(* the fields of the message which looks up the node of each by its name.  *)
(*                                                                         *)
(* What a field is parsed into is a value, Absent if there is none, or     *)
(* Wrong for an error. The text of a scalar is its value; a list, a map or *)
(* a struct inside of one text is left as the text. Defaults, unions and   *)
(* the checks of field properties are left out.                            *)
(***************************************************************************)
Wrong == [wrong |-> TRUE]
Absent == [absent |-> TRUE]

\* parseFieldValue, and the parsers of incell structs, lists and maps.
ScalarOf(text) == IF text = NoText THEN Absent ELSE [scalar |-> text]
IncellOf(text) == IF text = NoText THEN Absent ELSE [incell |-> text]

\* A message without a field that is present is absent; so are a list and a
\* map without elements (msg.Has).
MessageWith(value) ==
  LET present == {name \in DOMAIN value : value[name] # Absent}
  IN IF present = {} THEN Absent ELSE [message |-> [name \in present |-> value[name]]]
ListWith(elements) == IF elements = <<>> THEN Absent ELSE [list |-> elements]
MapWith(entries) == IF entries = {} THEN Absent ELSE [map |-> entries]

RECURSIVE MessageOf(_, _, _)

NoRepeats(key, there) == TRUE

\* checkMapKeyUnique, E2005: a key is in the map from an element before.
Repeats(key, there) == \E i \in there, j \in DOMAIN key : i < j /\ key[i] = key[j]

ScalarMap(n) ==
  LET key == [i \in DOMAIN n.children |-> n.children[i].name]
      value == [i \in DOMAIN n.children |-> ScalarOf(n.children[i].value)]
      there == {i \in DOMAIN key : key[i] # NoText \/ value[i] # Absent}
  IN IF Repeats(key, there) THEN Wrong ELSE MapWith({<<key[i], value[i]>> : i \in there})

(* parseMapField. In a mapping the name of a node is the key, added to it   *)
(* as a virtual node, in a list it is the value of a node.                  *)
KeyedNodes(f, n) ==
  CASE n.kind = "map" -> [i \in DOMAIN n.children |->
                            [n.children[i] EXCEPT
                               !.children = Append(@, ScalarNode(f.key, n.children[i].name))]]
    [] n.kind = "list" -> n.children

StructMap(f, n, optional) ==
  LET nodes == KeyedNodes(f, n)
      key == [i \in DOMAIN nodes |-> IF n.kind = "map" THEN n.children[i].name
                                     ELSE FindChild(nodes[i], f.key).value]
      value == [i \in DOMAIN nodes |-> MessageOf(f.fields, nodes[i], optional)]
      there == {i \in DOMAIN nodes : key[i] # NoText \/ value[i] # Absent}
  IN IF n.children = <<>> THEN Absent
     ELSE IF \E i \in DOMAIN nodes : ~HasChild(nodes[i], f.key) \/ value[i] = Wrong THEN Wrong
     ELSE IF Repeats(key, there) THEN Wrong
     ELSE MapWith({<<key[i], value[i]>> : i \in there})

MapValue(f, n, optional) ==
  CASE f.layout = "incell" -> IncellOf(ScalarValue(n))
    [] f.layout # "incell" /\ (f.fields = <<>> \/ f.span = "inner") -> ScalarMap(n)
    [] f.layout # "incell" /\ f.fields # <<>> /\ f.span # "inner" -> StructMap(f, n, optional)

(* parseListField: one text for all, or the nodes of the elements, of which *)
(* those that are empty are dropped.                                        *)
ListValue(f, n, optional) ==
  LET value == [i \in DOMAIN n.children |->
                  IF f.fields = <<>> THEN ScalarOf(n.children[i].value)
                  ELSE MessageOf(f.fields, n.children[i], optional)]
  IN IF f.layout = "incell" \/ n.kind = "scalar" THEN IncellOf(ScalarValue(n))
     ELSE IF Wrong \in Range(value) THEN Wrong
     ELSE ListWith(SelectSeq(value, LAMBDA v : v # Absent))

\* parseField. An optional field makes those inside of it optional.
ValueOf(f, n, optional) ==
  CASE f.kind = "map" -> MapValue(f, n, optional)
    [] f.kind = "list" -> ListValue(f, n, optional)
    [] f.kind = "struct" /\ f.span = "inner" -> IncellOf(ScalarValue(n))
    [] f.kind = "struct" /\ f.span # "inner" -> MessageOf(f.fields, StructNode(n), optional)
    [] f.kind = "scalar" -> ScalarOf(ScalarValue(n))

MissingValue(f, optional) == IF optional THEN Absent ELSE Wrong

(* parseMessage                                                             *)
MessageOf(fields, n, optional) ==
  LET valueOf(name) ==
        LET f == SelectSeq(fields, LAMBDA g : g.name = name)[1]
            opt == optional \/ "optional" \in f.prop
        IN IF HasChild(n, name) THEN ValueOf(f, FindChild(n, name), opt)
           ELSE MissingValue(f, opt)
      value == [name \in {fields[i].name : i \in DOMAIN fields} |-> valueOf(name)]
  IN IF Wrong \in Range(value) THEN Wrong ELSE MessageWith(value)
-----------------------------------------------------------------------------
CONSTANTS Items(_),   \* the items that may be added with a name
          ItemNames,  \* the names of the items, in their order
          Texts       \* the texts that may be written

ASSUME TextsAssumption == NoText \in Texts

VARIABLES format,   \* "xml" or "yaml"
          optional, \* the option Optional of the sheet
          asAttrs,  \* XML: what is one text is an attribute, not an element
          docItems, \* the items
          document  \* <<>>, or <<what is written>>

documentVars == <<format, optional, asAttrs, docItems, document>>

OneText == {"scalar", "incellList", "incellMap", "incellStruct"}
Item(name, form, items) == [name |-> name, form |-> form, items |-> items]
-----------------------------------------------------------------------------
(* The schema in the format: as an XML element, or as YAML nodes.           *)
OfItem(name) == <<<<"int32", "ID">>, <<"string", name>>>>

Fits(item) == CASE item.form = "scalar" -> Basic("int32", {})
                [] item.form = "incellList" -> ListOf("", "int32", FALSE, {})
                [] item.form = "scalarList" -> ListOf("int32", "", FALSE, {})
                [] item.form \in {"incellMap", "kvMap"} -> MapOf("int32", "string", {})
                [] item.form = "incellStruct" -> StructOf("", OfItem("Num"), FALSE, "Pair", {})
                [] item.form = "struct" -> StructOf(item.name, <<>>, FALSE, "", {})
                [] item.form = "list" -> ListOf(item.name, "", FALSE, {})
                [] item.form = "map" -> MapOf("int32", item.name, {})

\* The first attribute of an element also names the type of the element.
FirstCell(form, name, cell) ==
  CASE form = "list" -> ListOf(name, cell.of, FALSE, {})
    [] form = "map" -> MapOf(cell.of, name, {})
    [] OTHER -> cell

Attrs(form, items) ==
  SelectSeq(items, LAMBDA i : i.form \in OneText /\ (asAttrs \/ (form \in {"list", "map"} /\ i = items[1])))

RECURSIVE Element(_)
Element(item) ==
  LET attrs == Attrs(item.form, item.items)
      others == SelectSeq(item.items, LAMBDA i : i \notin Range(attrs))
  IN [name |-> item.name, type |-> NoType,
      text |-> IF item.items = <<>> THEN Fits(item) ELSE NoType,
      attrs |-> [i \in DOMAIN attrs |->
                   [name |-> attrs[i].name,
                    cell |-> IF i = 1 THEN FirstCell(item.form, item.name, Fits(attrs[1]))
                             ELSE Fits(attrs[i])]],
      children |-> [i \in DOMAIN others |-> Element(others[i])]]

RECURSIVE YamlNode(_)
YamlNode(item) ==
  LET key == IF item.form = "map" THEN <<ScalarNode("@key", Word(item.items[1].name))>> ELSE <<>>
      own == IF item.form = "map" THEN Tail(item.items) ELSE item.items
      fields == key \o [i \in DOMAIN own |-> YamlNode(own[i])]
  IN CASE item.form \in {"scalar", "scalarList", "incellList", "incellStruct"} ->
            ScalarNode(item.name, Fits(item))
       [] item.form \in {"incellMap", "kvMap"} ->
            SchemaMap(item.name, <<TypeNode(Fits(item))>>
                                   \o IF item.form = "incellMap" THEN <<IncellNode>> ELSE <<>>)
       [] item.form \in {"struct", "list", "map"} ->
            SchemaMap(item.name, <<TypeNode(Fits(item)), SchemaMap("@struct", fields)>>)

SchemaSheet == IF format = "xml" THEN XmlSheet(XmlSchemaNode(Element(Item("Conf", "struct", docItems))))
               ELSE YamlSheet("@Conf", [i \in DOMAIN docItems |-> YamlNode(docItems[i])])
-----------------------------------------------------------------------------
(* The document: an attribute or an element that is not written is not      *)
(* there, nor is in XML a list or a map without elements.                   *)
RECURSIVE Instances(_), AllOf(_)
AllOf(items) ==
  IF items = <<>> THEN {<<>>}
  ELSE {(Head(items).name :> i) @@ w : i \in Instances(Head(items)), w \in AllOf(Tail(items))}
Instances(item) ==
  CASE item.form \in OneText -> {<<>>} \cup {<<t>> : t \in Texts}
    [] item.form = "scalarList" -> SeqOf(Texts, 2)
    [] item.form = "kvMap" -> SeqOf(Texts \X Texts, 2)
    [] item.form = "struct" -> {<<>>} \cup {<<w>> : w \in AllOf(item.items)}
    [] item.form \in {"list", "map"} -> SeqOf(AllOf(item.items), 2)

Form(items, name) == LET i == CHOOSE i \in DOMAIN items : items[i].name = name IN items[i]

RECURSIVE DataElement(_, _)
\* An element with what is written for it: a text, or the items inside.
DataElement(item, w) ==
  LET attrs == Attrs(item.form, item.items)
      written == SelectSeq(attrs, LAMBDA a : w[a.name] # <<>>)
      others == SelectSeq(item.items, LAMBDA i : i \notin Range(attrs))
  IN [name |-> item.name, text |-> IF item.items = <<>> THEN w ELSE NoText,
      attrs |-> [i \in DOMAIN written |-> [name |-> written[i].name, text |-> w[written[i].name][1]]],
      children |-> FlattenSeq([i \in DOMAIN others |->
                     [j \in DOMAIN w[others[i].name] |->
                        DataElement(others[i], w[others[i].name][j])]])]

RECURSIVE YamlData(_, _)
YamlFields(items, w) ==
  LET there == SelectSeq(items, LAMBDA i : w[i.name] # <<>> \/ i.form \notin OneText \cup {"struct"})
  IN [i \in DOMAIN there |-> YamlData(there[i], w[there[i].name])]
YamlData(item, w) ==
  CASE item.form \in OneText -> ScalarNode(item.name, w[1])
    [] item.form = "scalarList" ->
         DataList(item.name, [j \in DOMAIN w |-> ScalarNode(NoText, w[j])])
    [] item.form = "kvMap" ->
         DataMap(item.name, [j \in DOMAIN w |-> ScalarNode(w[j][1], w[j][2])])
    [] item.form = "struct" -> DataMap(item.name, YamlFields(item.items, w[1]))
    [] item.form = "list" ->
         DataList(item.name, [j \in DOMAIN w |-> DataMap(NoText, YamlFields(item.items, w[j]))])
    [] item.form = "map" ->
         DataMap(item.name, [j \in DOMAIN w |->
           DataMap(IF w[j][item.items[1].name] = <<>> THEN NoText ELSE w[j][item.items[1].name][1],
                   YamlFields(Tail(item.items), w[j]))])

DataSheet == IF format = "xml" THEN XmlSheet(XmlDataNode(DataElement(Item("Conf", "struct", docItems), document[1])))
             ELSE YamlSheet("Conf", YamlFields(docItems, document[1]))
-----------------------------------------------------------------------------
InitDocuments ==
  /\ format \in {"xml", "yaml"} /\ optional \in BOOLEAN
  /\ asAttrs \in BOOLEAN /\ (format = "yaml" => ~asAttrs)
  /\ docItems = <<>> /\ document = <<>>

\* A mapping of scalars has no form in XML.
AddItem(item) ==
  /\ document = <<>>
  /\ Len(docItems) < Len(ItemNames)
  /\ format = "xml" => item.form # "kvMap"
  /\ ~(asAttrs /\ item.form = "incellStruct" /\ Attrs("struct", docItems) = <<>>)
  /\ docItems' = Append(docItems, item)
  /\ UNCHANGED <<format, optional, asAttrs, document>>

Write(w) ==
  /\ document = <<>> /\ docItems # <<>>
  /\ document' = <<w>>
  /\ UNCHANGED <<format, optional, asAttrs, docItems>>

NextDocuments ==
  \/ /\ Len(docItems) < Len(ItemNames)
     /\ \E item \in Items(ItemNames[Len(docItems) + 1]) : AddItem(item)
  \/ document = <<>> /\ \E w \in AllOf(docItems) : Write(w)

-----------------------------------------------------------------------------
(* What a document means: the reference.                                    *)
RECURSIVE Means(_, _)
MeansAll(items, w) ==
  MessageWith([name \in {items[i].name : i \in DOMAIN items} |-> Means(Form(items, name), w[name])])

TextOf(w) == IF w = <<>> THEN NoText ELSE w[1]
MapKey(item, w) == TextOf(w[item.items[1].name])

Means(item, w) ==
  LET elements == [j \in DOMAIN w |-> MeansAll(item.items, w[j])]
  IN CASE item.form = "scalar" -> ScalarOf(TextOf(w))
       [] item.form \in OneText \ {"scalar"} -> IncellOf(TextOf(w))
       [] item.form = "scalarList" ->
            ListWith([j \in DOMAIN SelectSeq(w, LAMBDA t : t # NoText) |->
                        ScalarOf(SelectSeq(w, LAMBDA t : t # NoText)[j])])
       [] item.form = "kvMap" ->
            MapWith({<<w[j][1], ScalarOf(w[j][2])>> :
                       j \in {i \in DOMAIN w : w[i] # <<NoText, NoText>>}})
       [] item.form = "struct" -> IF w = <<>> THEN Absent ELSE elements[1]
       [] item.form = "list" -> ListWith(SelectSeq(elements, LAMBDA e : e # Absent))
       [] item.form = "map" ->
            MapWith({<<MapKey(item, w[j]), elements[j]>> :
                       j \in {i \in DOMAIN w : elements[i] # Absent}})

(* What must be refused: a name that is not there in a sheet that is not    *)
(* optional, and a key that repeats or, in XML, is not there.               *)
RepeatedKeys(keys, there) == \E i \in there, j \in DOMAIN keys : i < j /\ keys[i] = keys[j]

RECURSIVE Faulty(_, _)
FaultyAll(items, w) == \E i \in DOMAIN items : Faulty(items[i], w[items[i].name])
FaultyMap(item, w) ==
  LET keys == [j \in DOMAIN w |-> MapKey(item, w[j])]
      there == {j \in DOMAIN w : MeansAll(item.items, w[j]) # Absent}
  IN \/ RepeatedKeys(keys, there)
     \/ format = "xml" /\ \E j \in DOMAIN w : w[j][item.items[1].name] = <<>>

Faulty(item, w) ==
  \/ /\ ~optional /\ w = <<>>
     /\ format = "xml" \/ item.form \in OneText \cup {"struct"}
  \/ /\ item.form \in {"struct", "list", "map"}
     /\ \E j \in DOMAIN w :
          FaultyAll(IF format = "yaml" /\ item.form = "map" THEN Tail(item.items) ELSE item.items, w[j])
  \/ item.form = "map" /\ FaultyMap(item, w)
  \/ item.form = "kvMap" /\ RepeatedKeys([j \in DOMAIN w |-> w[j][1]],
                                         {j \in DOMAIN w : w[j] # <<NoText, NoText>>})

(* Whatever is written in a document is in the message, under the fields    *)
(* that the schema describes, in XML and YAML alike; it is refused if and   *)
(* only if it lacks a name it must have or repeats a key (parseMessage).    *)
DocumentReadAsWritten ==
  document # <<>> =>
    LET fields == DocSheetFields(SchemaSheet)
    IN /\ \A i \in DOMAIN fields : fields[i].kind # "bad"
       /\ MessageOf(fields, DataSheet, optional)
            = IF FaultyAll(docItems, document[1]) THEN Wrong ELSE MeansAll(docItems, document[1])
=============================================================================

------------------------------ MODULE DocNodes ------------------------------
(***************************************************************************)
(* The tree of nodes a document is read into (internal/importer/book/      *)
(* node.go), and how XML elements and YAML values become nodes             *)
(* (internal/importer/xml.go, yaml.go). In a schema the value of a node is *)
(* a type cell or a word, in a data sheet it is a text. Notes, positions   *)
(* and the names of proto fields (@variable) are left out, as is the text  *)
(* work before: comments, escapes and the splitting into documents.        *)
(***************************************************************************)
EXTENDS TypeCells

NoText == ""
Word(text) == [form |-> "word", of |-> text]

Node(kind, name, value, children) ==
  [kind |-> kind, name |-> name, value |-> value, children |-> children]
ScalarNode(name, value) == Node("scalar", name, value, <<>>)

\* Nodes of a schema that have no value, and nodes of a data sheet.
SchemaMap(name, children) == Node("map", name, NoType, children)
DataMap(name, children) == Node("map", name, NoText, children)
DataList(name, children) == Node("list", name, NoText, children)

\* FindChild
HasChild(n, name) == \E i \in DOMAIN n.children : n.children[i].name = name
FindChild(n, name) == SelectSeq(n.children, LAMBDA c : c.name = name)[1]

\* An XML element that is there once is a list of one.
ScalarValue(n) ==
  IF n.value = NoText /\ n.kind = "list" /\ n.children # <<>> THEN n.children[1].value
  ELSE n.value

StructNode(n) == IF n.kind = "list" /\ n.children # <<>> THEN n.children[1] ELSE n

IsMeta(n) == n.name \in {"@sheet", "@type", "@struct", "@key", "@value", "@incell"}

MetaType(n) == IF n.children = <<>> THEN n.value
               ELSE IF HasChild(n, "@type") THEN FindChild(n, "@type").value ELSE NoType
MetaKey(n) == IF HasChild(n, "@struct") /\ HasChild(FindChild(n, "@struct"), "@key")
                THEN FindChild(FindChild(n, "@struct"), "@key").value.of
              ELSE "@key"
MetaIncell(n) == n.children # <<>> /\ HasChild(n, "@incell")
                   /\ FindChild(n, "@incell").value = Word("true")
-----------------------------------------------------------------------------
(* An XML element of a schema: its attributes and its text hold type cells. *)
TypeNode(cell) == ScalarNode("@type", cell)
IncellNode == ScalarNode("@incell", Word("true"))
TypedNode(a) == SchemaMap(a.name, <<TypeNode(a.cell)>>)
TypedIncellNode(a) == SchemaMap(a.name, <<TypeNode(a.cell), IncellNode>>)

IsIncellStruct(cell) == IsStruct(cell) /\ (cell.col = "" \/ cell.pairs # <<>>)
HasIncellValue(cell) == IsIncellValue(RawDescriptor(cell.value))

(* parseXMLAttribute, for all but the first attribute, and for an element   *)
(* with text: the node of a field. A map of messages is an error there.     *)
AttributeNode(a) ==
  CASE IsMap(a.cell) -> TypedIncellNode(a)
    [] IsList(a.cell) /\ a.cell.elem = "" -> TypedIncellNode(a)
    [] IsList(a.cell) /\ a.cell.elem # "" /\ a.cell.col = "" -> TypedNode(a)
    [] IsList(a.cell) /\ a.cell.elem # "" /\ a.cell.col # "" ->
         ScalarNode(a.name, Basic(a.cell.col, a.cell.prop))
    [] IsIncellStruct(a.cell) -> TypedIncellNode(a)
    [] IsStruct(a.cell) /\ ~IsIncellStruct(a.cell) -> ScalarNode(a.name, Basic(a.cell.col, {}))
    [] OTHER -> ScalarNode(a.name, a.cell)

AttributeOk(a) == IsMap(a.cell) => HasIncellValue(a.cell)

(* parseXMLAttribute, for the first one: the type of the element. It says   *)
(* whether the element is a map, a list or a struct.                        *)
TypeByFirst(name, a) ==
  CASE IsMap(a.cell) /\ ~HasIncellValue(a.cell) -> a.cell
    [] IsList(a.cell) /\ a.cell.elem # "" ->
         ListOf(IF a.cell.col = "" THEN name ELSE a.cell.elem, "", FALSE,
                IF a.cell.col = "" THEN {} ELSE a.cell.prop)
    [] IsStruct(a.cell) -> StructOf(a.cell.of, <<>>, FALSE, "", {})
    [] OTHER -> StructOf(name, <<>>, FALSE, "", {})

FirstNode(a) == IF IsMap(a.cell) /\ ~HasIncellValue(a.cell)
                  THEN ScalarNode("@key", Word(a.name)) ELSE AttributeNode(a)

RECURSIVE XmlSchemaNode(_)
(* parseXMLNode in the mode Protogen. Only a first attribute that is an     *)
(* incell struct leaves the element without a type.                         *)
XmlSchemaNode(x) ==
  LET first == x.attrs[1]
      rest == [i \in 1..(Len(x.attrs) - 1) |-> AttributeNode(x.attrs[i + 1])]
      inner == [i \in 1..Len(x.children) |->
                  IF x.children[i].text # NoType
                    THEN AttributeNode([name |-> x.children[i].name, cell |-> x.children[i].text])
                  ELSE XmlSchemaNode(x.children[i])]
  IN IF x.type # NoType THEN SchemaMap(x.name, <<TypeNode(x.type)>>)
     ELSE IF x.attrs = <<>>
       THEN SchemaMap(x.name, <<TypeNode(StructOf(x.name, <<>>, FALSE, "", {})),
                                SchemaMap("@struct", inner)>>)
     ELSE IF IsIncellStruct(first.cell)
       THEN SchemaMap(x.name, <<AttributeNode(first)>> \o rest \o inner)
     ELSE SchemaMap(x.name, <<TypeNode(TypeByFirst(x.name, first)),
                              SchemaMap("@struct", <<FirstNode(first)>> \o rest \o inner)>>)

(* parseXMLSheet: the root of a schema gives the fields of the message, the *)
(* root of a data sheet its nodes.                                          *)
XmlSheet(root) ==
  DataMap(NoText, <<ScalarNode("@sheet", root.name)>> \o
                  IF HasChild(root, "@struct") THEN FindChild(root, "@struct").children
                  ELSE root.children)
-----------------------------------------------------------------------------
\* The child names of an XML element, each once, in the order of the first.
NamesOnce(children) ==
  FoldLeft(LAMBDA names, c : IF c.name \in Range(names) THEN names ELSE Append(names, c.name),
           <<>>, children)

RECURSIVE XmlDataNode(_)
(* parseXMLNode for data: attributes are scalars, and elements of one name  *)
(* are a list, also if there is only one.                                   *)
XmlDataNode(x) ==
  LET named(name) == SelectSeq(x.children, LAMBDA c : c.name = name)
      lists == [i \in DOMAIN NamesOnce(x.children) |->
                  LET of == named(NamesOnce(x.children)[i])
                  IN DataList(NamesOnce(x.children)[i],
                              [j \in 1..Len(of) |-> [XmlDataNode(of[j]) EXCEPT !.name = NoText]])]
  IN IF x.attrs = <<>> /\ x.children = <<>> THEN ScalarNode(x.name, x.text)
     ELSE Node("map", x.name, x.text,
               [i \in 1..Len(x.attrs) |-> ScalarNode(x.attrs[i].name, x.attrs[i].text)] \o lists)

(* parseYAMLSheet: the mapping of a YAML document; its values become nodes  *)
(* of their own kind.                                                       *)
YamlSheet(name, children) == DataMap(NoText, <<ScalarNode("@sheet", name)>> \o children)
-----------------------------------------------------------------------------
(***************************************************************************)
(* The fields a schema sheet of a document defines: the document parser of *)
(* protogen (internal/protogen/document_parser.go). A field that cannot be *)
(* parsed, or has a part that cannot, is BadField.                         *)
(***************************************************************************)
BadField == [NoField EXCEPT !.kind = "bad"]
WithFields(field, fields) ==
  IF \E i \in DOMAIN fields : fields[i].kind = "bad" THEN BadField
  ELSE [field EXCEPT !.fields = fields]

LayoutOf(incell) == IF incell THEN "incell" ELSE "default"
SpanOf(incell) == IF incell THEN "inner" ELSE "none"

BasicDocField(name, cell) == IF BasicOk(cell) THEN BasicField(name, cell) ELSE BadField

RECURSIVE DocField(_)

\* The fields of the struct node, or of another one, but for its meta nodes.
SubDocFields(n) ==
  LET nodes == SelectSeq(n.children, LAMBDA c : ~IsMeta(c))
  IN [i \in 1..Len(nodes) |-> DocField(nodes[i])]

StructChildren(n) == IF HasChild(n, "@struct") THEN SubDocFields(FindChild(n, "@struct"))
                     ELSE <<>>

(* parseMapField, a map whose values are scalars; a message of key and      *)
(* value takes its place if its keys are of an enum.                        *)
ScalarMapField(n, cell, field) ==
  IF IsEnum(cell.key)
    THEN WithFields([field EXCEPT !.span = "inner", !.key = MetaKey(n), !.predefined = FALSE],
                    <<BasicDocField(MetaKey(n), Basic(cell.key, cell.prop)),
                      BasicDocField("@value", Basic(cell.value, {}))>>)
  ELSE field

MapDocField(n) ==
  LET cell == MetaType(n)
      d == TypeDescriptor(cell.value)
      layout == LayoutOf(MetaIncell(n))
      field == [NoField EXCEPT !.kind = "map", !.name = n.name, !.type = d.name,
                               !.predefined = d.predefined,
                               !.keyType = IF IsEnum(cell.key) THEN "int32" ELSE cell.key,
                               !.prop = ExtractMapFieldProp(cell.prop, layout)]
  IN IF ~TypeFound(cell.value) \/ ~PropOk(cell.prop) THEN BadField
     ELSE IF IsIncellValue(d) THEN ScalarMapField(n, cell, [field EXCEPT !.layout = layout])
     ELSE WithFields([field EXCEPT !.key = MetaKey(n)],
                     <<BasicDocField(MetaKey(n), Basic(cell.key, cell.prop))>>
                       \o StructChildren(n))

ListDocField(n) ==
  LET cell == MetaType(n)
      layout == LayoutOf(cell.elem = "" \/ MetaIncell(n))
      elem == IF cell.elem = "" THEN cell.col ELSE cell.elem
  IN IF ~BasicOk(Basic(elem, cell.prop)) THEN BadField
     ELSE WithFields([BasicField(n.name, Basic(elem, {})) EXCEPT
                        !.kind = "list", !.layout = layout,
                        !.prop = ExtractListFieldProp(
                                   cell.prop, TypeDescriptor(elem).kind = "scalar",
                                   IF layout = "incell" THEN layout ELSE "vertical")],
                     StructChildren(n))

(* parseStructField: a struct with fields of its own (strict), a predefined *)
(* one, or one whose fields are in the type cell and whose data is one text.*)
StructDocField(n) ==
  LET cell == MetaType(n)
      own == n.children # <<>> /\ \E i \in DOMAIN n.children : ~IsMeta(n.children[i])
      strict == HasChild(n, "@struct") \/ own
      of == IF strict \/ cell.col = "" THEN cell.of ELSE cell.col
      field == [BasicField(n.name, Basic(of, {})) EXCEPT
                  !.kind = "struct", !.prop = ExtractStructFieldProp(cell.prop)]
  IN IF ~BasicOk(Basic(of, cell.prop)) THEN BadField
     ELSE IF strict
       THEN WithFields([field EXCEPT !.span = SpanOf(MetaIncell(n))],
                       IF HasChild(n, "@struct") THEN StructChildren(n) ELSE SubDocFields(n))
     ELSE IF cell.col = "" THEN [field EXCEPT !.span = SpanOf(MetaIncell(n))]
     ELSE IF cell.pairs = <<>> \/ ~PairsOk(cell.pairs) THEN BadField
     ELSE [field EXCEPT !.span = "inner", !.fields = PairFields(cell.pairs)]

(* parseField                                                               *)
DocField(n) ==
  CASE IsMap(MetaType(n)) -> MapDocField(n)
    [] IsList(MetaType(n)) -> ListDocField(n)
    [] IsStruct(MetaType(n)) -> StructDocField(n)
    [] OTHER -> IF MetaType(n).form = "basic" THEN BasicDocField(n.name, MetaType(n))
                ELSE BadField

(* convertDocumentSheet: the fields of the worksheet.                       *)
DocSheetFields(sheet) ==
  LET nodes == SelectSeq(sheet.children, LAMBDA c : c.name # "@sheet")
  IN [i \in 1..Len(nodes) |-> DocField(nodes[i])]
=============================================================================

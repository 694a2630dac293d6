----------------------------- MODULE TypeCells ------------------------------
(***************************************************************************)
(* The type cells of a table header (internal/types/types.go), the types   *)
(* they name (parser.go and field_prop.go of internal/protogen), and the   *)
(* names of columns.                                                       *)
(*                                                                         *)
(* A type cell is what the patterns of types.go make of it: a record with  *)
(* its form, and the field property after the bar as the set of the names  *)
(* that are set in it ("bad" for one that is not prototext). A name is the *)
(* sequence of its words and digits, so that a prefix of the sequence is a *)
(* prefix of the string; words are chosen so that none is a prefix of      *)
(* another. The snake case of proto names and the notes are left out.      *)
(***************************************************************************)
EXTENDS Integers, Sequences, SequencesExt

CONSTANTS ScalarTypes,    \* texts of the scalar types
          WellKnownTypes, \* texts of the well-known types: datetime, ...
          EnumTypes,      \* the texts enum<T>, each with its T
          PredefinedTypes,\* texts of types with a dot
          TypeInfos       \* what typeInfos.Get returns for those that exist

Digits == {"0", "1", "2", "3", "4", "5", "6", "7", "8", "9"}
-----------------------------------------------------------------------------
(* Type cells: MatchMap, MatchList, MatchKeyedList, MatchStruct and         *)
(* MatchScalar/MatchEnum. NoType is the empty cell.                         *)
NoType == [form |-> "none"]
Basic(of, prop) == [form |-> "basic", of |-> of, prop |-> prop]
MapOf(key, value, prop) ==
  [form |-> "map", key |-> key, value |-> value, prop |-> prop]
\* elem is "" when the element's span is the inner cell.
ListOf(elem, col, keyed, prop) ==
  [form |-> "list", elem |-> elem, col |-> col, keyed |-> keyed, prop |-> prop]
\* pairs: the types and names of an incell struct, <<>> for another one.
StructOf(of, pairs, custom, col, prop) ==
  [form |-> "struct", of |-> of, pairs |-> pairs, custom |-> custom,
   col |-> col, prop |-> prop]

IsMap(cell) == cell.form = "map"
IsList(cell) == cell.form = "list"
IsStruct(cell) == cell.form = "struct"
IsEnum(text) == text \in DOMAIN EnumTypes

\* colType + desc.Prop.RawProp(): the virtual type cell of a first column.
WithProp(cell, prop) ==
  IF prop = {} THEN cell ELSE [cell EXCEPT !.prop = prop]

PropOk(prop) == "bad" \notin prop
-----------------------------------------------------------------------------
(* parseTypeDescriptor: the name, kind and origin of the type a text names. *)
Stripped(text) == IF IsEnum(text) THEN EnumTypes[text] ELSE text

TypeFound(text) ==
  Stripped(text) \in PredefinedTypes => Stripped(text) \in DOMAIN TypeInfos

\* types.ParseTypeDescriptor
RawDescriptor(text) ==
  [name |-> text, predefined |-> text \in WellKnownTypes,
   kind |-> IF text \in ScalarTypes \cup WellKnownTypes THEN "scalar"
            ELSE IF IsEnum(text) THEN "enum" ELSE "message"]

TypeDescriptor(text) ==
  LET t == Stripped(text) IN
  IF t \in PredefinedTypes
    THEN [name |-> TypeInfos[t].name, predefined |-> TRUE,
          kind |-> TypeInfos[t].kind]
    ELSE RawDescriptor(t)

IsIncellValue(d) == d.kind \in {"scalar", "enum"}
-----------------------------------------------------------------------------
(* What each kind of field takes of a property (field_prop.go).             *)
Common == {"json_name", "present", "optional", "patch"}

ExtractMapFieldProp(prop, layout) ==
  prop \cap (Common \cup {"fixed", "size", "sep", "subsep", "validate_complex",
                          "validate_message"}
             \cup IF layout = "vertical" THEN {} ELSE {"aggregate"})

ExtractListFieldProp(prop, isScalarList, layout) ==
  prop \cap (Common \cup {"form", "sep", "subsep", "validate_complex",
                          "validate_message"}
             \cup (IF isScalarList THEN {"range", "refer", "pattern", "validate"}
                   ELSE {})
             \cup CASE layout = "vertical" -> {}
                    [] layout = "incell" -> {"aggregate"}
                    [] layout = "horizontal" -> {"fixed", "size", "aggregate"})

ExtractStructFieldProp(prop) ==
  prop \cap (Common \cup {"form", "sep", "subsep", "validate_message"})

ExtractScalarFieldProp(prop) ==
  prop \cap (Common \cup {"unique", "sequence", "range", "refer", "default",
                          "pattern", "order", "validate"})

\* The whole property, for the map in a cell.
WholeProp(prop) == prop
-----------------------------------------------------------------------------
(* Names.                                                                   *)
TrimPrefix(name, prefix) ==
  IF IsPrefix(prefix, name) THEN SubSeq(name, Len(prefix) + 1, Len(name))
  ELSE name

\* strings.Index(name, digit) > 0
HasDigit(name, digit) ==
  Len(name) > 0 /\ digit # name[1] /\ \E i \in 2..Len(name) : name[i] = digit

\* name[:strings.Index(name, digit)]
BeforeDigit(name, digit) ==
  LET i == CHOOSE i \in 1..Len(name) :
             name[i] = digit /\ \A j \in 1..(i - 1) : name[j] # digit
  IN SubSeq(name, 1, i - 1)

BelongToFirstElement(name, prefix) ==
  LET n == Len(prefix) + 1
  IN IsPrefix(Append(prefix, "1"), name) /\ Len(name) > n /\ name[n + 1] \notin Digits
-----------------------------------------------------------------------------
(* parseBasicField: a field of a scalar, enum, well-known or message type.  *)
NoField == [type |-> "", predefined |-> FALSE, kind |-> "none", layout |-> "none",
            span |-> "none", name |-> <<>>, key |-> <<>>, keyType |-> "",
            prop |-> {}, fields |-> <<>>]

BasicOk(cell) == TypeFound(cell.of) /\ PropOk(cell.prop)

BasicField(name, cell) ==
  LET d == TypeDescriptor(cell.of)
  IN [NoField EXCEPT !.type = d.name, !.predefined = d.predefined,
                     !.kind = "scalar", !.name = name,
                     !.prop = ExtractScalarFieldProp(cell.prop)]

\* parseIncellStruct
PairsOk(pairs) == \A i \in 1..Len(pairs) : Len(pairs[i]) = 2 /\ TypeFound(pairs[i][1])
PairFields(pairs) ==
  [i \in 1..Len(pairs) |-> BasicField(<<pairs[i][2]>>, Basic(pairs[i][1], {}))]
=============================================================================

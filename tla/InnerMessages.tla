--------------------------- MODULE InnerMessages ----------------------------
(***************************************************************************)
(* A field of a record that is a message itself: a struct or a union, in   *)
(* one cell, in several columns of a table or in the nodes of a document   *)
(* (parseStructField, parseUnionField and what they call in                *)
(* internal/confgen, x/xproto/union.go and enum.go).                       *)
(*                                                                         *)
(* Rows that belong to one record are read one after the other into it. A  *)
(* union has an enum that says its type and a oneof whose field of that    *)
(* number holds the value. A cell is the sequence of its parts between the *)
(* separators: numbers, blanks, or junk that no number can be read from.   *)
(***************************************************************************)
EXTENDS Integers, Sequences, FiniteSets, SequencesExt

CONSTANTS CaseNames,    \* the names of the values of the enum but zero, in order
          CaseAliases,  \* aliases that these may have
          Holdings,     \* what a value of a union is bound to
          InnerColumns, \* the columns or nodes that may be there
          InnerCells,   \* what may be written in a cell
          MaxInnerFacts \* bound: values of the enum, rows, and cells that are not blank

VARIABLES innerForm,   \* of the field: "incell struct", "struct", "union"
          innerSheet,  \* [document, optional, columns]: where it is read from
          cases,       \* the values of the enum but zero, in their order
          aliasesRead, \* whether enumCache has the enum's aliases
          innerValue,  \* the field of the record
          rowsRead     \* the rows, with what became of them

innerVars == <<innerForm, innerSheet, cases, aliasesRead, innerValue, rowsRead>>

BlankPart == -1
JunkPart == -2
NoTypeText == [by |-> "blank", number |-> 0, word |-> ""]
NumberText(n) == [NoTypeText EXCEPT !.by = "number", !.number = n]
WordText(w) == [NoTypeText EXCEPT !.by = "word", !.word = w]

\* The holding of a case: nothing, a scalar, or else the kinds of the fields
\* of a message.
Nothing == <<"nothing">>
OneScalar == <<"scalar">>

NotSet == [type |-> 0, bound |-> FALSE, values |-> <<>>]

\* Column 0 is that of the type.
InitInner ==
  /\ innerForm \in {"incell struct", "struct", "union"}
  /\ innerSheet \in [document : BOOLEAN, optional : BOOLEAN, columns : InnerColumns]
  /\ cases = <<>> /\ aliasesRead = FALSE /\ innerValue = NotSet /\ rowsRead = <<>>
-----------------------------------------------------------------------------
\* What reading a field gives: an error, nothing, or a value.
ReadError == [ok |-> FALSE, present |-> FALSE, value |-> <<>>]
ReadNothing == [ok |-> TRUE, present |-> FALSE, value |-> <<>>]
ReadValue(v) == [ok |-> TRUE, present |-> TRUE, value |-> v]

\* parseFieldValue of a number.
ParseScalar(part) ==
  CASE part = BlankPart -> ReadNothing
    [] part = JunkPart -> ReadError
    [] OTHER -> ReadValue(<<part>>)

\* A scalar takes the whole cell.
WholeScalar(cell) == CASE cell = <<>> -> ReadNothing
                      [] Len(cell) = 1 -> ParseScalar(cell[1])
                      [] OTHER -> ReadError

\* parseIncellList: blanks may follow the elements only.
RECURSIVE ReadIncellList(_)
ReadIncellList(cell) ==
  CASE cell = <<>> -> ReadNothing
    [] cell # <<>> /\ \E i \in DOMAIN cell : cell[i] = JunkPart -> ReadError
    [] cell # <<>> /\ Last(cell) = BlankPart -> ReadIncellList(Front(cell))
    [] OTHER -> IF \E i \in 2..Len(cell) : cell[i] = BlankPart THEN ReadError
                ELSE ReadValue(SelectSeq(cell, LAMBDA part : part # BlankPart))

\* Row.Cell and FindChild: a column that is not there is blank if it may be.
ColumnOk(c, mayMiss) == c \in innerSheet.columns \/ mayMiss
ColumnCell(cells, c) == IF c \in innerSheet.columns THEN cells[c] ELSE <<>>

\* A message as the sequence of its fields, each with a number or 0.
Number(read) == IF read.present THEN read.value[1] ELSE 0

InnerStruct(reads) ==
  IF \E i \in DOMAIN reads : ~reads[i].ok THEN ReadError
  ELSE IF \A i \in DOMAIN reads : ~reads[i].present THEN ReadNothing
  ELSE ReadValue([i \in DOMAIN reads |-> <<Number(reads[i])>>])

\* parseIncellStruct: parts beyond the two fields are passed over.
ReadIncellStruct(cell) ==
  IF cell = <<>> THEN ReadNothing
  ELSE InnerStruct([i \in 1..2 |-> IF i <= Len(cell) THEN ParseScalar(cell[i]) ELSE ReadNothing])

\* parseMessage of the columns of a struct.
ParseStruct(cells) ==
  IF \A c \in 1..2 : ColumnOk(c, innerSheet.optional)
  THEN InnerStruct([c \in 1..2 |-> WholeScalar(ColumnCell(cells, c))])
  ELSE ReadError

\* parseUnionMessageField: a list is one even if it is empty.
ParseUnionMessageField(fieldKind, cell) ==
  IF fieldKind = "list" THEN ReadIncellList(cell) ELSE WholeScalar(cell)
-----------------------------------------------------------------------------
\* GetValueByAlias: the aliases are read once, up to one that repeats, and
\* who reads them learns of that.
Repeated(i) == \E j \in 1..(i - 1) : cases[j].alias = cases[i].alias
Readable == {i \in DOMAIN cases : \A j \in 1..i : ~Repeated(j)}
NumbersByAlias == [w \in {cases[i].alias : i \in Readable} |->
                     cases[CHOOSE i \in Readable : cases[i].alias = w].number]
CaseNamed(text) == {i \in DOMAIN cases : cases[i].name = text.word}
NumbersOfCases == {cases[i].number : i \in DOMAIN cases}
ByAlias(text) == text.by = "word" /\ CaseNamed(text) = {}

\* parseEnumValue: by number, by name, by alias.
ParseEnumValue(text) ==
  CASE text.by = "blank" -> ReadNothing
    [] text.by = "number" ->
         IF text.number \in NumbersOfCases \cup {0} THEN ReadValue(text.number) ELSE ReadError
    [] text.by = "word" /\ CaseNamed(text) # {} ->
         ReadValue(cases[CHOOSE i \in CaseNamed(text) : TRUE].number)
    [] ByAlias(text) ->
         IF ~aliasesRead /\ Readable # DOMAIN cases THEN ReadError
         ELSE IF text.word \in DOMAIN NumbersByAlias THEN ReadValue(NumbersByAlias[text.word])
         ELSE ReadError

BoundAt(n) == cases[IF n <= Len(cases) THEN n ELSE 1]

\* GetValueByNumber
GetValueByNumber(n) == cases[CHOOSE i \in DOMAIN cases : cases[i].number = n]

UnionValue(n, bound, values) == [type |-> n, bound |-> bound, values |-> values]

\* The value of a case that holds a scalar: whether it is present decides of
\* the union. Documents have no such cases.
ParseUnionScalar(n, cells) ==
  LET read == WholeScalar(ColumnCell(cells, 1))
  IN IF innerSheet.document \/ ~ColumnOk(1, FALSE) \/ ~read.ok THEN ReadError
     ELSE [read EXCEPT !.value = UnionValue(n, TRUE, <<read.value>>)]

\* Of a case that holds a message: its fields in the order of their definition.
ParseUnionFields(n, kinds, cells) ==
  LET reads == [i \in DOMAIN kinds |-> ParseUnionMessageField(kinds[i], ColumnCell(cells, i))]
      there == \A i \in DOMAIN kinds : ColumnOk(i, innerSheet.optional)
  IN IF ~there \/ \E i \in DOMAIN reads : ~reads[i].ok THEN ReadError
     ELSE ReadValue(UnionValue(n, TRUE,
            [i \in DOMAIN reads |->
               IF kinds[i] = "list" THEN reads[i].value ELSE <<Number(reads[i])>>]))

\* The type is read first; one that is missing and may be is blank.
ParseUnionType(text) ==
  IF ~ColumnOk(0, innerSheet.optional) THEN ReadError
  ELSE ParseEnumValue(IF 0 \in innerSheet.columns THEN text ELSE NoTypeText)

\* parseUnionMessage
ParseUnionMessage(text, cells) ==
  LET type == ParseUnionType(text)
      bound == GetValueByNumber(type.value).holds
  IN CASE ~type.ok -> ReadError
       [] type.ok /\ (~type.present \/ type.value = 0) -> ReadNothing
       [] OTHER -> CASE bound = Nothing -> ReadValue(UnionValue(type.value, FALSE, <<>>))
                     [] bound = OneScalar -> ParseUnionScalar(type.value, cells)
                     [] OTHER -> ParseUnionFields(type.value, bound, cells)

ReadInner(text, cells) ==
  CASE innerForm = "union" -> ParseUnionMessage(text, cells)
    [] innerForm = "incell struct" ->
         LET read == ReadIncellStruct(ColumnCell(cells, 1))
         IN IF ~ColumnOk(1, innerSheet.optional) THEN ReadError
            ELSE [read EXCEPT !.value = UnionValue(0, TRUE, @)]
    [] innerForm = "struct" -> [ParseStruct(cells) EXCEPT !.value = UnionValue(0, TRUE, @)]
-----------------------------------------------------------------------------
\* Cells that were written are all there is room for.
Written(cells) == Cardinality({c \in DOMAIN cells : cells[c] # <<>>})
InnerFacts ==
  Len(cases) + FoldLeft(LAMBDA n, row : n + 1 + Written(row.cells), 0, rowsRead)

DeclareCase(alias, caseNumber, holds) ==
  /\ innerForm = "union" /\ rowsRead = <<>>
  /\ Len(cases) < Len(CaseNames)
  /\ caseNumber \notin NumbersOfCases
  /\ cases' = Append(cases, [name |-> CaseNames[Len(cases) + 1], alias |-> alias,
                             number |-> caseNumber, holds |-> holds])
  /\ UNCHANGED <<innerForm, innerSheet, aliasesRead, innerValue, rowsRead>>

\* parseStructField, parseUnionField: rows of a record must agree. A table
\* goes on after a row that fails.
ReadInnerRow(text, cells) ==
  LET read == ReadInner(text, cells)
      differs == innerValue # NotSet /\ innerValue # read.value
      accepted == read.ok /\ (read.present => ~differs)
  IN /\ InnerFacts + Written(cells) < MaxInnerFacts
     /\ innerSheet.document => rowsRead = <<>>
     /\ innerForm = "union" => cases # <<>>
     /\ innerValue' = IF accepted /\ read.present THEN read.value ELSE innerValue
     /\ rowsRead' = Append(rowsRead, [text |-> text, cells |-> cells, ok |-> accepted])
     /\ aliasesRead' = (aliasesRead \/ (innerForm = "union" /\ 0 \in innerSheet.columns /\ ByAlias(text)))
     /\ UNCHANGED <<innerForm, innerSheet, cases>>

TypeTexts == {NoTypeText} \cup {NumberText(n) : n \in 0..Len(CaseNames)}
               \cup {WordText(w) : w \in CaseAliases}

NextInner ==
  \/ \E alias \in CaseAliases, caseNumber \in 1..Len(CaseNames), holds \in Holdings :
       DeclareCase(alias, caseNumber, holds)
  \/ \E text \in (IF innerForm = "union" THEN TypeTexts ELSE {NoTypeText}) :
       \E cells \in [1..2 -> InnerCells] : ReadInnerRow(text, cells)
-----------------------------------------------------------------------------
(* What a row says, whatever was read before.                               *)
AliasesDiffer == \A i, j \in DOMAIN cases : i # j => cases[i].alias # cases[j].alias

MeansCase(text, i) ==
  CASE text.by = "blank"  -> FALSE
    [] text.by = "number" -> text.number = cases[i].number
    [] text.by = "word" /\ CaseNamed(text) # {} -> i \in CaseNamed(text)
    [] ByAlias(text)      -> text.word = cases[i].alias /\ ~Repeated(i)

\* The cell of a column that is there.
CellThere(row, c) == IF c \in innerSheet.columns THEN row.cells[c] ELSE <<>>

Says(values, cell) ==
  \/ values = <<0>> /\ cell \in {<<>>, <<BlankPart>>}
  \/ values = SelectSeq(cell, LAMBDA part : part # BlankPart)

CaseSaysUnion(row, case, union) ==
  /\ union.type = case.number
  /\ union.bound <=> case.holds # Nothing
  /\ case.holds = Nothing => union.values = <<>>
  /\ \A i \in DOMAIN union.values : Says(union.values[i], CellThere(row, i))
  /\ case.holds \notin {Nothing, OneScalar} => Len(union.values) = Len(case.holds)

RowSays(row, value) ==
  CASE innerForm = "union" -> \E i \in DOMAIN cases :
                           MeansCase(row.text, i) /\ CaseSaysUnion(row, cases[i], value)
    [] innerForm = "struct" -> \A i \in 1..2 : Says(value.values[i], CellThere(row, i))
    [] innerForm = "incell struct" ->
         LET cell == CellThere(row, 1)
         IN \A i \in 1..2 : Says(value.values[i], IF i <= Len(cell) THEN <<cell[i]>> ELSE <<>>)

\* That a row says anything: a scalar in a union must be there, too.
GivesUnion(row) ==
  /\ 0 \in innerSheet.columns
  /\ \E i \in DOMAIN cases :
       /\ MeansCase(row.text, i)
       /\ cases[i].holds = OneScalar => CellThere(row, 1) \notin {<<>>, <<BlankPart>>}

GivesStruct(row) ==
  LET partsOf(c) == IF innerForm = "incell struct" /\ c = 2 THEN <<>> ELSE CellThere(row, c)
      upTo == IF innerForm = "incell struct" THEN 2 ELSE 1
  IN \E c \in 1..2 : \E i \in DOMAIN partsOf(c) : i <= upTo /\ partsOf(c)[i] # BlankPart

GivesInner(row) == IF innerForm = "union" THEN GivesUnion(row) ELSE GivesStruct(row)

(* Every row that is accepted and gives a value gives the one that the      *)
(* record has, field for field what is written in it; the record has one    *)
(* only if a row gave it. The same row is accepted or refused whatever was  *)
(* read before it, as long as the aliases of the enum differ; if two are    *)
(* the same, the first row that needs them is refused.                      *)
InnerAsWritten ==
  /\ \A i \in DOMAIN rowsRead :
       (rowsRead[i].ok /\ GivesInner(rowsRead[i])) => RowSays(rowsRead[i], innerValue)
  /\ innerValue # NotSet => \E i \in DOMAIN rowsRead : rowsRead[i].ok /\ GivesInner(rowsRead[i])
  /\ AliasesDiffer => \A i, j \in DOMAIN rowsRead :
       (rowsRead[i].text = rowsRead[j].text /\ rowsRead[i].cells = rowsRead[j].cells)
         => (rowsRead[i].ok <=> rowsRead[j].ok)
  /\ (aliasesRead /\ ~AliasesDiffer) => \E i \in DOMAIN rowsRead : ~rowsRead[i].ok
=============================================================================

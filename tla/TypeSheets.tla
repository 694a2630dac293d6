----------------------------- MODULE TypeSheets -----------------------------
(***************************************************************************)
(* Sheets that define types (internal/protogen/sheet_mode.go, the special  *)
(* modes of convertTableSheet in protogen.go, exportEnum and exportUnion   *)
(* in exporter.go). A sheet of a MULTI mode holds blocks, one per type: a  *)
(* row with its name, a header and a row per value, up to a blank row. Two *)
(* passes read it: the first registers the types, so that other sheets may *)
(* use them, and the second exports them.                                  *)
(*                                                                         *)
(* Somebody writes the sheet, block by block, sees what the generator      *)
(* makes of it and goes on.                                                *)
(***************************************************************************)
EXTENDS Integers, Sequences, SequencesExt, FiniteSetsExt

(***************************************************************************)
(* The table of a sheet as the parsers see it: rows of different lengths,  *)
(* a part of them cut out, the whole of it perhaps transposed              *)
(* (internal/importer/book/table.go, table_transpose.go, sheet.go). Rows   *)
(* and columns are numbered from 0, as in the code; a cell is a string.    *)
(***************************************************************************)
Empty == ""
Whole == [beginRow |-> 0, endRow |-> 0, beginCol |-> 0, endCol |-> 0]

\* NewTable, and Sheet.Tabler, which transposes it if the metasheet says so.
NewTable(rows, transposed) == [rows |-> rows, transposed |-> transposed, opts |-> Whole]

MaxRow(t) == Len(t.rows)
MaxCol(t) == Max({0} \cup {Len(row) : row \in Range(t.rows)})

\* An option that is 0 or too large counts as not set.
EndOf(option, size) == IF option > 0 /\ option <= size THEN option ELSE size

BeginRow(t) == IF t.transposed THEN t.opts.beginCol ELSE t.opts.beginRow
BeginCol(t) == IF t.transposed THEN t.opts.beginRow ELSE t.opts.beginCol
EndRow(t) == IF t.transposed THEN EndOf(t.opts.endCol, MaxCol(t))
             ELSE EndOf(t.opts.endRow, MaxRow(t))
EndCol(t) == IF t.transposed THEN EndOf(t.opts.endRow, MaxRow(t))
             ELSE EndOf(t.opts.endCol, MaxCol(t))

\* Table.Cell and TransposedTable.Cell: rows may be too short.
CellAt(t, row, col) ==
  LET r == IF t.transposed THEN col ELSE row
      c == IF t.transposed THEN row ELSE col
  IN IF c < Len(t.rows[r + 1]) THEN t.rows[r + 1][c + 1] ELSE Empty

(* GetRow, and getCol for a transposed table: of the whole table, not only  *)
(* of the part that was cut out, and for a plain table without padding.     *)
GetRow(t, row) ==
  IF t.transposed
    THEN IF row >= MaxCol(t) THEN <<>>
         ELSE [i \in 1..MaxRow(t) |-> CellAt(t, row, i - 1)]
    ELSE IF row >= MaxRow(t) THEN <<>> ELSE t.rows[row + 1]

\* isRowEmpty, isColEmpty
RowEmpty(t, row) == \A i \in DOMAIN GetRow(t, row) : GetRow(t, row)[i] = Empty

(* FindBlockEndRow and findBlockEndCol.                                     *)
FindBlockEnd(t, startRow) ==
  Min({EndRow(t)} \cup {row \in startRow..(EndRow(t) - 1) : RowEmpty(t, row)})

SubTableRows(t, begin, end) ==
  [t EXCEPT !.opts = [Whole EXCEPT !.beginRow = begin, !.endRow = end]]

(* SubTable(Rows(begin, end)), and Tabler of the sheet made of it: for a    *)
(* transposed table the rows are columns of the table underneath.           *)
SubTable(t, begin, end) ==
  [t EXCEPT !.opts = IF t.transposed
                       THEN [Whole EXCEPT !.beginCol = begin, !.endCol = end]
                       ELSE [Whole EXCEPT !.beginRow = begin, !.endRow = end]]
-----------------------------------------------------------------------------
CONSTANTS TypeKinds,   \* of the sheet: "enum", "struct", "union"
          TypeNames,   \* names for types
          ValueNames,  \* names for their values or fields
          NumberCells, \* what a cell of the column Number may hold, "" too
          NumberOf,    \* the number a text stands for; others are none
          MaxBlocks,   \* bound: types of a sheet
          MaxValues    \* bound: values of a type

VARIABLES kind,       \* the mode of the sheet
          transposed, \* whether its rows are columns
          blocks,     \* the types as they were written, in the order of the sheet
          registered, \* the names of the type infos of the sheet
          worksheets  \* what the second pass exported, <<>> if it failed

typeVars == <<kind, transposed, blocks, registered, worksheets>>

Failed == [failed |-> TRUE]
-----------------------------------------------------------------------------
(* The sheet as it is written. A value has the cells of its columns.        *)
HeaderOf(k) == CASE k = "enum" -> <<"Number", "Name", "Alias">>
                 [] k = "struct" -> <<"Name", "Type">>
                 [] k = "union" -> <<"Number", "Name", "Alias", "Field1">>

\* The cell of Field1 stands for the name and the type on its lines.
RowOf(k, value) ==
  CASE k = "enum" -> <<value.number, value.name, value.name>>
    [] k = "struct" -> <<value.name, "int32">>
    [] k = "union" -> <<value.number, value.name, value.name, "ID">>

BlockRows(k, block) ==
  <<<<block.name>>, HeaderOf(k)>>
    \o [i \in 1..Len(block.values) |-> RowOf(k, block.values[i])]

SheetRows == FoldLeft(LAMBDA drawn, block :
                        drawn \o (IF drawn = <<>> THEN <<>> ELSE <<<<>>>>)
                              \o BlockRows(kind, block),
                      <<>>, blocks)

\* The same cells with rows for columns.
Flipped(rows) ==
  LET t == NewTable(rows, TRUE) IN [i \in 1..MaxCol(t) |-> GetRow(t, i - 1)]

Drawn == NewTable(IF transposed THEN Flipped(SheetRows) ELSE SheetRows, transposed)
-----------------------------------------------------------------------------
(* The blocks of a sheet.                                                   *)
IsEnumTypeBlockHeader(cols) == {"Name", "Alias"} \subseteq Range(cols)
IsStructTypeBlockHeader(cols) == {"Name", "Type"} \subseteq Range(cols)
IsUnionTypeBlockHeader(cols) == {"Name", "Alias", "Field1"} \subseteq Range(cols)

IsBlockHeader(t, row) ==
  CASE kind = "enum" -> IsEnumTypeBlockHeader(GetRow(t, row))
    [] kind = "struct" -> IsStructTypeBlockHeader(GetRow(t, row))
    [] kind = "union" -> IsUnionTypeBlockHeader(GetRow(t, row))

\* extractTableBlockTypeRow: "" stands for its error.
TypeNameAbove(t, row) ==
  LET cols == GetRow(t, row - 1) IN IF cols = <<>> THEN Empty ELSE cols[1]

RECURSIVE HeadersFrom(_, _, _)
(* The rows where a block begins, from a row on: the first pass over enums  *)
(* looks at each row, the others go on after the end of a block.            *)
HeadersFrom(t, row, skip) ==
  IF row >= EndRow(t) THEN <<>>
  ELSE IF IsBlockHeader(t, row) /\ row >= 1
    THEN <<row>> \o HeadersFrom(t, (IF skip THEN FindBlockEnd(t, row) ELSE row) + 1, skip)
  ELSE HeadersFrom(t, row + 1, skip)

Block(t, row) == SubTable(t, row, FindBlockEnd(t, row))
-----------------------------------------------------------------------------
(* A block as the descriptor of its kind: Parse of the confgen parser.      *)
ColumnOf(t, name) ==
  LET header == GetRow(t, BeginRow(t))
  IN IF name \in Range(header) THEN IndexFirstSubSeq(<<name>>, <<Empty>> \o header) - 2
     ELSE -1

ValueCell(t, row, name) ==
  IF ColumnOf(t, name) < BeginCol(t) THEN Empty ELSE CellAt(t, row, ColumnOf(t, name))

Values(t) ==
  [i \in 1..(EndRow(t) - BeginRow(t) - 1) |->
     [number |-> ValueCell(t, BeginRow(t) + i, "Number"),
      name |-> ValueCell(t, BeginRow(t) + i, "Name")]]

\* A number that is none, and the property unique of the descriptor.
Parses(values) ==
  /\ \A v \in Range(values) : v.number = Empty \/ v.number \in DOMAIN NumberOf
  /\ \A i, j \in DOMAIN values : i # j =>
       /\ values[i].name # values[j].name
       /\ values[i].number # Empty => values[i].number # values[j].number

Explicit(values) == {NumberOf[v.number] : v \in {v \in Range(values) : v.number # Empty}}

CollidesNever(i, values) == FALSE

\* resolveFieldNumber: the number of a row that gives none, if it is taken.
Collides(i, values) == values[i].number = Empty /\ i \in Explicit(values)

ResolvedNumber(i, values) ==
  IF values[i].number = Empty THEN i ELSE NumberOf[values[i].number]

\* parseEnumType and, with newUnionField, parseUnionType: the fields of a type.
EnumFields(values) ==
  [i \in 1..Len(values) |-> [name |-> values[i].name, number |-> ResolvedNumber(i, values)]]
NewUnionField(i, values) == [name |-> values[i].name, number |-> ResolvedNumber(i, values)]

\* parseStructType: the rows are the columns of a header, which has no numbers.
StructFields(values) == [i \in 1..Len(values) |-> [name |-> values[i].name, number |-> 0]]

TypeFields(values) ==
  CASE kind = "enum" -> EnumFields(values)
    [] kind = "struct" -> StructFields(values)
    [] kind = "union" -> [i \in 1..Len(values) |-> NewUnionField(i, values)]

TypeParses(t) ==
  /\ Parses(Values(t))
  /\ kind # "struct" => \A i \in DOMAIN Values(t) : ~Collides(i, Values(t))
-----------------------------------------------------------------------------
(* The first pass: what it registers (extractTypeInfoFromSpecialSheetMode). *)
(* It stops at the first error.                                             *)
TypeInfoSkips == kind # "enum"

Broken == {<<"bad">>}

\* The type infos of a block: of a union, also those of the types within it.
StructTypeInfo(name) == {<<name>>}
UnionTypeInfo(name, t) ==
  {<<name>>, <<name, "Type">>} \cup {<<name, v.name>> : v \in Range(Values(t))}

InfosOf(name, t) ==
  CASE kind = "enum" -> {<<name>>}
    [] kind = "struct" -> StructTypeInfo(name)
    [] kind = "union" -> UnionTypeInfo(name, t)

RegisteredOf(t) ==
  LET rows == HeadersFrom(t, BeginRow(t), TypeInfoSkips)
      names == [i \in 1..Len(rows) |-> TypeNameAbove(t, rows[i])]
      broken(i) == \/ names[i] = Empty
                   \/ kind # "enum" /\ ~Parses(Values(Block(t, rows[i])))
  IN IF \E i \in 1..Len(rows) : broken(i) THEN Broken
     ELSE UNION {InfosOf(names[i], Block(t, rows[i])) : i \in 1..Len(rows)}

(* exportEnum: a zero that is not the first value is an error, and a first  *)
(* value that is not zero gets one before it.                               *)
ExportedEnum(name, fields) ==
  IF \E i \in 2..Len(fields) : fields[i].number = 0 THEN Failed
  ELSE [type |-> name, failed |-> FALSE, oneof |-> {},
        values |-> IF fields = <<>> \/ fields[1].number = 0 THEN fields
                   ELSE <<[name |-> "INVALID", number |-> 0]>> \o fields]

(* exportUnion: the enum of the union, and its oneof, without number 0.     *)
ExportedUnion(name, fields) ==
  [type |-> name, failed |-> FALSE,
   oneof |-> {f.number : f \in {f \in Range(fields) : f.number # 0}},
   values |-> IF \E f \in Range(fields) : f.number = 0 THEN fields
              ELSE <<[name |-> "INVALID", number |-> 0]>> \o fields]

\* exportStruct: a message that did not exist before (assignFieldNumbers).
ExportedStruct(name, fields) ==
  [type |-> name, failed |-> FALSE, oneof |-> {},
   values |-> [i \in 1..Len(fields) |-> [fields[i] EXCEPT !.number = i]]]

ExportedType(name, fields) ==
  CASE kind = "enum" -> ExportedEnum(name, fields)
    [] kind = "struct" -> ExportedStruct(name, fields)
    [] kind = "union" -> ExportedUnion(name, fields)

(* The second pass (parseSpecialSheetMode): all types, or none if one of    *)
(* them is wrong.                                                           *)
ExportsOf(t) ==
  LET rows == HeadersFrom(t, BeginRow(t), TRUE)
      sheet(i) == IF TypeNameAbove(t, rows[i]) = Empty \/ ~TypeParses(Block(t, rows[i]))
                    THEN Failed
                  ELSE ExportedType(TypeNameAbove(t, rows[i]),
                                    TypeFields(Values(Block(t, rows[i]))))
  IN IF \E i \in 1..Len(rows) : sheet(i).failed THEN <<>>
     ELSE [i \in 1..Len(rows) |-> sheet(i)]
-----------------------------------------------------------------------------
InitTypes ==
  /\ kind \in TypeKinds
  /\ transposed \in BOOLEAN
  /\ blocks = <<>>
  /\ registered = {} /\ worksheets = <<>>

(* The sheet is changed: what was generated is out of date.                 *)
Edit(edited) ==
  /\ blocks' = edited
  /\ registered' = {} /\ worksheets' = <<>>
  /\ UNCHANGED <<kind, transposed>>

AddType(name) ==
  /\ Len(blocks) < MaxBlocks
  /\ \A b \in Range(blocks) : b.name # name
  /\ Edit(Append(blocks, [name |-> name, values |-> <<>>]))

\* A value at the end of a type, or before its value i.
AddValue(b, i, name, number) ==
  /\ Len(blocks[b].values) < MaxValues
  /\ Edit([blocks EXCEPT ![b].values = InsertAt(@, i, [name |-> name, number |-> number])])

FirstPass ==
  /\ blocks # <<>> /\ registered = {}
  /\ registered' = RegisteredOf(Drawn)
  /\ UNCHANGED <<kind, transposed, blocks, worksheets>>

\* It is not reached if the first pass failed.
SecondPass ==
  /\ registered \notin {{}, Broken} /\ worksheets = <<>>
  /\ worksheets' = ExportsOf(Drawn)
  /\ worksheets' # <<>>
  /\ UNCHANGED <<kind, transposed, blocks, registered>>

NextTypes ==
  \/ \E name \in TypeNames : AddType(name)
  \/ \E b \in 1..Len(blocks), name \in ValueNames,
        number \in IF kind = "struct" THEN {Empty} ELSE NumberCells :
       \E i \in 1..(Len(blocks[b].values) + 1) : AddValue(b, i, name, number)
  \/ FirstPass
  \/ SecondPass
-----------------------------------------------------------------------------
\* The types in the file of an exported type.
TypesIn(w) ==
  {<<w.type>>} \cup IF kind # "union" THEN {}
                   ELSE {<<w.type, "Type">>} \cup
                        {<<w.type, v.name>> : v \in {v \in Range(w.values) : v.name # "INVALID"}}

\* Each with the values of its own block, in their order.
HasItsValues(w, block) ==
  /\ w.type = block.name
  /\ IsSuffix([j \in 1..Len(block.values) |-> block.values[j].name],
              [j \in 1..Len(w.values) |-> w.values[j].name])

\* NumberCells given by hand and numbers by position together: a type never
\* has a number twice, an enum begins with 0, and the oneof of a union has
\* exactly the other numbers of its enum.
NumbersAreSound(w) ==
  /\ \A i, j \in DOMAIN w.values : i # j => w.values[i].number # w.values[j].number
  /\ (kind = "enum" /\ w.values # <<>>) => w.values[1].number = 0
  /\ kind = "union" => w.oneof = {v.number : v \in Range(w.values)} \ {0}

(* A run that exports a sheet exports the types that its first pass         *)
(* registered, no more and no fewer: what other sheets were parsed with is  *)
(* what they get. Each has the values of its block, with sound numbers.     *)
TypesExported ==
  worksheets # <<>> =>
    /\ registered = UNION {TypesIn(w) : w \in Range(worksheets)}
    /\ Len(worksheets) = Len(blocks)
    /\ \A i \in 1..Len(blocks) :
         HasItsValues(worksheets[i], blocks[i]) /\ NumbersAreSound(worksheets[i])

(* It does not matter whether a sheet is written in rows or in columns.     *)
TransposeIsInvisible ==
  worksheets # <<>> => worksheets = ExportsOf(NewTable(SheetRows, FALSE))
=============================================================================

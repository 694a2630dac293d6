--------------------------- MODULE HeaderOptions ----------------------------
(***************************************************************************)
(* Which rows and lines of a table are its header. An option may be set    *)
(* for the sheet and for the workbook, both in the metasheet (the workbook *)
(* is its row #), and for the generator. The proto generator reads the     *)
(* table by them and writes options into the proto file; the conf          *)
(* generator has only these (tableparser/header.go, table_parser.go and    *)
(* parser.go of protogen, book/book.go and book/sheet.go).                 *)
(***************************************************************************)
EXTENDS Integers

CONSTANTS Rows,     \* the options that are rows: namerow, datarow, ...
          Lines,    \* the options that are lines of a cell: nameline, ...
          Settings, \* the values an option may be set to, which are not 0
          DefaultRow \* where a row is if nobody says so

VARIABLES sheetOpts, bookOpts, globalOpts

headerOptionVars == <<sheetOpts, bookOpts, globalOpts>>

HeaderOpts == Rows \cup Lines
Unset == [o \in HeaderOpts |-> 0]
Default == [o \in HeaderOpts |-> IF o \in Lines THEN 0 ELSE DefaultRow]

InitHeaderOptions == sheetOpts = Unset /\ bookOpts = Unset /\ globalOpts = Unset

SetForSheet(o, v) == sheetOpts' = [sheetOpts EXCEPT ![o] = v] /\ UNCHANGED <<bookOpts, globalOpts>>
SetForBook(o, v) == bookOpts' = [bookOpts EXCEPT ![o] = v] /\ UNCHANGED <<sheetOpts, globalOpts>>
SetForAll(o, v) == globalOpts' = [globalOpts EXCEPT ![o] = v] /\ UNCHANGED <<sheetOpts, bookOpts>>

NextHeaderOptions ==
  \E o \in HeaderOpts, v \in Settings : SetForSheet(o, v) \/ SetForBook(o, v) \/ SetForAll(o, v)

SpecHeaderOptions == InitHeaderOptions /\ [][NextHeaderOptions]_headerOptionVars
-----------------------------------------------------------------------------
\* NewHeader: the sheet comes before the workbook, and this before the rest.
NewHeader(sheet, book, global) ==
  [o \in HeaderOpts |-> IF sheet[o] # 0 THEN sheet[o]
                        ELSE IF book[o] # 0 THEN book[o]
                        ELSE IF global[o] # 0 THEN global[o]
                        ELSE Default[o]]

WorkbookOptionsOfRows ==
  [o \in HeaderOpts |-> IF o \in Lines THEN 0
                        ELSE IF globalOpts[o] # 0 THEN globalOpts[o] ELSE Default[o]]

\* newTableParser, newBookParser: the options of the workbook in the proto
\* file are those of the generator; those of the metasheet are not there.
WorkbookOptions ==
  [o \in HeaderOpts |-> IF globalOpts[o] # 0 THEN globalOpts[o] ELSE Default[o]]

ProtoHeader == NewHeader(sheetOpts, bookOpts, globalOpts)
ConfHeader == NewHeader(sheetOpts, WorkbookOptions, Unset)
-----------------------------------------------------------------------------
(* The conf generator, which has never seen the generator's options, reads  *)
(* names and data from the rows that the proto generator took for them,     *)
(* but for an option that only the row # sets.                              *)
HeadersAgree ==
  \A o \in HeaderOpts : (bookOpts[o] = 0 \/ sheetOpts[o] # 0) => ProtoHeader[o] = ConfHeader[o]

(* It does so in any case, as header.go says of the final header: it merges *)
(* options of the sheet, the workbook and the generator.                    *)
HeadersAgreeAlways == ProtoHeader = ConfHeader
=============================================================================

------------------------------- MODULE Books --------------------------------
(***************************************************************************)
(* A workbook and its metasheet as the importers read them                 *)
(* (internal/importer: csv.go, excel.go, xml.go, yaml.go) and the book     *)
(* keeps them (book/book.go), and the sheets of other workbooks that a     *)
(* merger or scatter option names (importer.go).                           *)
(*                                                                         *)
(* A file is a sequence of sheets, each with its name and number of rows,  *)
(* or of documents, of which schemas have a name that starts with @. The   *)
(* metasheet is apart: the set of its rows, which are the sheets' names, # *)
(* for the workbook, and whether the sheet must be read whole, being       *)
(* transposed or of a mode other than the default.                         *)
(***************************************************************************)
EXTENDS Integers, Sequences, SequencesExt, FiniteSets

CONSTANTS SheetNames,  \* names of sheets
          MaxBookRows, \* bound: rows of a sheet
          DefaultTopN, \* how many rows of a sheet are read for its header
          MaxSheets    \* bound: sheets of the file

\* The row # of a metasheet is for the workbook: no sheet has this name.
TheBook == "#"

ASSUME SheetNamesAssumption == TheBook \notin SheetNames
ASSUME BookRowsAssumption == DefaultTopN \in Nat /\ MaxBookRows \in Nat

VARIABLES isDocument, \* the file is XML or YAML
          file,       \* its sheets
          hasMeta,    \* it has a metasheet
          metasheet   \* the rows of the metasheet

bookVars == <<isDocument, file, hasMeta, metasheet>>

ASheet(name, schema, rows) == [name |-> name, schema |-> schema, rows |-> rows]

InitBooks == isDocument \in BOOLEAN /\ file = <<>> /\ hasMeta = FALSE /\ metasheet = {}

\* A table has unique names, documents of a file may share one.
NewSheet(name, schema, rows) ==
  /\ Len(file) < MaxSheets
  /\ IF isDocument THEN rows = 0
     ELSE ~schema /\ rows > 0 /\ \A i \in DOMAIN file : file[i].name # name
  /\ file' = Append(file, ASheet(name, schema, rows))
  /\ UNCHANGED <<isDocument, hasMeta, metasheet>>

NewMetasheet == ~hasMeta /\ hasMeta' = TRUE /\ UNCHANGED <<isDocument, file, metasheet>>

NewRow(name, whole) ==
  /\ hasMeta
  /\ \A row \in metasheet : row.name # name
  /\ metasheet' = metasheet \cup {[name |-> name, whole |-> whole]}
  /\ UNCHANGED <<isDocument, file, hasMeta>>

NextBooks ==
  \/ \E name \in SheetNames, schema \in BOOLEAN, rows \in 0..MaxBookRows : NewSheet(name, schema, rows)
  \/ NewMetasheet
  \/ \E name \in SheetNames \cup {TheBook}, whole \in BOOLEAN : NewRow(name, whole)

SpecBooks == InitBooks /\ [][NextBooks]_bookVars
-----------------------------------------------------------------------------
(* Reading. wanted are the names asked for, {} for all (wantSheet). The     *)
(* proto generator reads the schemas only of documents, and the first rows  *)
(* only of tables that are not to be read whole (adjustCSVTopN,             *)
(* adjustExcelTopN).                                                        *)
WantSheet(name, wanted) == wanted = {} \/ name \in wanted

MetaRow(name) == CHOOSE row \in metasheet : row.name = name

TopNAlways(name) == DefaultTopN

TopN(name) ==
  IF \E row \in metasheet : row.name = name /\ row.whole THEN 0
  ELSE DefaultTopN

ReadSheet(sheet) ==
  IF isDocument \/ TopN(sheet.name) = 0 \/ sheet.rows < TopN(sheet.name) THEN sheet
  ELSE [sheet EXCEPT !.rows = TopN(sheet.name)]

\* Those of the sheets that are chosen stay, in their order.
Selected(sheets, chosen) ==
  FoldLeft(LAMBDA kept, sheet : IF sheet \in chosen THEN Append(kept, sheet) ELSE kept, <<>>, sheets)

\* AddSheet: one that is there already moves to the end.
SameSheet(one, other) == one.name = other.name /\ one.schema = other.schema
AddSheet(sheets, sheet) ==
  Append(Selected(sheets, {s \in ToSet(sheets) : ~SameSheet(s, sheet)}), sheet)

Squeeze(sheets, names) == Selected(sheets, {s \in ToSet(sheets) : s.name \in names})

ForProtogen(sheet) == isDocument => sheet.schema

ProtogenBook ==
  FoldLeft(LAMBDA book, sheet : IF ForProtogen(sheet) THEN AddSheet(book, ReadSheet(sheet)) ELSE book,
           <<>>, file)

(* ParseMetaAndPurge. Without a metasheet the book has no sheets; without   *)
(* rows in it, all; else those of the rows, and each of these must be there.*)
Purged ==
  LET book == ProtogenBook
      names == {s.name : s \in ToSet(book)}
      rows == {row.name : row \in metasheet} \ {TheBook}
  IN IF ~hasMeta THEN [ok |-> TRUE, sheets |-> <<>>]
     ELSE IF metasheet = {} THEN [ok |-> TRUE, sheets |-> book]
     ELSE IF rows \subseteq names THEN [ok |-> TRUE, sheets |-> Squeeze(book, rows)]
     ELSE [ok |-> FALSE, sheets |-> <<>>]
-----------------------------------------------------------------------------
(* What the proto generator finds in a workbook are the sheets that the     *)
(* metasheet names, the last of each name, once and in the order of the     *)
(* file; a sheet whose types are in its rows comes with all of them. It     *)
(* fails if and only if one is not there.                                   *)
Named(name) == metasheet = {} \/ \E row \in metasheet : row.name = name
IsLast(i) == /\ ForProtogen(file[i])
             /\ \A j \in (i + 1)..Len(file) : ~(ForProtogen(file[j]) /\ file[j].name = file[i].name)

BookHoldsWhatIsNamed ==
  LET found == {i \in DOMAIN file : hasMeta /\ IsLast(i) /\ Named(file[i].name)}
      absent == {row.name : row \in metasheet} \ ({TheBook} \cup {file[i].name : i \in found})
  IN /\ Purged.ok <=> absent = {}
     /\ Purged.ok =>
          /\ Len(Purged.sheets) = Cardinality(found)
          /\ \A i \in found :
               LET sheet == file[i]
                   got == Purged.sheets[Cardinality({j \in found : j <= i})]
                   whole == metasheet # {} /\ MetaRow(sheet.name).whole
               IN /\ got.name = sheet.name /\ got.schema = sheet.schema
                  /\ got.rows <= sheet.rows
                  /\ (isDocument \/ whole \/ sheet.rows <= DefaultTopN) => got.rows = sheet.rows
=============================================================================

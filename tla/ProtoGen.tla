----------------------------- MODULE ProtoGen -----------------------------
(***************************************************************************)
(* The proto generator of internal/protogen: which types a workbook sees,  *)
(* which .proto files a run writes and what it reports.                    *)
(*                                                                         *)
(* The caller (GenAll, GenWorkbook) walks the input directory and starts a *)
(* goroutine per workbook for a first pass that registers the types of the *)
(* type sheets, waits, and starts the goroutines of the second pass, which *)
(* parse the sheets against the registered types and write the files.      *)
(* Documents (XML, YAML) do everything in the first pass.                  *)
(*                                                                         *)
(* A call of Collect is one step, as in ConfGen; an error is "plain" or    *)
(* "joined" (the Join of a collector of this tree), "ok" is nil.           *)
(***************************************************************************)
EXTENDS Integers, Sequences, SequencesExt

CONSTANTS
  Books,      \* workbooks
  Documents,  \* those read by the document parser
  SheetsOf,   \* SheetsOf[b]: the sheets of b, in order
  Kind,       \* Kind[s]: "default", "type" or "types" (a MULTI type sheet)
  Declares,   \* Declares[s]: the types a type sheet puts, in order
  Fields,     \* Fields[s]: the fields (or blocks) of s, each a type that has
              \* to be known before, or Scalar
  Types, Scalar,
  ProtoPath,  \* ProtoPath[b]: the file b is written to
  Entries,    \* Entries[d]: the workbooks and directories ReadDir(d) lists
  TopDirs,    \* the input directory, or the Subdirs option
  MaxErrors, MaxErrorsPerBook, MaxErrorsPerSheet,
  Root,       \* the generator's collector
  Inputs      \* what the runs may be given:
              \*   mode: "all" (GenAll), or GenWorkbook's FirstPassMode
              \*   "default", "normal", "advanced";
              \*   asked: the workbooks asked for;
              \*   known: types imported, or generated before;
              \*   faults: <<what, where>> of the operations that fail

VARIABLES
  input,       \* the input of this run
  phase,       \* the caller: "walk", "start", "wait1", "second", "wait2", "done"
  stack,       \* the walk: <<directory, entries done>>, innermost last
  result,      \* what Generate returns
  pc, pass,    \* each workbook's goroutine, and its pass
  idx, fld,    \* its sheet, and the field or type of that sheet
  sres,        \* what the sheet returned
  worksheets,  \* the sheets appended to the workbook
  types,       \* gen.typeInfos
  cached,      \* gen.cachedImporters
  files,       \* the .proto files written: [book, sheets], or none
  count, kept  \* counters, and errors stored below each collector

callerVars == <<phase, stack, result>>
bookVars   == <<pc, pass, idx, fld, sres, worksheets>>
sharedVars == <<types, cached, files>>
collVars   == <<count, kept>>
vars == <<input, phase, stack, result, pc, pass, idx, fld, sres, worksheets,
          types, cached, files, count, kept>>

Dirs   == DOMAIN Entries
Sheets == UNION {ToSet(SheetsOf[b]) : b \in Books}
Paths  == {ProtoPath[b] : b \in Books}
NoFile == [book |-> Root, sheets |-> {}]
Faults(what, where) == <<what, where>> \in input.faults

ASSUME StructureAssumption ==
  /\ SheetsOf \in [Books -> Seq(DOMAIN Kind)]
  /\ \A s \in DOMAIN Kind : /\ Kind[s] \in {"default", "type", "types"}
                            /\ Declares[s] \in Seq(Types)
                            /\ Fields[s] \in Seq(Types \cup {Scalar})
  /\ {MaxErrors, MaxErrorsPerBook, MaxErrorsPerSheet} \subseteq Nat \ {0}
  /\ \A d \in Dirs : Entries[d] \in Seq(Books \cup Dirs)
  /\ Books \cap Dirs = {} /\ TopDirs \in Seq(Dirs)
  /\ Documents \subseteq Books /\ Root \notin Books /\ Scalar \notin Types

\* The file system is a tree, TopDirs are subtrees of it that are apart (Subdirs
\* is free of duplicates and of directories inside one another), and Dirs is
\* what they consist of.
ASSUME TreeAssumption ==
  /\ \A d, e \in Dirs : \A k \in DOMAIN Entries[d], l \in DOMAIN Entries[e] :
       Entries[d][k] = Entries[e][l] => d = e /\ k = l
  /\ \A d \in Dirs : \A k \in DOMAIN Entries[d] : Entries[d][k] \notin ToSet(TopDirs)
  /\ \A k, l \in DOMAIN TopDirs : TopDirs[k] = TopDirs[l] => k = l
  /\ \A F \in SUBSET Dirs :
       ToSet(TopDirs) \subseteq F /\ (\A d \in F : ToSet(Entries[d]) \cap Dirs \subseteq F) => F = Dirs

ASSUME InputAssumption ==
  \A in \in Inputs : /\ in.mode \in {"all", "default", "normal", "advanced"}
                     /\ in.asked \subseteq Books /\ in.known \subseteq Types
-----------------------------------------------------------------------------
(* The collectors: the generator's, one per workbook and pass, and that of  *)
(* the sheet the workbook is at.                                            *)

SheetOf(b) == <<b, "sheet">>
Nodes == {Root} \cup Books \cup {SheetOf(b) : b \in Books}

\* No two collectors are one.
ASSUME NamesAssumption == \A b \in Books : SheetOf(b) \notin {Root} \cup Books

\* A collector and its ancestors.
Path(n) == IF n = Root THEN {Root} ELSE IF n \in Books THEN {n, Root} ELSE {n, n[1], Root}

Limit(n) == IF n = Root THEN MaxErrors ELSE IF n \in Books THEN MaxErrorsPerBook ELSE MaxErrorsPerSheet

IsFull(cnt, n) == \E m \in Path(n) : cnt[m] >= Limit(m)

Join(kp, n) == IF kp[n] > 0 THEN "joined" ELSE "ok"

JoinIfErrors(n) == IF count[n] > 0 THEN Join(kept, n) ELSE "ok"

\* Collect(err): only a plain error is counted, and stored if within budget.
Collect(n, err) ==
  LET within == \A m \in Path(n) : count[m] < Limit(m)
      Plus(f) == [m \in Nodes |-> IF m \in Path(n) THEN f[m] + 1 ELSE f[m]]
  IN  /\ count' = IF err = "plain" THEN Plus(count) ELSE count
      /\ kept' = IF err = "plain" /\ within THEN Plus(kept) ELSE kept

CollectReturns(n) == IF IsFull(count', n) THEN Join(kept', n) ELSE "ok"

NewCollector(n) ==
  /\ count' = [count EXCEPT ![n] = 0]
  /\ kept' = [kept EXCEPT ![n] = 0]
-----------------------------------------------------------------------------
(* The caller: GenAll and GenWorkbook. *)

Over(bs) == \A b \in bs : pc[b] \in {"off", "over"}

\* preprocess: the registry holds the imported types and, in advanced mode,
\* those generated before.
Init ==
  /\ input \in Inputs
  /\ phase = IF input.mode \in {"all", "normal"} THEN "walk" ELSE "start"
  /\ stack = IF input.mode \in {"all", "normal"}
             THEN Reverse([k \in DOMAIN TopDirs |-> <<TopDirs[k], 0>>]) ELSE <<>>
  /\ result = "ok"
  /\ pc = [b \in Books |-> "off"]
  /\ pass = [b \in Books |-> 1]
  /\ idx = [b \in Books |-> 1]
  /\ fld = [b \in Books |-> 1]
  /\ sres = [b \in Books |-> "ok"]
  /\ worksheets = [b \in Books |-> {}]
  /\ types = input.known
  /\ cached = {}
  /\ files = [p \in Paths |-> NoFile]
  /\ count = [n \in Nodes |-> 0]
  /\ kept = [n \in Nodes |-> 0]

\* The goroutines of bs, each about to convert its workbook in pass p.
Start(bs, p) ==
  /\ pc' = [b \in Books |-> IF b \in bs THEN "open" ELSE pc[b]]
  /\ pass' = [b \in Books |-> IF b \in bs THEN p ELSE pass[b]]
  /\ UNCHANGED <<idx, fld, sres, worksheets>>

\* Return from every level of the walk; no level waits for its goroutines.
EndWalk(err) ==
  /\ phase' = "done"
  /\ result' = err
  /\ stack' = <<>>

\* The next entry of the innermost directory.  A directory that cannot be read
\* and an illegal CSV name or dangling link end the walk.
Walk ==
  /\ phase = "walk" /\ stack # <<>>
  /\ LET d == Last(stack)[1]
         k == Last(stack)[2]
         next == [stack EXCEPT ![Len(stack)] = <<d, k + 1>>]
     IN  /\ k < Len(Entries[d])
         /\ IF (k = 0 /\ Faults("dir", d)) \/ Faults("entry", <<d, k + 1>>)
            THEN EndWalk("plain") /\ UNCHANGED bookVars
            ELSE LET e == Entries[d][k + 1]
                 IN  \/ /\ e \in Books
                        /\ Start({e}, 1)
                        /\ stack' = next
                        /\ UNCHANGED <<phase, result>>
                     \/ /\ e \in Dirs
                        /\ stack' = Append(next, <<e, 0>>)
                        /\ UNCHANGED <<phase, result, bookVars>>
  /\ UNCHANGED <<input, sharedVars, collVars>>

\* (mutant of WaitDir: the walk returns without waiting)
WaitDirNow ==
  /\ phase = "walk" /\ stack # <<>>
  /\ Last(stack)[2] = Len(Entries[Last(stack)[1]])
  /\ stack' = Front(stack)
  /\ UNCHANGED <<input, phase, result, bookVars, sharedVars, collVars>>

\* The deferred Wait of a directory: for its own goroutines only, but on the
\* collector that all of them share.
WaitDir ==
  /\ phase = "walk" /\ stack # <<>>
  /\ LET d == Last(stack)[1]
     IN  /\ Last(stack)[2] = Len(Entries[d])
         /\ Over(Books \cap ToSet(Entries[d]))
  /\ IF JoinIfErrors(Root) = "ok"
     THEN stack' = Front(stack) /\ UNCHANGED <<phase, result>>
     ELSE EndWalk("joined")
  /\ UNCHANGED <<input, bookVars, sharedVars, collVars>>

\* processWorkbookOnFirstPass.
StartFirst ==
  /\ phase = "start"
  /\ Start(input.asked, 1)
  /\ phase' = "wait1"
  /\ UNCHANGED <<input, stack, result, sharedVars, collVars>>

WaitFirst ==
  /\ phase = "wait1" /\ Over(Books)
  /\ result' = JoinIfErrors(Root)
  /\ phase' = IF result' = "ok" THEN "second" ELSE "done"
  /\ UNCHANGED <<input, stack, bookVars, sharedVars, collVars>>

\* processSecondPass takes the workbooks from the cache, GenWorkbook those asked for.
StartSecond ==
  /\ phase = "second" \/ (phase = "walk" /\ stack = <<>>)
  /\ Start(IF input.mode = "all" THEN cached ELSE input.asked, 2)
  /\ phase' = "wait2"
  /\ UNCHANGED <<input, stack, result, sharedVars, collVars>>

\* (mutant of WaitSecond: no wait)
WaitSecondNow ==
  /\ phase = "wait2"
  /\ result' = JoinIfErrors(Root)
  /\ phase' = "done"
  /\ UNCHANGED <<input, stack, bookVars, sharedVars, collVars>>

WaitSecond ==
  /\ phase = "wait2" /\ Over(Books)
  /\ result' = JoinIfErrors(Root)
  /\ phase' = "done"
  /\ UNCHANGED <<input, stack, bookVars, sharedVars, collVars>>
-----------------------------------------------------------------------------
(* The goroutine of a workbook: convertTable and convertDocument. *)

Current(b) == SheetsOf[b][idx[b]]
Goto(b, to) == pc' = [pc EXCEPT ![b] = to]

\* convert returns err, which Group.Go collects at the generator.
Return(b, err) == Goto(b, "over") /\ Collect(Root, err)

\* Nothing to be converted: the workbook cannot be read, or has no sheets.
NotRead(b) == Faults("open", b) \/ SheetsOf[b] = <<>>
ReturnUnread(b) ==
  /\ Return(b, IF Faults("open", b) THEN "plain" ELSE "ok")
  /\ UNCHANGED <<idx, worksheets>>

\* A parser of the workbook and its collector, at the first sheet.
NewBookParser(b) ==
  /\ Goto(b, "sheet")
  /\ idx' = [idx EXCEPT ![b] = 1]
  /\ worksheets' = [worksheets EXCEPT ![b] = {}]
  /\ NewCollector(b)

\* The start of convertDocument, which does nothing in the second pass.
OpenDocument(b) ==
  /\ b \in Documents
  /\ \/ pass[b] = 2 /\ Return(b, "ok") /\ UNCHANGED <<idx, worksheets>>
     \/ pass[b] = 1 /\ NotRead(b) /\ ReturnUnread(b)
     \/ pass[b] = 1 /\ ~NotRead(b) /\ NewBookParser(b)
  /\ UNCHANGED cached

\* addImporter; a workbook that getImporter finds is not read again.
AddImporter(b) == cached' = cached \cup {b}

\* The start of convertTable.
OpenTable(b) ==
  /\ b \notin Documents
  /\ \/ b \notin cached /\ NotRead(b) /\ ReturnUnread(b) /\ UNCHANGED cached
     \/ (b \in cached \/ ~NotRead(b)) /\ AddImporter(b) /\ NewBookParser(b)

Open(b) ==
  /\ pc[b] = "open"
  /\ OpenDocument(b) \/ OpenTable(b)
  /\ UNCHANGED <<input, callerVars, pass, fld, sres, types, files>>

\* "document should have and only have one child"
Misshapen(b) == b \in Documents /\ Faults("document", Current(b))

\* convertTableSheet and convertDocumentSheet: what is done in this pass.
FirstStep(b) ==
  IF Misshapen(b) THEN "collect"
  ELSE IF b \in Documents \/ pass[b] = 2 THEN "fields"
  ELSE IF Kind[Current(b)] # "default" THEN "extract" ELSE "collect"

BeginSheet(b) ==
  /\ pc[b] = "sheet"
  /\ idx[b] <= Len(SheetsOf[b])
  /\ NewCollector(SheetOf(b))
  /\ fld' = [fld EXCEPT ![b] = 1]
  /\ sres' = [sres EXCEPT ![b] = IF Misshapen(b) THEN "plain" ELSE "ok"]
  /\ Goto(b, FirstStep(b))
  /\ UNCHANGED <<input, callerVars, pass, idx, worksheets, sharedVars>>

\* The sheet returns err.
EndSheet(b, err) ==
  /\ Goto(b, "collect")
  /\ sres' = [sres EXCEPT ![b] = err]
  /\ UNCHANGED fld

NextField(b) ==
  /\ fld' = [fld EXCEPT ![b] = @ + 1]
  /\ UNCHANGED <<pc, sres>>

\* (mutant of Extract: the MULTI modes put no types)
ExtractSingle(b) ==
  /\ pc[b] = "extract"
  /\ types' = types \cup (IF Kind[Current(b)] = "type" THEN ToSet(Declares[Current(b)]) ELSE {})
  /\ EndSheet(b, "ok")
  /\ UNCHANGED <<input, callerVars, pass, idx, worksheets, cached, files, collVars>>

\* extractTypeInfoFromSpecialSheetMode, one Put at a time.
Extract(b) ==
  /\ pc[b] = "extract"
  /\ LET s == Current(b)
         k == fld[b]
     IN  \/ /\ k > Len(Declares[s])
            /\ EndSheet(b, "ok")
            /\ UNCHANGED <<types, collVars>>
         \/ /\ k <= Len(Declares[s])
            /\ Faults("extract", Declares[s][k])
            /\ Collect(SheetOf(b), "plain")
            /\ EndSheet(b, Join(kept', SheetOf(b)))
            /\ UNCHANGED types
         \/ /\ k <= Len(Declares[s])
            /\ ~Faults("extract", Declares[s][k])
            /\ types' = types \cup {Declares[s][k]}
            /\ NextField(b)
            /\ UNCHANGED collVars
  /\ UNCHANGED <<input, callerVars, pass, idx, worksheets, cached, files>>

Unknown(t) == t # Scalar /\ t \notin types

\* Field or block k of s cannot be parsed.
FieldFails(s, k) == Unknown(Fields[s][k]) \/ Faults("field", <<s, k>>)

\* The one sheet kind whose parse does not look at the collectors.
Unchecked(b) == Kind[Current(b)] = "type"

\* A document and a MULTI sheet go on after an error, the others do not.
GoesOn(b) == b \in Documents \/ Kind[Current(b)] = "types"

\* (mutant of ParseField: a type that no goroutine has registered yet is waited for)
ParseFieldWaiting(b) ==
  /\ pc[b] = "fields"
  /\ LET s == Current(b)
         k == fld[b]
         full == IsFull(count, SheetOf(b)) /\ ~Unchecked(b)
     IN  /\ k <= Len(Fields[s])
         /\ \/ /\ full
               /\ EndSheet(b, Join(kept, IF GoesOn(b) THEN SheetOf(b) ELSE b))
               /\ UNCHANGED collVars
            \/ /\ ~full /\ Unknown(Fields[s][k])
               /\ UNCHANGED <<pc, fld, sres, collVars>>
            \/ /\ ~full /\ ~FieldFails(s, k)
               /\ NextField(b)
               /\ UNCHANGED collVars
            \/ /\ ~full /\ ~Unknown(Fields[s][k]) /\ FieldFails(s, k)
               /\ Collect(SheetOf(b), "plain")
               /\ IF GoesOn(b) /\ CollectReturns(SheetOf(b)) = "ok"
                  THEN NextField(b)
                  ELSE EndSheet(b, CollectReturns(SheetOf(b)))
  /\ UNCHANGED <<input, callerVars, pass, idx, worksheets, types, cached, files>>

\* One turn of the field loop.  A default sheet that finds a collector full
\* returns the Join of the workbook's, the others that of the sheet's.
ParseField(b) ==
  /\ pc[b] = "fields"
  /\ LET s == Current(b)
         k == fld[b]
         full == IsFull(count, SheetOf(b)) /\ ~Unchecked(b)
     IN  /\ k <= Len(Fields[s])
         /\ \/ /\ full
               /\ EndSheet(b, Join(kept, IF GoesOn(b) THEN SheetOf(b) ELSE b))
               /\ UNCHANGED collVars
            \/ /\ ~full /\ ~FieldFails(s, k)
               /\ NextField(b)
               /\ UNCHANGED collVars
            \/ /\ ~full /\ FieldFails(s, k)
               /\ Collect(SheetOf(b), "plain")
               /\ IF GoesOn(b) /\ CollectReturns(SheetOf(b)) = "ok"
                  THEN NextField(b)
                  ELSE EndSheet(b, CollectReturns(SheetOf(b)))
  /\ UNCHANGED <<input, callerVars, pass, idx, worksheets, types, cached, files>>

\* After the field loop: a sheet without errors is appended to the workbook.
\* The errors of a MULTI sheet pass through Collect once more.
EndFields(b) ==
  /\ pc[b] = "fields"
  /\ fld[b] > Len(Fields[Current(b)])
  /\ LET sheet == SheetOf(b)
     IN  \/ /\ count[sheet] = 0
            /\ worksheets' = [worksheets EXCEPT ![b] = @ \cup {Current(b)}]
            /\ EndSheet(b, "ok")
         \/ /\ count[sheet] > 0
            /\ EndSheet(b, IF b \in Documents \/ IsFull(count, sheet) THEN Join(kept, sheet) ELSE "ok")
            /\ UNCHANGED worksheets
  /\ UNCHANGED <<input, callerVars, pass, idx, sharedVars, collVars>>

\* What the sheet returned is collected at the workbook.
CollectSheet(b) ==
  /\ pc[b] = "collect"
  /\ Collect(b, sres[b])
  /\ IF CollectReturns(b) = "ok"
     THEN Goto(b, "sheet") /\ idx' = [idx EXCEPT ![b] = @ + 1]
     ELSE Goto(b, "over") /\ UNCHANGED idx
  /\ UNCHANGED <<input, callerVars, pass, fld, sres, worksheets, sharedVars>>

\* (mutant of EndSheets: errors do not keep the workbook from being exported)
EndSheetsAnyway(b) ==
  /\ pc[b] = "sheet"
  /\ idx[b] > Len(SheetsOf[b])
  /\ IF pass[b] = 1 /\ b \notin Documents
     THEN Return(b, JoinIfErrors(b))
     ELSE Goto(b, "export") /\ UNCHANGED collVars
  /\ UNCHANGED <<input, callerVars, pass, idx, fld, sres, worksheets, sharedVars>>

\* After the sheet loop: only a workbook without errors is exported.
EndSheets(b) ==
  /\ pc[b] = "sheet"
  /\ idx[b] > Len(SheetsOf[b])
  /\ IF count[b] > 0 \/ (pass[b] = 1 /\ b \notin Documents)
     THEN Return(b, JoinIfErrors(b))
     ELSE Goto(b, "export") /\ UNCHANGED collVars
  /\ UNCHANGED <<input, callerVars, pass, idx, fld, sres, worksheets, sharedVars>>

\* bookExporter.export up to the check for an existing file (GenAll only) ...
Export(b) ==
  /\ pc[b] = "export"
  /\ IF Faults("export", b) \/ (input.mode = "all" /\ files[ProtoPath[b]] # NoFile)
     THEN Return(b, "plain")
     ELSE Goto(b, "write") /\ UNCHANGED collVars
  /\ UNCHANGED <<input, callerVars, pass, idx, fld, sres, worksheets, sharedVars>>

\* ... and the locked file's creation.
WriteFile(b) ==
  /\ pc[b] = "write"
  /\ files' = [files EXCEPT ![ProtoPath[b]] = [book |-> b, sheets |-> worksheets[b]]]
  /\ Return(b, "ok")
  /\ UNCHANGED <<input, callerVars, pass, idx, fld, sres, worksheets, types, cached>>
-----------------------------------------------------------------------------
CallerStep == Walk \/ WaitDir \/ StartFirst \/ WaitFirst \/ StartSecond \/ WaitSecond

BookStep(b) ==
  \/ Open(b) \/ BeginSheet(b) \/ Extract(b) \/ ParseField(b) \/ EndFields(b)
  \/ CollectSheet(b) \/ EndSheets(b) \/ Export(b) \/ WriteFile(b)

Done == phase = "done" /\ Over(Books)

Next ==
  \/ CallerStep
  \/ \E b \in Books : BookStep(b)
  \/ Done /\ UNCHANGED vars

\* The Go scheduler runs every goroutine that can run.
Fairness == WF_vars(CallerStep) /\ \A b \in Books : WF_vars(BookStep(b))

Spec == Init /\ [][Next]_vars /\ Fairness
-----------------------------------------------------------------------------
Listed == Books \cap UNION {ToSet(Entries[d]) : d \in Dirs}
SheetSet(b) == ToSet(SheetsOf[b])

\* The workbooks of the first pass, and those whose files the caller wants.
Scanned == IF input.mode \in {"all", "normal"} THEN Listed ELSE input.asked
Wanted == IF input.mode = "all" THEN Listed ELSE input.asked

\* The types that the type sheets of some workbooks declare.
DeclaredBy(b) == UNION {ToSet(Declares[s]) : s \in {t \in SheetSet(b) : Kind[t] # "default"}}
Declared(bs) == UNION {DeclaredBy(b) : b \in bs \ Documents}

Complete(b) == files[ProtoPath[b]] = [book |-> b, sheets |-> SheetSet(b)]

\* "cross-workbook type references" are resolved "via two concurrent passes":
\* when the second pass runs, every type of every workbook of the first pass is
\* registered.
SecondPassKnowsAll ==
  phase \in {"second", "wait2"} => Declared(Scanned) \subseteq types

\* Success: the file of every workbook has all its sheets, and no goroutine of
\* the run is still at work (nested directories wait for their own only).
SuccessMeansComplete ==
  phase = "done" /\ result = "ok" =>
    Over(Books) /\ \A b \in Wanted : SheetsOf[b] # <<>> => Complete(b)

\* A file lacks a sheet of its workbook only if the generator's budget is used
\* up: the errors of a sheet keep the workbook from being exported.
PartialOnlyWhenFull ==
  \A p \in Paths : files[p] # NoFile /\ files[p].sheets # SheetSet(files[p].book)
    => IsFull(count, Root)

\* No operation of this run fails; documents use imported types only.
Sound ==
  /\ input.faults = {}
  /\ \A b \in Scanned : \A s \in SheetSet(b) :
       ToSet(Fields[s]) \subseteq
         {Scalar} \cup input.known \cup (IF b \in Documents THEN {} ELSE Declared(Scanned))

\* A run with nothing wrong in it succeeds, however its goroutines interleave.
SoundRunsSucceed == phase = "done" /\ Sound => result = "ok"

\* GenAll checks for conflicting proto files: no file is written over another's.
NoOverwrite ==
  [][input.mode = "all" => \A p \in Paths : files[p] # NoFile => files'[p] = files[p]]_vars

\* Every run ends.
Terminates == <>Done
=============================================================================

------------------------------ MODULE ConfGen ------------------------------
(***************************************************************************)
(* The conf generator of internal/confgen: which configurations a run      *)
(* exports and which errors it reports.                                    *)
(*                                                                         *)
(* One goroutine per workbook (confgen.go, convert) takes its sheets in    *)
(* order; a merger or scatter sheet is read from several importers in      *)
(* parallel (parser.go, ParseMessage and ScatterAndExport).  All of them   *)
(* report to one tree of error collectors: generator, workbook, importer   *)
(* (the "sheet" collector of the parser), row.                             *)
(*                                                                         *)
(* A call of Collect is one step here; ErrorCollector has its interleaving.*)
(* An error is "plain" (an ordinary error) or "joined" (the result of a    *)
(* Join of this tree); "ok" is nil.                                        *)
(***************************************************************************)
EXTENDS Integers, Sequences, FiniteSets

CONSTANTS
  Books,      \* workbooks, i.e. proto files with workbook options
  Sheets,     \* worksheets (messages with worksheet options)
  Importers,  \* the sub-workbooks a sheet is read from
  SheetsOf,   \* SheetsOf[b]: the sheets of b to convert, in message order
  Main,       \* Main[s]: the workbook's own importer, as used for s
  Extra,      \* Extra[s]: what GetMergerImporters or GetScatterImporters adds
  Documents,  \* importers of XML or YAML documents; the others read tables
  MaxErrors, MaxErrorsPerBook, MaxErrorsPerSheet, MaxErrorsPerMessage,
  Root,       \* the generator's collector
  Inputs      \* what the runs may be given:
              \*   specs: the proto files of each book specifier ({}: unknown);
              \*     GenAll is the one specifier <<Books>>,
              \*   scatter: the sheets with the Scatter option,
              \*   errs[i]: how many fields fail in each row of i,
              \*   faults: <<what, where>> of the operations that fail

VARIABLES
  input,      \* the input of this run
  gen,        \* the caller: "launch", "wait" or "done"
  spec,       \* next specifier of Specs
  result,     \* what Generate returns
  bpc, idx,   \* each workbook goroutine and its place in SheetsOf
  bres,       \* what convert returned
  ipc, row,   \* each importer's parse and its current row
  left,       \* fields of that row still to fail
  ires,       \* what the importer's parse (and export) returned
  count,      \* counter of each collector
  kept,       \* errors stored in each collector's subtree
  exported,   \* confs written: a sheet, or an importer of a scatter sheet
  lost        \* history: importers whose parse went past a bad or skipped row

bookVars == <<bpc, idx, bres>>
impVars  == <<ipc, row, left, ires, lost>>
collVars == <<count, kept>>
vars == <<input, gen, spec, result, bpc, idx, bres, ipc, row, left, ires,
          count, kept, exported, lost>>

\* The book and the sheet an importer works for; the row collector of a parse.
SheetOf(i) == CHOOSE s \in Sheets : i = Main[s] \/ i \in Extra[s]
BookOf(s)  == CHOOSE b \in Books : \E k \in DOMAIN SheetsOf[b] : SheetsOf[b][k] = s
RowOf(i)   == <<i, "row">>

Nodes == {Root} \cup Books \cup Importers \cup {RowOf(i) : i \in Importers}

\* A collector and its ancestors.
Path(n) == IF n = Root THEN {Root}
           ELSE IF n \in Books THEN {n, Root}
           ELSE IF n \in Importers THEN {n, BookOf(SheetOf(n)), Root}
           ELSE {n, n[1], BookOf(SheetOf(n[1])), Root}

Limit(n) == IF n = Root THEN MaxErrors
            ELSE IF n \in Books THEN MaxErrorsPerBook
            ELSE IF n \in Importers THEN MaxErrorsPerSheet
            ELSE MaxErrorsPerMessage

Specs == input.specs
Scatter == input.scatter
Current(b) == SheetsOf[b][idx[b]]
Readers(s) == {Main[s]} \cup Extra[s]
Fails(what, where) == <<what, where>> \in input.faults

\* A sheet has one place in one workbook; its importers are its own, the one of
\* the workbook is not among those that its options add.
ASSUME StructureAssumption ==
  /\ SheetsOf \in [Books -> Seq(Sheets)]
  /\ \A s \in Sheets : \E b \in Books : \E k \in DOMAIN SheetsOf[b] : SheetsOf[b][k] = s
  /\ \A a, b \in Books : \A k \in DOMAIN SheetsOf[a], l \in DOMAIN SheetsOf[b] :
       SheetsOf[a][k] = SheetsOf[b][l] => a = b /\ k = l
  /\ Main \in [Sheets -> Importers] /\ Extra \in [Sheets -> SUBSET Importers]
  /\ \A i \in Importers : \E s \in Sheets : i \in Readers(s)
  /\ \A s, t \in Sheets : s # t => Readers(s) \cap Readers(t) = {}
  /\ \A s \in Sheets : Main[s] \notin Extra[s]
  /\ {MaxErrors, MaxErrorsPerBook, MaxErrorsPerSheet, MaxErrorsPerMessage} \subseteq Nat \ {0}

\* No two collectors are one.
ASSUME NamesAssumption ==
  /\ Root \notin Books \cup Importers
  /\ Books \cap Importers = {} /\ Sheets \cap Importers = {}
  /\ \A i \in Importers : RowOf(i) \notin {Root} \cup Books \cup Importers

\* GenWorkbook is not asked twice for a proto file.
ASSUME InputAssumption ==
  \A in \in Inputs :
    /\ in.specs \in Seq(SUBSET Books)
    /\ \A k, l \in DOMAIN in.specs : k # l => in.specs[k] \cap in.specs[l] = {}
    /\ in.scatter \subseteq Sheets
    /\ in.errs \in [Importers -> Seq(Nat)]
-----------------------------------------------------------------------------
(* The collector's operations, on the counters cnt and stored errors kp. *)

IsFull(cnt, n) == \E m \in Path(n) : cnt[m] >= Limit(m)

\* Join: nil if nothing is stored below n.
Join(kp, n) == IF kp[n] > 0 THEN "joined" ELSE "ok"

HasErrors(cnt, n) == cnt[n] > 0

\* Collect(err): only a plain error is counted, and stored if within budget.
Collect(n, err) ==
  LET within == \A m \in Path(n) : count[m] < Limit(m)
  IN  /\ count' = IF err = "plain" THEN [m \in Nodes |-> count[m] + (IF m \in Path(n) THEN 1 ELSE 0)]
                                   ELSE count
      /\ kept' = IF err = "plain" /\ within
                 THEN [m \in Nodes |-> kept[m] + (IF m \in Path(n) THEN 1 ELSE 0)]
                 ELSE kept

\* ... and what the call returns.
CollectReturns(n) == IF IsFull(count', n) THEN Join(kept', n) ELSE "ok"

\* "if c.HasErrors() { return c.Join() }; return nil"
JoinIfErrors(n) == IF HasErrors(count, n) THEN Join(kept, n) ELSE "ok"
-----------------------------------------------------------------------------
(* The caller: GenAll and GenWorkbook. *)

Init ==
  /\ input \in Inputs
  /\ gen = "launch" /\ spec = 1 /\ result = "ok"
  /\ bpc = [b \in Books |-> "off"]
  /\ idx = [b \in Books |-> 1]
  /\ bres = [b \in Books |-> "ok"]
  /\ ipc = [i \in Importers |-> "off"]
  /\ row = [i \in Importers |-> 1]
  /\ left = [i \in Importers |-> 0]
  /\ ires = [i \in Importers |-> "ok"]
  /\ count = [n \in Nodes |-> 0]
  /\ kept = [n \in Nodes |-> 0]
  /\ exported = {} /\ lost = {}

\* One specifier: a goroutine for each of its proto files, or an early return
\* that waits for nobody if the workbook is unknown.
Launch ==
  /\ gen = "launch"
  /\ \/ /\ spec <= Len(Specs)
        /\ Specs[spec] # {}
        /\ bpc' = [b \in Books |-> IF b \in Specs[spec] THEN "open" ELSE bpc[b]]
        /\ spec' = spec + 1
        /\ UNCHANGED <<gen, result>>
     \/ /\ spec <= Len(Specs)
        /\ Specs[spec] = {}
        /\ gen' = "done" /\ result' = "plain"
        /\ UNCHANGED <<spec, bpc>>
     \/ /\ spec > Len(Specs)
        /\ gen' = "wait"
        /\ UNCHANGED <<spec, result, bpc>>
  /\ UNCHANGED <<input, idx, bres, impVars, collVars, exported>>

\* Group.Wait of the generator.
WaitAll ==
  /\ gen = "wait"
  /\ \A b \in Books : bpc[b] \in {"off", "over"}
  /\ gen' = "done"
  /\ result' = JoinIfErrors(Root)
  /\ UNCHANGED <<input, spec, bookVars, impVars, collVars, exported>>
-----------------------------------------------------------------------------
(* The goroutine of a workbook: convert, then Collect of what it returns. *)

\* The context this may cancel is one that no code looks at.
Return(b, err) ==
  /\ bpc' = [bpc EXCEPT ![b] = "over"]
  /\ bres' = [bres EXCEPT ![b] = err]
  /\ Collect(Root, err)
  /\ UNCHANGED idx

NextSheet(b) ==
  /\ bpc' = [bpc EXCEPT ![b] = "sheet"]
  /\ idx' = [idx EXCEPT ![b] = @ + 1]
  /\ UNCHANGED bres

\* (mutants of FailSheet: the error is dropped; the first error ends the loop; a
\* sheet that failed is tried again as long as the budget lasts)
FailSheetSilently(b, err) ==
  NextSheet(b) /\ UNCHANGED <<collVars, exported>>

FailSheetStops(b, err) ==
  /\ Collect(b, err)
  /\ bpc' = [bpc EXCEPT ![b] = "over"]
  /\ bres' = [bres EXCEPT ![b] = "joined"]
  /\ UNCHANGED <<idx, exported>>

FailSheetRetried(b, err) ==
  /\ Collect(b, err)
  /\ bpc' = [bpc EXCEPT ![b] = IF CollectReturns(b) = "ok" THEN "sheet" ELSE "over"]
  /\ bres' = [bres EXCEPT ![b] = CollectReturns(b)]
  /\ UNCHANGED <<idx, exported>>

\* convert's handling of an error of the current sheet: it is collected at the
\* workbook (the sheet's name, which is added to it first, is left out).
FailSheet(b, err) ==
  /\ Collect(b, err)
  /\ IF CollectReturns(b) = "ok"
     THEN NextSheet(b)
     ELSE /\ bpc' = [bpc EXCEPT ![b] = "over"]
          /\ bres' = [bres EXCEPT ![b] = "joined"]
          /\ UNCHANGED idx
  /\ UNCHANGED exported

\* convert opens the workbook. The workbooks it leaves without an error before
\* that (no workbook options, a format or a directory that is filtered out) are
\* not among Books: they have no sheets to export and report nothing.
Open(b) ==
  /\ bpc[b] = "open"
  /\ IF Fails("open", b)
     THEN Return(b, "plain")
     ELSE /\ bpc' = [bpc EXCEPT ![b] = "sheet"]
          /\ UNCHANGED <<idx, bres, collVars>>
  /\ UNCHANGED <<input, gen, spec, result, impVars, exported>>

\* Dispatch to processScatter or processMerger.
BeginSheet(b) ==
  /\ bpc[b] = "sheet"
  /\ idx[b] <= Len(SheetsOf[b])
  /\ LET s == Current(b)
     IN  \/ /\ Fails("both options", s)
            /\ Return(b, "plain")
            /\ UNCHANGED <<ipc, exported>>
         \/ /\ ~Fails("both options", s)
            /\ Fails("importers", s)
            /\ FailSheet(b, "plain")
            /\ UNCHANGED ipc
         \/ /\ ~Fails("both options", s)
            /\ ~Fails("importers", s)
            /\ LET alone == s \in Scatter \/ Extra[s] = {}
               IN  /\ ipc' = [i \in Importers |->
                                IF i = Main[s] \/ (i \in Extra[s] /\ ~alone) THEN "begin" ELSE ipc[i]]
                   /\ bpc' = [bpc EXCEPT ![b] = IF alone THEN "main" ELSE "group"]
            /\ UNCHANGED <<idx, bres, collVars, exported>>
  /\ UNCHANGED <<input, gen, spec, result, row, left, ires, lost>>

\* The main importer, parsed by the workbook's goroutine itself, is done.
MainParsed(b) ==
  /\ bpc[b] = "main"
  /\ LET s    == Current(b)
         i    == Main[s]
         conf == IF s \in Scatter THEN i ELSE s
     IN  /\ ipc[i] = "parsed"
         /\ \/ /\ ires[i] # "ok"
               /\ FailSheet(b, ires[i])
               /\ UNCHANGED ipc
            \/ /\ ires[i] = "ok"
               /\ Fails("store", conf)
               /\ FailSheet(b, "plain")
               /\ UNCHANGED ipc
            \/ /\ ires[i] = "ok"
               /\ ~Fails("store", conf)
               /\ exported' = exported \cup {conf}
               /\ IF s \in Scatter
                  THEN /\ ipc' = [j \in Importers |-> IF j \in Extra[s] THEN "begin" ELSE ipc[j]]
                       /\ bpc' = [bpc EXCEPT ![b] = "group"]
                       /\ UNCHANGED <<idx, bres>>
                  ELSE NextSheet(b) /\ UNCHANGED ipc
               /\ UNCHANGED collVars
  /\ UNCHANGED <<input, gen, spec, result, row, left, ires, lost>>

\* Group.Wait on the workbook's collector, and for a merger sheet the merge and
\* the export of the unified message.
GroupWait(b) ==
  /\ bpc[b] = "group"
  /\ LET s == Current(b)
     IN  /\ \A i \in IF s \in Scatter THEN Extra[s] ELSE Readers(s) : ipc[i] = "over"
         /\ \/ /\ JoinIfErrors(b) = "joined"
               /\ FailSheet(b, "joined")
            \/ /\ JoinIfErrors(b) = "ok"
               /\ s \notin Scatter
               /\ Fails("merge", s) \/ Fails("store", s)
               /\ FailSheet(b, "plain")
            \/ /\ JoinIfErrors(b) = "ok"
               /\ s \in Scatter \/ (~Fails("merge", s) /\ ~Fails("store", s))
               /\ exported' = IF s \in Scatter THEN exported ELSE exported \cup {s}
               /\ NextSheet(b)
               /\ UNCHANGED collVars
  /\ UNCHANGED <<input, gen, spec, result, impVars>>

\* After the sheet loop.
Finish(b) ==
  /\ bpc[b] = "sheet"
  /\ idx[b] > Len(SheetsOf[b])
  /\ Return(b, IF Fails("sheet not found", b) THEN "plain" ELSE JoinIfErrors(b))
  /\ UNCHANGED <<input, gen, spec, result, impVars, exported>>
-----------------------------------------------------------------------------
(* One importer: parseMessageFromOneImporter and the parsers' main loops. *)

Parsed(i, err) ==
  /\ ipc' = [ipc EXCEPT ![i] = "parsed"]
  /\ ires' = [ires EXCEPT ![i] = err]

\* The sheet may be missing from the sub-workbook (E0001).
BeginParse(i) ==
  /\ ipc[i] = "begin"
  /\ IF Fails("sheet", i)
     THEN Parsed(i, "plain")
     ELSE ipc' = [ipc EXCEPT ![i] = "rows"] /\ UNCHANGED ires
  /\ UNCHANGED <<input, gen, spec, result, bookVars, row, left, lost, collVars, exported>>

\* The row callback returned nil: on to the next row.  bad: this row had errors
\* or was not looked at.
NextRow(i, bad) ==
  /\ ipc' = [ipc EXCEPT ![i] = "rows"]
  /\ row' = [row EXCEPT ![i] = @ + 1]
  /\ lost' = IF bad THEN lost \cup {i} ELSE lost
  /\ UNCHANGED ires

\* The end of a row whose message returned err: a table collects it at the sheet
\* and stops if that reports a full tree; a document's only message is its result.
EndRow(i, err) ==
  IF err = "joined" /\ (i \in Documents \/ CollectReturns(i) = "joined")
  THEN Parsed(i, "joined") /\ UNCHANGED <<row, lost>>
  ELSE NextRow(i, input.errs[i][row[i]] > 0)

BeginRow(i) ==
  /\ ipc[i] = "rows"
  /\ row[i] <= Len(input.errs[i])
  /\ \/ /\ IsFull(count, i)
        /\ IF Join(kept, i) = "joined"
           THEN Parsed(i, "joined") /\ UNCHANGED <<row, lost>>
           ELSE NextRow(i, TRUE)
        /\ UNCHANGED <<left, collVars>>
     \/ /\ ~IsFull(count, i)
        /\ ipc' = [ipc EXCEPT ![i] = "fields"]
        /\ left' = [left EXCEPT ![i] = input.errs[i][row[i]]]
        /\ count' = [count EXCEPT ![RowOf(i)] = 0]
        /\ kept' = [kept EXCEPT ![RowOf(i)] = 0]
        /\ UNCHANGED <<row, ires, lost>>
  /\ UNCHANGED <<input, gen, spec, result, bookVars, exported>>

\* A field fails: messageCollector.Collect(fieldErr).
FieldError(i) ==
  /\ ipc[i] = "fields"
  /\ left[i] > 0
  /\ Collect(RowOf(i), "plain")
  /\ left' = [left EXCEPT ![i] = @ - 1]
  /\ IF CollectReturns(RowOf(i)) = "joined"
     THEN EndRow(i, "joined")
     ELSE UNCHANGED <<ipc, row, ires, lost>>
  /\ UNCHANGED <<input, gen, spec, result, bookVars, exported>>

\* A document looks at the collectors before each of its top-level fields.
DocumentFull(i) ==
  /\ i \in Documents
  /\ ipc[i] = "fields"
  /\ left[i] > 0
  /\ IsFull(count, i)
  /\ EndRow(i, Join(kept, i))
  /\ UNCHANGED <<input, gen, spec, result, bookVars, left, collVars, exported>>

\* All fields of the row are parsed.
EndFields(i) ==
  /\ ipc[i] = "fields"
  /\ left[i] = 0
  /\ UNCHANGED collVars
  /\ EndRow(i, JoinIfErrors(RowOf(i)))
  /\ UNCHANGED <<input, gen, spec, result, bookVars, left, exported>>

\* (mutant of EndRows: the collector is not asked)
EndRowsUnchecked(i) ==
  /\ ipc[i] = "rows"
  /\ row[i] > Len(input.errs[i])
  /\ Parsed(i, "ok")
  /\ UNCHANGED <<input, gen, spec, result, bookVars, row, left, lost, collVars, exported>>

EndRows(i) ==
  /\ ipc[i] = "rows"
  /\ row[i] > Len(input.errs[i])
  /\ Parsed(i, JoinIfErrors(i))
  /\ UNCHANGED <<input, gen, spec, result, bookVars, row, left, lost, collVars, exported>>

\* The goroutines of the group of s are running.
InGroup(b, s) == bpc[b] = "group" /\ Current(b) = s

\* (mutant of MemberDone: Group.Go without Collect)
MemberDoneDropped(i) ==
  /\ ipc[i] = "parsed"
  /\ LET s == SheetOf(i)
     IN  InGroup(BookOf(s), s) /\ (i # Main[s] \/ s \notin Scatter)
  /\ ipc' = [ipc EXCEPT ![i] = "over"]
  /\ UNCHANGED <<input, gen, spec, result, bookVars, row, left, ires, lost, collVars, exported>>

\* A goroutine of a sheet's group ends: a scatter importer exports its own conf
\* first, whose failure is collected with no sheet name; then Group.Go collects
\* the outcome at the workbook.
MemberDone(i) ==
  /\ ipc[i] = "parsed"
  /\ LET s  == SheetOf(i)
         b  == BookOf(s)
         ok == ires[i] = "ok"
     IN  /\ InGroup(b, s) /\ (i # Main[s] \/ s \notin Scatter)
         /\ ipc' = [ipc EXCEPT ![i] = "over"]
         /\ \/ /\ ok /\ s \in Scatter /\ Fails("store", i)
               /\ Collect(b, "plain")
               /\ ires' = [ires EXCEPT ![i] = "plain"]
               /\ UNCHANGED exported
            \/ /\ ok /\ s \in Scatter /\ ~Fails("store", i)
               /\ exported' = exported \cup {i}
               /\ UNCHANGED <<ires, collVars>>
            \/ /\ ~ok \/ s \notin Scatter
               /\ Collect(b, ires[i])
               /\ UNCHANGED <<ires, exported>>
  /\ UNCHANGED <<input, gen, spec, result, bookVars, row, left, lost>>
-----------------------------------------------------------------------------
BookStep(b) == Open(b) \/ BeginSheet(b) \/ MainParsed(b) \/ GroupWait(b) \/ Finish(b)

ParseStep(i) ==
  \/ BeginParse(i) \/ BeginRow(i) \/ FieldError(i) \/ DocumentFull(i)
  \/ EndFields(i) \/ EndRows(i) \/ MemberDone(i)

Done == gen = "done" /\ \A b \in Books : bpc[b] \in {"off", "over"}

Next ==
  \/ Launch
  \/ WaitAll
  \/ \E b \in Books : BookStep(b)
  \/ \E i \in Importers : ParseStep(i)
  \/ Done /\ UNCHANGED vars

\* The Go scheduler runs every goroutine that can run.
Fairness ==
  /\ WF_vars(Launch) /\ WF_vars(WaitAll)
  /\ \A b \in Books : WF_vars(BookStep(b))
  /\ \A i \in Importers : WF_vars(ParseStep(i))

Spec == Init /\ [][Next]_vars /\ Fairness
-----------------------------------------------------------------------------
Launched == {b \in Books : bpc[b] # "off"}

SheetsIn(b) == {SheetsOf[b][k] : k \in DOMAIN SheetsOf[b]}

ConfsOf(s) == IF s \in Scatter THEN Readers(s) ELSE {s}

\* The importers whose data a conf consists of.
Contents(conf) == IF conf \in Sheets THEN Readers(conf) ELSE {conf}

\* Some of the conf's data was skipped, or was bad, or never arrived.
Tainted(conf) == \E i \in Contents(conf) : i \in lost \/ ires[i] # "ok"

BookOfConf(conf) == BookOf(IF conf \in Sheets THEN conf ELSE SheetOf(conf))

\* A sheet with nothing wrong in it.
Clean(s) ==
  /\ \A f \in input.faults : f[2] # s /\ f[2] \notin Readers(s)
  /\ \A i \in Readers(s) : \A k \in DOMAIN input.errs[i] : input.errs[i][k] = 0

\* The run reports success only if every conf of every workbook was exported,
\* from data that was read completely and without an error.
SuccessMeansComplete ==
  gen = "done" /\ result = "ok" =>
    \A b \in Launched : \A s \in SheetsIn(b) : \A conf \in ConfsOf(s) :
      conf \in exported /\ ~Tainted(conf)

\* As long as no collector above an importer is full, nothing is exported from
\* data that had an error or was skipped.
TaintedOnlyWhenFull ==
  \A conf \in exported : Tainted(conf) => IsFull(count, BookOfConf(conf))

\* No conf goes missing silently: its workbook has an error in the report, or
\* returned one to the generator, or the generator's own budget is used up.
MissingIsReported ==
  Done => \A b \in Launched : \A s \in SheetsIn(b) : \A conf \in ConfsOf(s) :
    conf \notin exported =>
      kept[b] > 0 \/ (bres[b] = "plain" /\ kept[Root] > 0) \/ IsFull(count, Root)

\* The errors of a sheet do not keep the other sheets of the workbook from being
\* exported: a clean sheet with one importer is, unless a budget is used up or
\* the workbook itself could not be converted. (A sheet of several importers
\* waits on the workbook's collector, whose errors of earlier sheets fail it.)
CleanSheetsExported ==
  Done => \A b \in Launched : \A s \in SheetsIn(b) :
    Clean(s) /\ Extra[s] = {} /\ s \notin exported /\ Main[s] \notin exported =>
      IsFull(count, b) \/ bres[b] = "plain"

\* A parse that went past a bad row, or skipped rows because a collector was
\* full, fails.
SkippedRowsFail ==
  \A i \in Importers : ipc[i] = "over" /\ i \in lost => ires[i] # "ok"

\* Every run ends.
Terminates == <>Done
=============================================================================

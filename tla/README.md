# A TLA+ verification of tableau

tableau turns workbooks (Excel, CSV) and documents (XML, YAML) into Protocol
Buffers in two stages: **protogen** reads the header rows of every sheet and
generates `.proto` files, **confgen** reads the data rows against those protos
and exports configurations (JSON, text, binary), which `load` reads again. Both
generators run one goroutine per workbook and, for sheets spread over several
workbooks, one goroutine per importer, and both report many errors of one run
instead of the first.

The project has two halves. One models the parts where that concurrency and the
error budgets meet the result of a run: what is exported, what is reported, what
is silently lost. The other models what a sheet goes through, from the file to
the message and back from the conf: each stage against a reference that says
what the author of the sheet meant.

## Files

Concurrent components, each with its own instance for TLC:

| module | what it is | proofs | instance | runs |
|---|---|---|---|---|
| `ErrorCollector` | `internal/x/xerrors/collector.go`, one step per atomic add and per critical section | `ErrorCollectorProofs` | `MCErrorCollector` | `collector_tree` |
| `ConfGen` | the conf generator from `GenAll` down to the row loops of the parsers | `ConfGenProofs` | `MCConfGen` | `confgen_both`, `confgen_skipped` |
| `ProtoGen` | the proto generator: the walk, its two passes, workbooks, sheets and fields, the export | `ProtoGenProofs` | `MCProtoGen` | `protogen_any`, `protogen_conflict` |
| `ReferLookup` | abstract: what a refer check promises | | | |
| `ReferredCache` | `internal/confgen/fieldprop/refer.go`: the cache of value spaces, lock by lock | `ReferredCacheProofs` | `MCReferredCache` | `refer_one` |
| `KeyedUnion` | abstract: what merging several importers' messages promises | | | |
| `MergeReduce` | `ParseMessage` for several importers and `internal/x/xproto/merge.go` | `MergeReduceProofs` | `MCStages` | `stages` |
| `WorkbookIndex` | `GenWorkbook` of confgen, its index of workbooks, specifiers and rewritten directories | `StageProofs` | `MCWorkbookIndex`, `MCStages` | `stages`, `subdirs_twice` |

The rows of a sheet:

| module | what it is | proofs | instance | runs |
|---|---|---|---|---|
| `RowItems` | what the cells of one row mean for a list or map field, without loops | | | |
| `RowField` | `internal/confgen/table_parser.go`: the loops over the items of a row, against `RowItems` | `RowFieldProofs` | `MCRows`, `MCRowHoles` | `rows`, `row_holes` |
| `TableParser` | data rows into the records of a vertical map or list | `TableParserProofs` | `MCRows` | `rows` |

The sequential stages, which `Stages` puts beside each other and `MCStages` gives
small inputs (run `stages`, but for the counterexamples named). `StageProofs` has the
theorems about those marked with a star and about `WorkbookIndex`:

| module | what it is |
|---|---|
| `Books` * | workbooks, metasheets, which sheets are read and how far (`internal/importer`, `book/book.go`) |
| `HeaderOptions` * | the row and line options of a header, in both generators (run `header_rows`) |
| `TypeCells` | the type cells of a header and the types they name (`internal/types`) |
| `Headers` | `internal/protogen/table_parser.go`: columns into fields, and the columns that confgen asks for, given those fields |
| `SheetHeaders` | a designer lays out a sheet; what both make of it must be what was meant |
| `TypeSheets` | tables and transposed tables, with parts cut out (`importer/book/table*.go`); sheets of them that define enums, structs and unions, in blocks (`sheet_mode.go`) |
| `DataRows` * | rows given to the parser: adjacent keys and the pool of cells (`tableparser`, `row.go`) |
| `DocNodes` | XML and YAML as nodes, their schema as fields |
| `DocumentSheets` | the data of a document as messages; an author describes and writes a document, and it must be read as written |
| `NumberLedger`, `FieldNumbers` * | abstract, and `exporter.go`: field numbers over several generations (run `numbers_shared`, instance `MCFieldNumbers`) |
| `Values` * | numbers, versions and fractions of a cell (`xproto/value.go`, `fieldprop/prop.go`) |
| `InnerMessages` | structs and unions in a cell, in columns, in nodes (`table_parser.go`, `parser.go`, `union.go`, `enum.go`) |
| `Storing` * | confs written in several formats, scattered, patched in a dry run (`confgen/parser.go`, `store`) |
| `Patching`, `Loading` * | `xproto/patch.go`, and `load`: main files, patches, origin workbooks |
| `ErrorValues` | wrapped and joined errors and their descriptions (`errors.go`, `desc.go`) |

Check a run with `tlc -config <run>.cfg <instance>.tla` and the proofs with
`tlapm <module>.tla` for each of `ErrorCollectorProofs`, `ConfGenProofs`,
`ProtoGenProofs`, `ReferredCacheProofs`, `MergeReduceProofs`, `RowFieldProofs`,
`TableParserProofs` and `StageProofs`.

## Inventory

### Error collector (`internal/x/xerrors/collector.go`)

State: per collector an atomic counter, a mutex, the errors stored in it and
its children; a parent pointer. Per joined error: its origin collector and an
`outer` layer. Operations: `NewChild`, `Collect`, `IsFull`, `HasErrors`, `Join`,
`NewGroup`, `Group.Go`, `Group.Wait`. Every goroutine of a run calls it, on its
own collector and, through the counters, on all ancestors.
Hard: `Collect` increments the counters of the ancestors one after the other
without a lock and decides from what it saw whether to store the error; `Join`
walks the tree locking one collector at a time. Correct means: a budget bounds
what is stored in every interleaving; nothing is dropped before a budget is
used up; a report names each error once and misses none.

### Conf generator (`internal/confgen`)

State: per run the collector tree generator / workbook / sheet parser / row; the
index from workbooks to proto files; per workbook goroutine its place in the list
of sheets; the exported files. Operations: `GenAll`, `GenWorkbook`, `convert`,
`processScatter`, `processMerger`, `ScatterAndExport`, `MergeAndExport`,
`ParseMessage`, `sheetParser.Parse`, the row loop of `tableParser`, the node loop
of `documentParser`, and below them the field parsers (maps, lists, unions,
structs, in-cell or spread over columns), field properties (`fieldprop`: range,
size, order, unique, sequence, refer, presence) and a package-level cache of
referred value spaces. Workbooks interact only through the root collector and
that cache; importers of a sheet through the workbook's collector and the order
in which they append their messages for the merge.
Hard: four nested budgets consulted at different points; a group that waits on a
collector it shares with earlier sheets; early returns that do not wait; names
that are rewritten at several places; what rows leave in a record before they
fail. Correct means: success is reported only for complete output; what is missing
is reported; an error of one sheet does not harm another; every run ends; a
message says what its rows say.

### Proto generator (`internal/protogen`)

State: `typeInfos` (types declared by type sheets, shared by all goroutines), the
cached importers, the registry of generated files, the collector tree. Two passes
over the workbooks (type sheets first, then messages), one goroutine per workbook.
The header of a sheet is parsed by recursive descent over its columns with a
cursor and a prefix; exported fields keep the numbers of the last generation.
Hard: the second pass must see every type of the first; documents read
`typeInfos` while tables of other workbooks are still adding to it; where a map or
list ends depends on names that are prefixes of others. Correct means: the fields
are those the sheet's author meant, confgen finds every column again, and a field
number never changes its meaning.

### Workbook model and importers (`internal/importer`)

Books, sheets, tables (transposed or not), blocks, rows and cells, document nodes;
the metasheet that says which sheets are read; readers of four formats that stop
early where they can; the workbooks of a merger or scatter sheet. A row remembers
whether it is empty, looks up cells by column name, and copies keys from the row
above for adjacent keys, whose cells are in a pool shared by all sheets.

### Storing, loading, patching (`store`, `load`, `internal/x/xproto`)

Confs are written per workbook in each format, timestamps in a time zone; `load`
reads them, finds patch files by option, and replaces or merges (`PatchMessage`),
or reads the workbooks themselves. Correct means: what was exported is loaded as
it was meant, and patches are layers.

### Errors as values (`internal/x/xerrors/errors.go`, `desc.go`)

Wrapping with messages, key/value labels, codes and stacks; flattening a tree of
joined errors into a numbered report, the innermost label winning.

### The rest

`internal/strcase`, `options`, `log`, `internal/localizer`, `cmd/tableauc`, the
generated `.pb.go` files and `internal/printer`: formatting, configuration and
I/O; no model.

## How the stages fit together

The sequential stages run at different times and share files, not state. `Stages`
declares the variables of all of them and lets one of them run in a behaviour
while the others are at rest (`AtRest`), so that one run checks each stage over all
its small inputs. The common vocabulary makes them meet: in `Headers` the fields
that protogen derives from the type cells of `TypeCells` are those by which confgen
asks for columns; `DocNodes` gives the fields by which `DocumentSheets` reads the
nodes; `Storing` and `Loading` share the messages of `Patching`.

All of these modules have the same shape: actions build an input piece by piece as
an author or caller could (a sheet's columns, a document's items, the options of a
call), the operators are the code's functions, and an invariant compares what they
return with a reference that is stated over the whole input and never steps
through it. Bounds count the pieces.

## ErrorCollector

`Chain[c]` holds `c`, its parent, and so on to the root: the parent pointers,
which never change after `NewChild`. `counter`, `errs`, `children` are the
fields of the struct; `live` says which collectors exist. A goroutine is a
worker with a program counter:

* `CollectNil`, `CollectJoined`, `CollectError` enter `Collect` (its three
  cases; the first two only look whether the tree is full);
* `AddCounter` is one iteration of the ancestor loop, an atomic `Add(1)`;
* `StoreError` is the section under the lock and the decision to join;
* `JoinVisit` is one level of the recursive `Join` (errors and children copied
  under the lock), `JoinReturn` its end; `CallJoin` a direct call.

`IsFull` reads several counters. They only grow, so the outcomes are those of a
single read; it is part of the step that uses it. Errors stored in one
collector are a set: their order in the report is not modelled. `used`
makes errors identities that are handed in once; `before` remembers what was
stored when a `Join` began and is read by properties only.

`collector_tree`: a chain of three with budgets 2, 2, 1; two goroutines, three
errors, everyone uses everything. Three errors exceed every budget, and two
goroutines are enough for every order of two increments.

### What is proved

For every tree, every budget, any number of goroutines and errors:

* `TypeCorrect`: `Spec => []TypeOK`;
* `BudgetHolds`: `Spec => []BudgetRespected`. A budget is not inductive by
  itself: an error that has passed a counter and is not stored yet already has
  a claim to its place. `Accepted(c)` is what is stored below `c` plus what is
  on its way and has passed `c`; `BudgetInv` says it is at most `counter[c]`
  and at most the budget. Storing an error moves it from "passed" to "stored"
  and leaves `Accepted` alone; an increment adds at most one to it, and only if
  the new counter value is within the budget.
* `NothingLost`: `Spec => []NothingLostWithinBudget`. Needs `FreshInv` (an error
  on its way is in no list and in no other call, so that it counts once) and
  `DropInv` (an error to be dropped has passed a counter over budget).
* `JoinIsExact`: `Spec => []JoinExact`. `TreeInv`: the lists of children are the
  tree of the live collectors, and an error is in one list. `WalkInv`, of a `Join`
  under way: the collectors still to visit are an antichain below its receiver, what
  it has counted is in none of their subtrees, and what was there when it began is
  counted or in one of them. A visit replaces a collector by its children, which
  keeps the antichain; an error or child that is added meanwhile lies below what is
  still to visit, or is not asked for. When nothing is left to visit, `WalkInv` is
  `JoinExact`.

The assumptions are those in the module: `ChainAssumption` (parent pointers form
chains), `MaxErrsAssumption` (`normalizeMax` leaves no budget below one),
`UsesAssumption`, `NilAssumption`.

### What it found

If several goroutines share a child, each error can overflow another budget:
everything is counted, nothing stored, `HasErrors` is true and `Join` nil, so
that a `Wait` on it would report success. In the generators every child belongs
to one goroutine, but for the workbook collector that the importers of a sheet
share.

`Collect` returns `c.Join()`, the errors below the *receiver*, when *any* ancestor
is full. If the ancestor was filled by other children the result is nil, contrary
to the comment, and the caller goes on: `confgen_skipped` shows what comes of it.

## ConfGen

The caller (`gen`) starts one goroutine per proto file (`Launch`) and waits
(`WaitAll`). A workbook goroutine (`bpc`, `idx`) runs `convert`: `Open` (the
importer and its sheets), then for each message `BeginSheet` (the options and
the importers of the sheet), the main importer's parse where `convert`'s own
goroutine does it, `GroupWait` (the group of importers), and after the loop
`Finish`. An importer's parse (`ipc`, `row`, `left`) runs `BeginParse`, and per
row `BeginRow`, `FieldError`, `EndFields`, at last `EndRows`, and `MemberDone`
if it is a goroutine of a group. `DocumentFull` is the look at the collectors
that a document takes before each field; a document is one "row".

`Collect` is a single step here; its interleaving is the subject of
`ErrorCollector`. An error is `"plain"` or `"joined"` (made by a `Join` of this
tree, not counted again), since that is all `Collect` looks at. The input of a
run says how many fields fail in each row (`errs`) and which operations fail
(`faults`); these are chosen once and not during the run, so that a property can
speak of clean sheets. The context of the group is cancelled in the code when a
collector becomes full, but nothing in `confgen` looks at it: no action reads
it. `lost` (importers whose parse went past a bad or skipped row) is a history
variable. The labels that errors are wrapped with are `ErrorValues`' subject.

Bounds: two workbooks with two sheets each, one sheet with two importers, which is
a merger in some inputs and a scatter sheet in others, one importer that reads a
document, rows of at most two failing fields, and budgets
2 / 2 / 2 / 1 for 20 / 10 / 5 / 3. In the code the budgets shrink by a factor of
two or less from level to level, so that a generator is filled by two workbooks;
here one fills it, which is the same situation for a third. With these bounds a
budget at every level can be used up by the level below, by siblings, and left
one short.

Fairness: weak fairness for every goroutine's steps. The code has no blocking
operation but `Wait`, and the Go scheduler runs every goroutine that can run.

### What it found

* **Skipped rows** (`confgen_skipped`). When the generator's collector is full
  from other workbooks, `tableParser.parse` skips a row by returning
  `collector.Join()` of its own sheet. With no error of its own that is nil: every
  remaining row is skipped, the sheet parses successfully and an incomplete conf
  is exported. The run still fails as a whole, which is why `SuccessMeansComplete`
  holds.

Seen while modelling, without a run of its own: the group of a multi-importer sheet
waits on the *workbook's* collector, so that `Wait` answers with the errors of
earlier sheets and a clean merger sheet after any failed sheet is not exported.
`CleanSheetsExported` therefore speaks of sheets with one importer.

### What is proved

For any workbooks, sheets, importers, inputs and budgets: `TypeCorrect`,
`TaintedConfs` (`TaintedOnlyWhenFull`), `NothingMissesSilently` (`MissingIsReported`),
`SuccessComplete` (`SuccessMeansComplete`) and `CleanSheets` (`CleanSheetsExported`).
None of them is inductive, and they need each other's reasons. The invariant `IInv`
is the conjunction of

* `CollInv`: no counter is above that of a parent, nor is what is stored, and the
  first error of a collector is dropped only if one further up is full. This is
  where the budgets meet: an error that was seen at a row can be looked for at the
  workbook or at the root;
* `LaunchInv` and `StageInv`: a goroutine is started once, and the importers at work
  are those of the sheet whose turn it is, so that nothing is parsed behind the back
  of the group that waits for it;
* `ParseInv`: what a parse has gone past and what it returned are in the collectors;
  a parse that lost data and returned nil has a full workbook or root above it;
* `ExportInv`: what is exported was parsed, and without error if nothing is full;
* `MissInv`: what is missing of the sheets that are over is accounted for;
* `DoneInv`: a run that returned nil has an empty root and no goroutine at work;
* `CleanInv`: an importer with nothing wrong has counted nothing.

`SuccessMeansComplete` is then a consequence: nothing is counted at the root, so
nothing is full, so nothing is missing (`MissingIsReported`) or made from lost data
(`TaintedOnlyWhenFull`). The assumptions: `StructureAssumption` (a sheet has one place
in one workbook, an importer one sheet, budgets are positive), `NamesAssumption`
(no two collectors are one) and `InputAssumption` (`GenWorkbook` is not asked twice
for a proto file; `WorkbookIndex` shows what it does then). Attempting the proof
showed that the model let an importer's goroutine end before its group was started;
`MemberDone` has the guard `InGroup` now.

`Terminates` is liveness and stays with TLC.

## WorkbookIndex

Which proto files a workbook belongs to: `buildWorkbookIndex` (`Get`) for the
lookup, `convert` (`BooksRead`) for the conversion. A proto file names a primary
workbook; the merger or scatter option of its sheet names specifiers, each the set
of names its pattern matches, to be found beside the primary one. A directory is a
sequence of pieces of its text, because `HasSubdirPrefix` and `RewriteSubdir` match
text and not path elements. `TakeBook` starts the conversions of an asked workbook,
`EndConvert` ends one, `WaitAll` is the group's wait.

`IndexIsExact`: a workbook is looked up for exactly the proto files whose
conversion reads it, and a call that succeeds has converted each as often as it was
asked for, and is waiting for nobody. Bounds: two proto files, four workbook files
in three directories of which one has another as the beginning of its text, two
asked workbooks; three of proto files, rewrites and filter.

Found (`subdirs_twice`): `convert` rewrites the primary workbook's directory and
hands the result to functions that rewrite it again, so that the further workbooks
of a sheet are looked for elsewhere than the index and `load` look. Seen without a
run: two asked workbooks that share a proto file convert it twice, concurrently; an
unknown workbook makes the call return without waiting; a specifier that matches
nothing in any proto file fails the call for every workbook; with two matching
rewrites the order of a Go map decides.

Proved (`IndexExact` of `StageProofs`), for any proto files, rewrites, filters and
asked workbooks: `IndexIsExact`. `IndexInv` says that a proto file has been started
(`running` and `converted` together) as often as one of the workbooks taken so far is
looked up for it, and that success means all are taken and none is running. That
the lookup and the conversion agree (`IndexedIsRead`) holds without an invariant,
wherever a second rewrite of a directory changes nothing.

## ProtoGen

The caller (`phase`, `stack`, `result`) is `GenAll` or `GenWorkbook`. `Walk` is
one entry of `processDirFirstPass`: a workbook gets a goroutine of the first
pass (`Start`), a directory is entered, a directory that cannot be read or an
illegal entry ends the walk at once (`EndWalk`), without waiting for the
goroutines of the directories above. `WaitDir` is the deferred `Wait` of a
directory. Its `WaitGroup` knows only that directory's goroutines while the
collector it then looks at is the generator's, shared by all. `StartFirst` and
`WaitFirst` are the modes of `GenWorkbook` that scan only what was asked for,
`StartSecond` and `WaitSecond` the second pass.

A workbook goroutine (`pc`, `pass`, `idx`, `fld`) runs `Open`: `OpenDocument` or
`OpenTable`, which takes the importer from disk or from `cachedImporters`. Then per
sheet `BeginSheet`, and in the first pass of a table `Extract`, one `Put` into
`typeInfos` at a time, or in the second pass `ParseField`, one field or block at a
time, and `EndFields`. `CollectSheet` hands what the sheet returned to the
workbook's collector; `EndSheets` decides whether the workbook is exported;
`Export` checks for an existing file and `WriteFile` creates it, two steps because
other workbooks run in between. Documents do all of it in the first pass. A field
is the type it needs, since a missing type is the one way in which goroutines
influence each other's fields; every other reason to fail is a member of `faults`.

`Collect` is one step, as in `ConfGen`. The sheet kinds are `"default"`, `"type"`
and `"types"` (the MULTI modes): only the last and documents go on after an error,
and a `"type"` sheet does not look at the collectors at all.

Fairness: weak fairness for the caller and for each workbook's goroutine; the
only blocking operation is `Wait`.

Bounds: two tables that need each other's types, in a directory and in one nested
in it, and a document; with `GenAll` every pair of failing operations, with
`GenWorkbook` every single one, and bursts of three and four failing fields against
budgets of two (10, 5 and 3 in the code), so that the generator's collector is
filled by one workbook while another is in any state. Two tables are enough for the
two passes to overlap if they could, and the nested directory for a walk that waits
at one level and works at another.

### What it found

* **Conflicting files** (`protogen_conflict`). The check for an existing file and
  the write are two steps: two workbooks with the same proto path both pass it.

Seen in the model without a run of their own: documents are parsed in the first
pass, so whether a document finds a type of a table sheet depends on which goroutine
is faster; with no mode set `GenWorkbook` scans only what was asked for, while the
README calls "Normal" the default; the first pass of normal mode exports every
document of the input directory; and, as with confgen's skipped rows, a sheet that
finds the generator's collector full returns the `Join` of its own workbook, which
is nil if that has no error, so that the workbook is exported without the sheet.
Such a run fails as a whole (`PartialOnlyWhenFull`, `SuccessMeansComplete`). The
collector and the cached importers outlive a call of `Generate`: a second call on
the same generator is not modelled.

### What is proved

For any directories, workbooks, sheets, fields, faults and budgets: `TypeCorrect`,
`TwoPassesSuffice` (`SecondPassKnowsAll`) and `PartialFiles` (`PartialOnlyWhenFull`);
and if no two workbooks have the same proto path (`DistinctPaths`) and `GenWorkbook`
is asked for workbooks that its walk lists (`AskedAreListed`), `SuccessComplete`
(`SuccessMeansComplete`) and `NothingWrongSucceeds` (`SoundRunsSucceed`). The first
condition is needed: the instance of `protogen_conflict` violates it, and there a run
that reports success has lost a file.

The invariant is, besides `CollInv` as in `ConfGen` and `ControlInv` (where a
goroutine can be in which pass):

* `WorkInv`: a sheet that was passed is in the workbook, and the types of a type sheet
  that was passed are registered, unless an error was counted or the budget used up;
  files are complete or were written when the budget was used up;
* `WalkInv`: there is a set of directories that are finished, all their workbooks
  over, and every entry before the position of a directory on the stack is finished,
  on the stack or started. When the stack is empty the finished directories are
  closed under entries, so they are all (`TreeAssumption`), although each directory
  waited for its own workbooks only;
* `CallerInv`: what the caller relies on between its phases; from `wait1` on every
  goroutine of the first pass is over, and those of the second pass begin with all
  types declared in what was scanned.

`CompleteInv` (a workbook that is over has its complete file, unless an error was
counted) and `SoundInv` (a run in which nothing goes wrong counts nothing) are
proved on top. The assumptions are those of the module: the directories are a tree
(`TreeAssumption`), budgets are positive, no two collectors are one. `Terminates`
stays with TLC.

## ReferredCache

`references` is the package-level map. `readers` are the holders of the read
lock. `writer` is whoever has the writer's mutex of the `sync.RWMutex`, waiting
for readers to leave (`"waiting"`) or writing (`"loading"`): from then on new
readers wait, as in Go. A parser asks (`Ask`), looks under the read lock
(`RLock`, `RUnlock`), on a miss takes the write lock (`Lock`), looks again
(`Recheck`) and reads the workbooks of the referred sheet one by one while it
holds the lock (`LoadSource`); a failure is not cached (`LoadFails`), a success
goes into the map (`Publish`). `loads` is a history variable, `asks` bounds the
checks of a parser.

`refer_one`: three parsers with one check each, so that one can read, one load and
one wait; sheets of two workbooks, of which one lacks the column (`torn`), and a
refer that does not resolve (`ghost`). Fairness: each parser in the middle of a
check takes its steps; nobody has to ask.

Proved, for any sheets, checks and number of parsers: `CacheTypeCorrect`;
`LoadsAreSingle` (even with several generators); and with one generator per
process `CacheFaithful` (`CacheInv`) and `CacheImplementsLookup`, the refinement of
`ReferLookup`. The inductive invariant is `TypeOK`, `AtInv` (the place in the list
of refers), `LockInv` (who holds what; a load finds no entry) and `LoadsInv`, with
`CacheInv` on top: what the map and every load in progress hold is what the
sheets hold, and the refers already passed do not decide the question.
`EveryCheckAnswered` is liveness and stays with TLC.

The map is keyed by the refer's text and lives as long as the process, so a second
generator with another input directory is answered from the first one's sheets:
`OneGenerator`, the assumption of the last two theorems, is really needed. A refer
reads the workbooks of a merger sheet, not those of a scatter sheet.

## MergeReduce

The branch of `ParseMessage` for more than one importer. `Arrive` is the end of an
importer's goroutine, which appends its message under the mutex; `Wait` the
group's. The caller then merges message after message (`NextMessage`) and of each
the populated fields, in any order, since `Range` promises none: `MergeList`,
`MergeMap`, and `MergeSingle` for a field that cannot be merged. A duplicate ends
the merge, and `NameDuplicate` is the second search, over the earlier messages,
that gives the error its workbooks.

A value of a map is represented by the importer it comes from, a list by the
importers whose elements were appended, block by block: the merge looks at nothing
else. Here an importer that fails makes `Wait` fail; budgets, and the errors of
earlier sheets of the workbook, are the subject of `ConfGen`.

`KeyedUnion` is the promise, in one step: an error if an importer fails; otherwise
an error that names two workbooks which have the key in common, or one that names
a field that cannot be merged; or the union of all maps and the lists in blocks
which are in one order for all lists. The order itself is left open: it is the
order in which the goroutines happen to end.

Bounds, in `stages`: three importers with any of seven messages (empty, overlapping
in one map or the other, with lists that some lack, with a field that cannot be
merged), two maps, two lists. Three messages are what it takes for a duplicate to
be with another than the one before.

Proved, for any importers, fields, keys and messages: `TypeCorrect`,
`MergeFaithful` (`MergeInv`), `DuplicateNamed` (`DuplicateInv`) and
`MergeImplementsUnion` (the refinement). `ArrivalInv` says that every importer
which ended without error is in `msgs` once, `MainInv` what the main message holds:
its maps are exactly the keys of the fields merged so far (`MapsInv`), no two
messages share one of these keys (`KeysInv`, which `MergeMap` keeps because it
found none of the new keys there), the lists' blocks are in arrival order
(`ListsInv`). When the last message has no field left, this is the union. A duplicate
comes from `MapsInv`: a key found in the main message was merged from an earlier
message, so the second search finds it. The assumptions are the module's: at least
one importer, and fields that are a map, a list or neither.

## RowItems and RowField

A horizontal field has an item per index of its columns (`Item1ID`, `Item1Num`), an
in-cell field one per separated part of a cell. An item is two cells, its key and
one more; a cell is a number or empty. An empty cell reads as the default value 0,
so that 0 and nothing give one value, and only `Present` tells them apart: much of
what can go wrong here comes from that.

`RowItems` says without a loop which rows of items are acceptable and what they
give, as the options and the comments of the code have it: `RowListOk` and `RowList`
for a horizontal list with its options `fixed` and `size`, `RowMapOk` and `RowMap`
for a horizontal map, `CellListOk`, `CellList`, `CellMapOk` and `CellMap` for a cell.
No empty item may be before one that is present, in all four. What the code
reads of a horizontal map is a definition beside that (`ReadMapOk`, `ReadMap`), which
`TableParser` uses, and so is each way in which the code differs.

`RowField` has the loops of the code. A step is one turn (`HorizontalElem`,
`HorizontalEntry`, `IncellElem`, `IncellEntry`) or what follows the loop
(`ListRowEnds`, `MapRowEnds`), where a row is compared with or added to what earlier
rows of the record gave (`aggregate`). `gap` is
`firstNonePresentIndex` of the lists and `checkRemainFlag` of the map, `seen` the
values of a unique sub-field, which the code keeps for the whole sheet.

`rows` checks `RowIsReference`, that every row the loops accept is acceptable and
gives the reference's value, a list in the order of its items, and that a loop fails
only on a row that is not acceptable; and `ValuesUnique`. Bounds: one row of three items from
seven, or two rows of two from four, and rows without columns, under every
combination of the options a layout looks at. Three items are what a gap in the
middle, a repeated key behind another and a fixed size beyond the columns need;
two rows are all that the comparison across rows sees at once. The run has no
deadlock check: a worksheet ends.

The rows that `RowIsReference` says nothing about are `Overlooked`: the code accepts
them though an empty item is before one that is present. In an in-cell list the
empty item is the first one (`EmptyFirst`: the index of the first absent item counts
from 0, and 0 means that there is none); in a horizontal map an item behind a blank
one is not read if the key 0 was used before (`Hidden`: the loop breaks ahead of its
check of the rest); an in-cell map does not look for empty items, which a TODO in the
code admits. The first two contradict comments beside the loops. `row_holes` reads a
record with an in-cell list and a horizontal map, three items each, and asks whether
one of the two refuses a record in which both have such a hole (`HolesRefused`):
neither does, in the shortest trace each for its own reason.

One row fails without a fault of its items: in an in-cell map an empty part is the
key 0 once more, if that was given (`EmptyIsZero`).

Proved, for rows of any length and any options: `TypeCorrect`, `UniqueValues`
(`ValuesUnique`) and `RowReference` (`RowIsReference`). `UniqueInv` says that the
values of the row and those of the field so far are different and all remembered in
`seen`. For `RowIsReference`, `LoopInv` states for each of the four loops what it has
made of the items before its position: the elements of those that are present, for a
list that the items from the first absent one on are absent (`HorizontalListLoop`,
`IncellListLoop`), for a map also that no item so far ended it and no two have one
key (`HorizontalMapLoop`, `IncellMapLoop`); a map may be over before its last column.
An in-cell list's loop is a horizontal list's whose index is less by one, so that
the first item is the case to tell apart.
At the end of the row this is the reference: `LoopMeans` for what is read, and
`ReadMeans` for a row none of whose items is hidden, where what is read and what
is meant are the same. `ErrorInv`: a loop that
failed had a reason. `RowItems` has no recursion and no loop, so nothing is
computed by induction; where a least index is needed, it is taken by well-founded
choice on the naturals. The assumption is that of the module, `InputsAssumption`: the
inputs are options and rows as the text above says.

## TableParser

A step is a data row (`VerticalMapRow`, `KeyedListRow`, `ListRow`). Its key selects
a record or makes a new one; `Merge` and `Add` are the call of `parseMessage` for
it. A record has a key, a scalar `val`, a scalar `tag` with the property unique,
sequence or order in one of its four directions, and one list or map `sub`, vertical
or horizontal, for which `RowItems` says what the row gives. `cards` is the
`cardInfo` of the field. `read` (the rows so far) is a history variable.

A failed row is collected and the next one parsed; what it did to a record that
was there stays. Which budget ends the parse is the subject of `ErrorCollector` and
`ConfGen`: here the parse may stop after any failed row, and the run has no deadlock
check.

`rows` checks also `KeysDistinct`, `KeysInSequence`, `TagsChecked` (which depends on
the direction of an order, and on what empty cells mean to each property),
`RowsKept` (every value read is in the record of its key and every record's value was
read, but for the entries of rows whose items are `Hidden`),
`RepeatedKeyFails` and the action property `RowTouchesOneRecord`. Bounds: three rows
with three or four keys (0 given and left empty among them) and as many values,
for each combination of options of one of three families: the key's properties, a
property of another field, a field inside the record. Three rows let a key return
after another one, and a sequence go on after a bad row.

Proved, for any options, rows and number of rows: `TypeCorrect`, `KeysAreDistinct`,
`SequenceHolds`, `TagsHold`, `RepeatsFail`, `RowsAreKept` and `OneRecordTouched`. `StepKinds` sorts
the steps into those that leave the records alone, those that merge a row into a
record of the same key, and those that add a record of a new key; the invariants
follow by the three cases. `TagsHold` needs `CardsInv`, what `cards` knows of the
records so far, and `OrdersCompose`, that an order between neighbours is one between
any two; `RepeatsFail` needs `KeysRead`, that without a failed row every key that
was given has its record. `FirstAbsent` is the one lemma about data: the first
absent item of a row exists. `RowsAreKept` needs no further invariant: what a record
says is said by rows of its key (`SaidIn`) and what rows say is in a record
(`Accounted`) are kept by every kind of step, once the elements that a row adds to
a record are known (`RowListElements` and the like, by the layout of `sub`); this is
where a row that has a field without columns had to be told from one with items, in
`RowOK`. The assumptions are
those of the modules: the options and rows are what the text above says, `Empty` is
no number and `None` no option.

Found: `parseHorizontalMapField` answers "present" even if there is nothing in any
of its columns. A record that has such a field is then made for an empty row, and
the second empty row repeats its key.

Left out: cells that do not parse or are out of range (they fail the row and nothing
else), nesting deeper than a list or map inside a record, fields with explicit
presence, and the entries of an aggregated map that went in before one repeated a
key: Go ranges over that map in no order, so which of them is undefined.

## Stages

Each module of this half has its state, its actions and one property against a
reference definition. `MCStages` gives the inputs, `stages.cfg` the bounds.

### Books

Somebody adds sheets or documents to a file (`NewSheet`), a metasheet
(`NewMetasheet`) and rows to it (`NewRow`). `Purged` is what an importer hands to
protogen: the sheets wanted, how many of their rows (`ReadSheet`, `TopN`: ten
unless the metasheet says the sheet is transposed or of another mode), the
documents' schemas (`@`), the metasheet's rows and the sheets named by no row
purged. `BookHoldsWhatIsNamed`: exactly the named sheets are there, in the file's
order, as much of each as is needed, and a row without a sheet is an error. Four
sheets of up to three rows, read up to two: a sheet on either side of each limit.

Proved (`BooksAsNamed` of `StageProofs`), for files, limits and metasheets of any size.
The invariant of the actions, `BooksInv`, is short: types, no schemas among tables, one
row for a name. The rest is about what folds leave of a sequence. `InOrder` says that a
sequence holds the members of another at a set of positions, in their order;
`InOrderAppend` and `SelectedInOrder` say what an addition and a selection do to
that set, `BookInOrder` that after every document the book is made of the last
sheets of every name so far, and `InOrderCounted` where a position is found.
`SheetNamesAssumption` was found by the attempt: no sheet is named `#`, which a
metasheet could not name.

Seen: a metasheet with nothing but the row `#` purges every sheet without a word;
header rows below the tenth are not read; of two YAML documents with the same
`@sheet`, the last replaces the first.

### HeaderOptions

The options of a sheet, of its workbook and of the generator, each unset or set.
`NewHeader` is the one merge both generators use; `ProtoHeader` and `ConfHeader`
are what it gives to each. `HeadersAgree`, checked in `stages`, says that both
look in the same rows unless an option is set for the workbook and not for the
sheet; without this condition (`HeadersAgreeAlways`, in `header_rows`) it is
violated, see the findings. `HeadersOfBoth` proves it for any options; that takes no
invariant, the operators decide it.

### TypeCells, Headers, SheetHeaders

`Headers` is the descent of protogen's `tableParser`: a cursor over the columns,
prefixes of names, the type cell of a column's element which stands in for the cell
(`vt`), map, list (vertical, horizontal, in-cell, keyed), struct (by columns, in-cell,
predefined) and scalar. Its second part is the other side: which columns confgen asks for,
given those fields, and how it counts the elements of a horizontal field
(`GetCellCountWithPrefix`). Both use `RECURSIVE` operators as the code recurses; nothing
is proved about them.

In `SheetHeaders` a designer adds fields (`AddField`) and empty columns
(`InsertBlank`) one by one. `Layout` writes
the columns as tableau's naming rules say. `HeaderIsUnderstood`: protogen finds the
fields that were meant, and confgen asks for just the columns which the header has.
Bounds: three fields, the first two of any of thirty shapes (every layout, nested or
not, some inside others), the third of those that can end or swallow another; one
empty column anywhere; two elements each. A field before and one after is
what the end of a map, list or struct depends on.

Seen, and kept out of the shapes: comments at table_parser.go:180 and :475 speak of
"only one list item, treat it as incell list" for what is then parsed as something
else; names of columns without type are not checked for uniqueness by protogen
(table_header.go:65) while confgen fails with E0003; a column whose name starts with
that of a horizontal list is swallowed by it; a column without type ends a struct that
it is inside of; a predefined struct whose first field's name is the whole column
gets an empty name; a keyed list cannot be horizontal.

### TypeSheets

A table has cells, transposed or not, rows of different lengths and parts cut out.
`TypeSheets` writes blocks of enums, structs or unions into it
(`AddType`, `AddValue`), in rows or columns, and lets the two passes of protogen read
it at any time: `FirstPass` registers, `SecondPass` exports. `TypesExported`: the
types exported are those registered, and each has the values of its block with
distinct numbers; `TransposeIsInvisible`: the same for a transposed sheet. Two blocks
of two values, numbers given, empty, 0 or unreadable: what distinguishes one block
from the next and a given number from one counted.

Seen: blocks need a blank row between them, adjoining ones are read as one; a union
whose value 0 is not the first is not refused; an enum without values is exported.

### DataRows

Somebody who knows about adjacent keys writes rows, leaving out a key where it and
those around it are as in the row before (`ReadRow`), rows marked to be ignored
(`IgnoreRow`, `BadMark`), while other sheets take cells from the pool that all
sheets share (`OtherSheet`). `RangeDataRows` frees the cells of a row when the next
but one is read. `RowsAsMeant`: the parser is given the rows that were meant, which
fails if a cell is freed while a later row still needs it or a key is taken from an
ignored row. Three rows, seven cells, three headers: a map with a keyed list in it,
two maps next to each other, a name that is there twice.

Proved (`RowsKeepMeaning` of `StageProofs`), for headers and rows of any size and any
number of sheets at work: `RowsAsMeant`. `RowsInv` says that the cells of the row
before and of the current one are different cells, that the pool is exactly the
rest, and that they hold what was meant; so the writes of other sheets, which take
cells from the pool, leave them alone. That the pool always has a row's worth of
cells, and that the cells taken are different ones (`Taken`, by rank), is `TakenFacts`;
that a key left out is filled in is `RowFilled`, an induction over the columns by the
first one that would be wrong. `ColumnsAssumption` was found by the attempt: two rows
of cells fit the pool (in the code it grows), and a key column has a name and follows
the key of the level above it with columns of its own level only in between, which is
how protogen lays out the columns that a header's fields ask for. Without that a key
left out is read as empty, see below.

Seen: keys whose name has two words, and a parent's key without common prefix, are not
filled in (the TODO at row.go:221).

### DocNodes, DocumentSheets

`DocNodes` is the tree of an XML element or YAML value with the helpers the parsers
use, and the document parser of protogen; `DocumentSheets` has that of confgen.
In it an author describes items (ten forms, some inside others) and
writes a document in YAML or XML, with what is one text as attributes or elements,
names optional or not. `DocumentReadAsWritten`: whatever is written is in the message
under the fields of the schema; the document is refused if and only if it lacks a
name it must have or repeats a key. Two items, the first of any form.

Seen: an XML element whose first attribute is an in-cell struct or of a predefined type
gets no `@type`; an attribute that is not the first and of type `[E]T` becomes a
scalar; a struct or scalar element written twice is read once; virtual nodes of keys
stay appended to the node that was parsed. Defaults, enum keys and predefined types
are not in the model.

### NumberLedger and FieldNumbers

`NumberLedger` is the promise to data already written: a field that stays keeps
its number, a new one gets a number no field has or had, the number of one that
goes is retired. `FieldNumbers` is `assignFieldNumbers` field by field
(`AssignNumber`), for the message of a sheet and the nested messages its fields
name (`NestMessage`), over regenerations of a sheet that changes in between
(`Generate`, `WriteProto`) or is taken away (`RemoveSheet`). `ImplementsLedger` is
the refinement with the numbers and reservations of the sheet's message;
`NestedFieldsKeepNumbers` says the same of nested messages, for sheets in which no
two fields share a type (in `stages`), and is violated without this condition
(`numbers_shared`). Three generations of three fields: one to drop a field, one to
see its number not given again; numbers to nine are never exhausted.

Proved (`StageProofs`), for any schemas, messages, fields and number of generations:
`NumbersTypeCorrect`; `NumbersAreDistinct`, that no two fields of a message are ever
written with one number and none with a reserved one; `NumbersImplementLedger`
(`ImplementsLedger`), step by step; and `MeaningKept`, that no number of the sheet's
message ever stands for two names. The invariant of the loop is `NumberingOf`: the
fields behind have numbers, those of the last generation or new ones that are
neither used nor reserved, and all new ones count as used; that of the generations
`LedgerOf`: a number once given is that of its name or is reserved.

`NestedKept` proves `NestedFieldsKeepNumbers` from the condition that no two fields
of a sheet share a nested message (`Unshared`), which the sheets of `stages` meet and
those of `numbers_shared` do not. Its invariant, `NestedInv`: a nested message that is
under way or done is that of one field of the sheet, and keeps the numbers of the old
message that was found by this field's number. When the file is written, the condition
makes this field the one that stayed, whose old number is no other field's.

### Values

Numbers with and without a point, of two widths (`Half32` and `Half64` numbers are
negative), their ranges and signs; fractions by ten-thousandths; versions by the parts of a pattern and of two
texts. `ValuesKeepMeaning`: a number that is accepted is the one written, cut off at
the point, and within its range; of two versions accepted the smaller has the smaller
integer; a fraction is the one written or one ten-thousandth less, in lowest decimal
terms. Widths of two and four bits with numbers to nine, ranges with
limits of either sign, three parts to two, all fractions to 0.03: both
widths overflow and round on either side.

Proved (`ValuesMeanWhatIsWritten` of `StageProofs`), for any widths, limits, patterns
and cells: `ValuesKeepMeaning`. `PatternCounts` is what `PatternFits` computes: the
numbers that a prefix of the parts can count, none above 64 bits. So the modulo in
`VersionValue` never bites (`ModuloSame`), and the integer of a version is a sum over its
parts that stays below that count (`VersionSums`). At the first part where two versions
differ the sums do, by one at least, which all parts after it cannot make up for
(`SmallerSums`). `NumberAccepted` and `FractionAccepted` are arithmetic on
one cell.

Seen: the number of an enum value is `int32(val)` of what may be out of range; "NaN"
passes the range check of an int32; "1.5" gives 1; decimals beyond four are cut off,
and 0.0003 gives 2/10000 because of the double's error (value.go:390).

### InnerMessages

A struct or union of a record, in one cell, in columns or in the nodes of a
document. A step is a row read into the record (`ReadInnerRow`); before the first
one the cases of a union are declared (`DeclareCase`). The enum of a union is
looked up by name, number or alias, and `aliasesRead` is the process-wide cache of
the aliases. `InnerAsWritten`: an accepted row that gives a value gives that of
the record, and the same row is accepted whatever was read before it. Two cases of
three kinds, cells of up to two parts, a column that may be missing, rows as long
as they and the cases count no more than four.

Seen: two cases with the same alias are an error (E2021) for the first lookup only,
later ones find the cache (enum.go:29-50); a scalar case with an empty cell drops the
whole union, its type too (table_parser.go:795), and its column may never be missing,
even if optional (:791); a scalar case in a document always fails; the first blank of
an in-cell list is passed over.

### Storing

The confs of a main workbook and of one scattered, or of merged ones:
`StoreMessage` validates the message of a workbook or patches it in a dry run,
`Store` writes it in one of its formats, for the scattered workbooks in any order,
one goroutine each. `ExportsAreLoadable`: when the jobs are over, what a
workbook's conf loads as, from every format, is what was meant, or nothing where
it was refused. Settings (options, formats, zone, fields) up to four, and samples
that have blanks, empty values and a time on either side of a change of the zone's
offset.

Proved (`ExportsLoad` of `StageProofs`), for any workbooks, options, formats, messages
and zones: `ExportsAreLoadable`. What is marshalled and told is unmarshalled as it was
(`MarshalTold`; for JSON by the keys that are written, `JSONOut`, and the two names by
which each is found, `JSONTold`); `OutInv` says of each job that what it has written is
there, that it failed for a reason, and that no scattered workbook begins before
the main one is done (`JobInv`), and of each file that it is what some workbook
of that name marshals to (`FileInv`), since others may overwrite it. The settings do
not change once the export has begun (`Frozen`). `StoringAssumption`: the main workbook
is one of them, times and offsets are integers.

Seen: plain text collapses repeated blanks inside of a text (marshal.go:131); scattered
confs of workbooks with the same name overwrite each other (parser.go:54); patch-merge
confs are not validated; a format that fails leaves the earlier ones written; an offset
with seconds is printed without them (jsonutil.go:24), so that the time changes; in a
dry run a timestamp patched with the epoch leaves the old seconds.

### Patching and Loading

`Patching` is `PatchMessage` field kind by field kind. `Loading` sets options for all
messages or one, files that exist and what they set, and then loads: from conf files
with patches by path or directory, or from workbooks with the scatter and merger ones.
`LoadedAsPatched` compares with layers applied one on the other, and says when loading
must fail, and that loading again changes nothing. Two patches, three values set in
them, two options: what a patch of a patch and an option of one message over
another for all need.

Proved (`LoadedInLayers` of `StageProofs`), for any number of patches and any keys of the
map, if patches are counted by a natural number: `LoadedAsPatched`. `LoadingInv` has the
types of options and files and says that fields are replaced only where patches are
merged. The core is `LayeredAppend`: a message of which layers gave everything, patched
with one layer more, is what the longer sequence gives, field by field and with each field
replaced or not. With `PatchIntoEmpty` (a patch into nothing is the layer itself) and
`MergeIsPatch` (merging messages that share no key is patching without replacing),
`PatchSteps` and `MergeSteps` follow the two folds, `PatchAllGives` and `MergeAllGives`
say what they end in and when they fail. `OrderFacts` says that an order of finite files
has each once, so that merged workbooks are compared pair by pair in any order of arrival.
The second load (`ConfAgain`) gives the same because it starts from a file, the main one
or a patch that replaces it, and `LoadMessager` leaves nothing of the message before.

Seen: the importers of a scatter sheet are in no order (importer.go:90 ranges over a
map) though load.go:231 loads them "in order"; in the mode that loads patches only the
message is not reset; loading workbooks into a message that is not empty doubles its
lists; of two rewrites of a directory that both match the order of a map decides;
`LocationName` "" cannot override and means the local zone, though its comment says UTC.

### ErrorValues

Errors made, wrapped with messages, fields, codes and stacks, and joined, in any order
of five calls. `ErrorsDescribed`: the description has one entry per leaf in their
order, with the innermost labels; the text and the description mention each once;
stacks are taken once. Five calls are two errors, a wrap of each and a join.

Seen: the message of a `Wrapf` is not in the description of joined or structured
errors; fields around the mark of `Collector.Join` do not reach the text of `Error()`
though the comment of `renderWithFields` says they propagate; a message is rendered
twice by `i18n.RenderMessage`.

## Runs

| run | asks | answer |
|---|---|---|
| `collector_tree` | `BudgetRespected`, `NothingLostWithinBudget`, `JoinExact` | a three-level tree keeps its budgets, loses nothing before one is used up and joins every error once, in every interleaving of two goroutines |
| `confgen_both` | `SuccessMeansComplete`, `TaintedOnlyWhenFull`, `MissingIsReported`, `CleanSheetsExported`, `Terminates` | holds for two workbooks with merged and scattered sheets, under any faults |
| `confgen_skipped` | `SkippedRowsFail` | violated: rows skipped for a full ancestor count as parsed |
| `refer_one` | `LoadedOnce`, `AnswersAsIfRead`, `EveryCheckAnswered` | the cache implements `ReferLookup` |
| `protogen_any` | `SecondPassKnowsAll`, `SuccessMeansComplete`, `PartialOnlyWhenFull`, `SoundRunsSucceed`, `Terminates` | holds for nested directories of type sheets, tables and documents |
| `protogen_conflict` | `NoOverwrite` | violated: the conflict check is made before the lock |
| `rows` | `RowIsReference`, `ValuesUnique`; `KeysDistinct`, `KeysInSequence`, `TagsChecked`, `RowsKept`, `RepeatedKeyFails`, `RowTouchesOneRecord` | the loops over a row's items do what `RowItems` says; the records of three rows keep their properties |
| `row_holes` | `HolesRefused` | violated: two loops overlook an empty item |
| `stages` | one property of each stage, and the refinements `ImplementsLedger` and `MergeIsKeyedUnion` | every stage does what its reference says |
| `header_rows` | `HeadersAgreeAlways` | violated: options of the workbook are unknown to confgen |
| `numbers_shared` | `NestedFieldsKeepNumbers` | violated if two fields share a nested type |
| `subdirs_twice` | `FoundWhereIndexed` | violated: a directory is rewritten twice |

The bounds are in the sections above. Deadlock is checked where a system runs until
it is done (`collector_tree`, `confgen_*`, `refer_one`, `protogen_*`, `stages`, where
every stage may end by stuttering); the rows, the numbers and the index just end.

Fairness is stated where the code runs goroutines: weak fairness for each of them
and for the caller, in `ConfGen`, `ProtoGen` and `ReferredCache`. The Go scheduler
runs every goroutine that can go on, and no step waits for a person. A step that
waits, for a wait group, a group or the cache's lock, is enabled for good once
what it waits for has ended, or competes for the lock only with checks that each
load once, so that no strong fairness is needed. The sequential stages have no
fairness: nobody must add a column.

## What the runs found

Six runs are counterexamples of what a comment or document of the repository says;
PROJECT.json quotes each.

- `internal/confgen/table_parser.go:43`: the parser returns early with its own `Join`
  when any collector above is full, and this is nil if the errors are elsewhere, so
  that a sheet with skipped rows is exported as complete.
- `internal/protogen/exporter.go:141`: the proto file's existence is checked before
  the file lock is taken, so that two workbooks of a proto path both pass.
- `internal/confgen/parser.go:809`: an in-cell list checks "that no empty elements are
  existed in begin or middle", but remembers the first empty one by an index of which 0
  means none, so that an empty element in the beginning is passed over.
- `internal/confgen/table_parser.go:248`: a horizontal map should "guarantee that all
  the remaining items are not present", but an empty item ends its loop before that check
  if the map has the key 0.
- `internal/importer/book/tableparser/header.go:8`: header options of the row `#` are
  merged in protogen only; confgen reads names, types and data from other rows.
- `internal/protogen/exporter.go:406`: a nested message is numbered from nothing if a
  new column of its type is put before the old one.
- `internal/confgen/confgen.go:276`: the workbook's directory is rewritten by
  `SubdirRewrites` once by `convert` and again by the specifiers' importers.

What was seen while modelling and is stated by a property's exception or left out is
at the end of each section. Further, where no run covers it: a second `Generate` on
one generator finds the errors and importers of the first (protogen.go:84); advanced mode
takes types from files generated earlier, also those of a workbook since removed
(protogen.go:142); a joined error that two sheets return has one outer label, and the
last wrap wins (confgen.go:247); entries of an aggregated map are added in undefined
order until one repeats a key (table_parser.go:304 of confgen).

## Proofs

Proved by TLAPS, for every value of the constants that meets the modules' assumptions:

| module | theorems |
|---|---|
| `ErrorCollectorProofs` | `TypeCorrect`, `BudgetHolds`, `NothingLost`, `JoinIsExact` |
| `ConfGenProofs` | `TypeCorrect`, `TaintedConfs`, `NothingMissesSilently`, `SuccessComplete`, `CleanSheets` |
| `ProtoGenProofs` | `TypeCorrect`, `TwoPassesSuffice`, `PartialFiles`; and, for workbooks with proto paths of their own, `SuccessComplete`, `NothingWrongSucceeds` |
| `ReferredCacheProofs` | `CacheTypeCorrect`, `LoadsAreSingle`; and, for one generator per process, `CacheFaithful`, `CacheImplementsLookup` |
| `MergeReduceProofs` | `TypeCorrect`, `MergeFaithful`, `DuplicateNamed`, `MergeImplementsUnion` |
| `RowFieldProofs` | `TypeCorrect`, `UniqueValues`, `RowReference` |
| `TableParserProofs` | `TypeCorrect`, `KeysAreDistinct`, `SequenceHolds`, `TagsHold`, `RepeatsFail`, `RowsAreKept`, `OneRecordTouched` |
| `StageProofs` | `NumbersTypeCorrect`, `NumbersAreDistinct`, `NumbersImplementLedger`, `MeaningKept`, `IndexExact`, `RowsKeepMeaning`, `HeadersOfBoth`, `ExportsLoad`, `BooksAsNamed`, `ValuesMeanWhatIsWritten`, `LoadedInLayers`; and, for sheets whose fields share no nested type, `NestedKept` |

The inductive invariants and the arguments are in the sections of the components.
Facts about sequences that would be proved by induction over their length are
proved by the least index at which they would fail, which exists by well-foundedness
of the naturals. Folds over sequences are proved about the same way, once for all of
them: the library's `FoldLeft` is a recursive function over sets of positions,
`FoldExists` and `FoldUnique` say that there is exactly one such function, and `FoldSteps`
that it takes its steps in the order of the positions, so that a claim about the
accumulator needs to be shown for the first position and from one to the next
(`AllPositions`).

Only model-checked:

- liveness under fairness (`Terminates` of both generators, `EveryCheckAnswered`),
  which is out of the prover's reach;
- `HeaderIsUnderstood`, `TypesExported`, `TransposeIsInvisible`,
  `DocumentReadAsWritten`, `ErrorsDescribed` and `InnerAsWritten`: what recursive
  descents compute for every header, table, document, error and cell, written with
  `RECURSIVE` operators as the code recurses (`Headers`, `SheetHeaders`, `TypeSheets`,
  `DocNodes`, `DocumentSheets`, `ErrorValues`, `InnerMessages`);
- the absence of deadlock.

## Not modelled

- Characters: cases of names (`strcase`), the texts of types, notes, comments,
  messages and their translations, the layout of generated and exported files.
- Libraries: the readers of Excel, CSV, XML and YAML, protobuf's encoding and its JSON,
  the parser of proto files; what the code in `src/` uses of them is in the models of
  those who use it.
- Command line, options' defaults and logging; file system faults except those that
  end a sheet, a directory or a proto file in `ConfGen` and `ProtoGen`.
- Times, durations, floats, strings and bytes as values of cells.
- Panics: no goroutine recovers from one.
- Crashes: nothing is persisted but the output, which the next run writes again.
- The functions a user hands to `load` for reading or loading.

## Plan

Done: the collector, both generators with their shared state, the cache of value
spaces, the merge; rows and records; the stages from the file to the message and
back; and theorems about every concurrent component, the rows, and every stage whose
operators are not recursive.

Left is what TLAPS cannot reach (see "Only model-checked"). If its provers come to
take `RECURSIVE` operators and induction over trees, `InnerAsWritten` and
`ErrorsDescribed` are the first to try: their descents follow one finite tree.

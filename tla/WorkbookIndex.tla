--------------------------- MODULE WorkbookIndex ---------------------------
(***************************************************************************)
(* Which proto files are converted for a workbook (GenWorkbook of          *)
(* internal/confgen/confgen.go, buildWorkbookIndex of its util.go). A      *)
(* proto file names its primary workbook, and its sheet the workbooks that *)
(* are merged or scattered (importer/importer.go); directories are         *)
(* filtered and rewritten on the way (x/xfs/util.go).                      *)
(*                                                                         *)
(* A directory is a sequence of pieces of its text, so that one of them    *)
(* may begin with another one without holding it. A specifier is the names *)
(* that its glob pattern matches.                                          *)
(***************************************************************************)
EXTENDS Integers, Sequences, FiniteSets, SequencesExt

CONSTANTS ProtoNames, \* the proto files that there may be
          BookDirs,   \* directories that proto files and options name
          BookFiles,  \* the workbooks that exist, [dir, name]
          PrimaryNames, \* the names of primary workbooks
          Patterns,   \* the names that a specifier may match
          MaxFacts,   \* bound: proto files, rewrites and the filter, and the
                      \* workbooks but one that GenWorkbook is called with
          MaxAsked    \* bound: of these

VARIABLES protos,    \* of each proto file described: its book and the sheet's options
          rewrites,  \* SubdirRewrites, of which no two match one path
          subdirs,   \* Subdirs: all if empty
          ignoring,  \* IgnoreUnknownWorkbook
          asked,     \* the workbooks that GenWorkbook is called with
          taken,     \* how many of them it has looked up
          running,   \* running[p]: conversions of p under way
          converted, \* converted[p]: those that are over
          result     \* of GenWorkbook: "none" until it returns

describing == <<protos, rewrites, subdirs>>
indexVars == <<describing, ignoring, asked, taken, running, converted, result>>

BookAt(dir, name) == [dir |-> dir, name |-> name]

InitIndex ==
  /\ protos = <<>> /\ rewrites = {} /\ subdirs = {}
  /\ ignoring = FALSE /\ asked = <<>> /\ taken = 0
  /\ running = [p \in ProtoNames |-> 0] /\ converted = [p \in ProtoNames |-> 0]
  /\ result = "none"

\* HasSubdirPrefix, by text.
HasSubdirPrefix(book) == subdirs = {} \/ \E s \in subdirs : IsPrefix(s, book.dir)

\* RewriteSubdir: the beginning of the path is replaced, by text.
RewriteSubdir(book) ==
  LET matching == {r \in rewrites : IsPrefix(r.old, book.dir)}
      r == CHOOSE r \in matching : TRUE
  IN IF matching = {} THEN book
     ELSE [book EXCEPT !.dir = r.new \o SubSeq(@, Len(r.old) + 1, Len(@))]

\* ResolveSheetSpecifier: found beside the primary workbook.
Resolve(primary, names) == {b \in BookFiles : b.dir = RewriteSubdir(primary).dir /\ b.name \in names}

SpecifiersOfMerger(p) == protos[p].merger

\* The specifiers of the sheet that count for the index: of one option.
SpecifiersOf(p) == IF protos[p].merger # {} THEN protos[p].merger ELSE protos[p].scatter

Considered(p) == HasSubdirPrefix(protos[p].book)

\* buildWorkbookIndex: the proto files of a workbook, primary or not.
IndexedBooks(p) == {RewriteSubdir(protos[p].book)}
                     \cup UNION {Resolve(protos[p].book, names) : names \in SpecifiersOf(p)}
Get(book) == {p \in DOMAIN protos : Considered(p) /\ book \in IndexedBooks(p)}
BuildFails == \E p \in DOMAIN protos : Considered(p) /\ \E names \in SpecifiersOf(p) :
                 Resolve(protos[p].book, names) = {}

\* processScatter, processMerger: the primary workbook's name is rewritten here.
ImportersOf(p, specifiers) ==
  UNION {Resolve(RewriteSubdir(protos[p].book), names) : names \in specifiers}

\* convert: the workbooks it opens, and whether it fails.
HasBoth(p) == protos[p].scatter # {} /\ protos[p].merger # {}

BooksRead(p) ==
  IF ~Considered(p) THEN {}
  ELSE {RewriteSubdir(protos[p].book)}
         \cup (IF HasBoth(p) THEN {} ELSE ImportersOf(p, protos[p].scatter \cup protos[p].merger))

\* Of the filters before the workbook is opened the directory's is in Considered;
\* every format is converted here, and GenWorkbook is asked for whole workbooks,
\* without the name of a sheet behind them.
ConvertFails(p) ==
  /\ Considered(p)
  /\ \/ RewriteSubdir(protos[p].book) \notin BookFiles
     \/ HasBoth(p)
     \/ \E names \in protos[p].scatter \cup protos[p].merger :
          Resolve(RewriteSubdir(protos[p].book), names) = {}
-----------------------------------------------------------------------------
Facts == Cardinality(DOMAIN protos) + Cardinality(rewrites) + Cardinality(subdirs)
Describing == asked = <<>> /\ Facts < MaxFacts /\ UNCHANGED <<ignoring, asked, taken, running, converted, result>>

\* The proto files are described in order, which no outcome depends on.
Describe(p, book, merger, scatter) ==
  /\ Describing
  /\ (merger # {} /\ scatter # {}) => merger = scatter
  /\ protos' = Append(protos, [book |-> book, merger |-> merger, scatter |-> scatter])
  /\ p = Len(protos')
  /\ UNCHANGED <<rewrites, subdirs>>

AddRewrite(old, new) ==
  /\ Describing
  /\ \A r \in rewrites : ~IsPrefix(r.old, old) /\ ~IsPrefix(old, r.old)
  /\ rewrites' = rewrites \cup {[old |-> old, new |-> new]}
  /\ UNCHANGED <<protos, subdirs>>

SetSubdir(dir) == Describing /\ subdirs = {} /\ subdirs' = {dir} /\ UNCHANGED <<protos, rewrites>>

CallGenWorkbook(books, ignore) ==
  /\ asked = <<>> /\ Facts + Len(books) - 1 <= MaxFacts
  /\ asked' = books /\ ignoring' = ignore
  /\ result' = IF BuildFails THEN "failed" ELSE "none"
  /\ UNCHANGED <<describing, taken, running, converted>>

\* Each proto file of the workbook is converted by a goroutine. An unknown
\* workbook ends the call, whose goroutines are left alone.
TakeBook ==
  /\ result = "none" /\ taken < Len(asked)
  /\ taken' = taken + 1
  /\ LET found == Get(asked[taken'])
     IN /\ running' = [p \in ProtoNames |-> running[p] + (IF p \in found THEN 1 ELSE 0)]
        /\ result' = IF found = {} /\ ~ignoring THEN "failed" ELSE "none"
  /\ UNCHANGED <<describing, ignoring, asked, converted>>

EndConvert(p) ==
  /\ running[p] > 0
  /\ running' = [running EXCEPT ![p] = @ - 1]
  /\ converted' = [converted EXCEPT ![p] = @ + 1]
  /\ UNCHANGED <<describing, ignoring, asked, taken, result>>

WaitAll ==
  /\ result = "none" /\ asked # <<>> /\ taken = Len(asked)
  /\ \A p \in ProtoNames : running[p] = 0
  /\ result' = IF \E p \in ProtoNames : converted[p] > 0 /\ ConvertFails(p) THEN "failed" ELSE "done"
  /\ UNCHANGED <<describing, ignoring, asked, taken, running, converted>>

SpecifierChoices == {{}} \cup {{names} : names \in Patterns}
SomeBooks == UNION {[1..n -> BookFiles] : n \in 1..MaxAsked}

NextIndex ==
  \/ \E p \in ProtoNames, dir \in BookDirs, name \in PrimaryNames, merger, scatter \in SpecifierChoices :
       Describe(p, BookAt(dir, name), merger, scatter)
  \/ \E old, new \in BookDirs : old # new /\ AddRewrite(old, new)
  \/ \E dir \in BookDirs : SetSubdir(dir)
  \/ \E books \in SomeBooks, ignore \in BOOLEAN : CallGenWorkbook(books, ignore)
  \/ TakeBook \/ WaitAll
  \/ \E p \in ProtoNames : EndConvert(p)

SpecIndex == InitIndex /\ [][NextIndex]_indexVars
-----------------------------------------------------------------------------
\* Rewriting what is rewritten changes nothing.
RewritesOnce ==
  \A p \in DOMAIN protos :
    LET book == RewriteSubdir(protos[p].book) IN RewriteSubdir(book) = book

NumberAsked(p) == Cardinality({i \in DOMAIN asked : asked[i] \in BooksRead(p)})

(* A workbook is looked up for exactly the proto files whose conversion     *)
(* reads it, and a call that succeeds has converted each of these as often  *)
(* as it was asked for one of its workbooks, no other one, and none of them *)
(* is still under way: if no path that is rewritten once could be again.    *)
IndexIsExact ==
  RewritesOnce =>
    /\ \A p \in DOMAIN protos : ~HasBoth(p) =>
         \A b \in BookFiles : p \in Get(b) <=> b \in BooksRead(p)
    /\ result = "done" =>
         \A p \in DOMAIN protos : running[p] = 0 /\ converted[p] = NumberAsked(p)

(* The conversion looks for the further workbooks of a sheet where the      *)
(* index found them, "relative to workbook name option in proto file", and  *)
(* the names of workbooks are rewritten once.                               *)
FoundWhereIndexed ==
  \A p \in DOMAIN protos :
    (Considered(p) /\ ~HasBoth(p)) => BooksRead(p) = IndexedBooks(p)
=============================================================================

--------------------------- MODULE ProtoGenProofs ---------------------------
(***************************************************************************)
(* Theorems about ProtoGen, for any workbooks, directories, budgets and    *)
(* faults: what the second pass knows and what the report of a run says of *)
(* the files it wrote.                                                     *)
(***************************************************************************)
EXTENDS ProtoGen, TLAPS

Modes == {"all", "default", "normal", "advanced"}
Phases == {"walk", "start", "wait1", "second", "wait2", "done"}
PCs == {"off", "open", "sheet", "extract", "fields", "collect", "export", "write", "over"}
Outcomes == {"ok", "plain", "joined"}
Pages == DOMAIN Kind

TypeOK ==
  /\ input \in Inputs /\ phase \in Phases /\ result \in Outcomes
  /\ stack \in Seq(Dirs \X Nat)
  /\ pc \in [Books -> PCs] /\ pass \in [Books -> {1, 2}]
  /\ idx \in [Books -> Nat \ {0}] /\ fld \in [Books -> Nat \ {0}]
  /\ sres \in [Books -> Outcomes] /\ worksheets \in [Books -> SUBSET Pages]
  /\ types \subseteq Types /\ cached \subseteq Books
  /\ files \in [Paths -> [book : Books \cup {Root}, sheets : SUBSET Pages]]
  /\ count \in [Nodes -> Nat] /\ kept \in [Nodes -> Nat]

RootFull == count[Root] >= MaxErrors
-----------------------------------------------------------------------------
(* The invariant.                                                           *)

\* A workbook counts no more than the generator, a sheet at work no more than its
\* workbook, and nobody stores more than it counts; the generator stores its first
\* error.
CollInv ==
  /\ \A n \in Nodes : kept[n] <= count[n]
  /\ \A b \in Books : /\ count[b] <= count[Root]
                      /\ pc[b] \in {"extract", "fields"} => count[SheetOf(b)] <= count[b]
  /\ count[Root] > 0 => kept[Root] > 0

\* The passes that read the fields of a sheet, and write files.
Writes(b) == b \in Documents \/ pass[b] = 2

\* Where a workbook's goroutine can be.
ControlOf(b) ==
  /\ pc[b] \in {"extract", "fields", "collect"} => idx[b] <= Len(SheetsOf[b])
  /\ pc[b] \in {"export", "write"} => idx[b] > Len(SheetsOf[b]) /\ count[b] = 0 /\ Writes(b)
  /\ pc[b] = "extract" => ~Writes(b) /\ Kind[Current(b)] # "default"
  /\ pc[b] = "fields" => Writes(b)
  /\ b \in Documents /\ pass[b] = 2 => pc[b] \in {"open", "over"}
  /\ pass[b] = 2 => pc[b] # "off"
ControlInv == \A b \in Books : ControlOf(b)

\* A sheet that was passed is in the workbook, unless an error was counted at the
\* workbook or the generator's budget is used up.
SheetsDone(b) ==
  /\ worksheets[b] \subseteq SheetSet(b)
  /\ Writes(b) /\ pc[b] \notin {"off", "open", "over"} =>
       \A k \in DOMAIN SheetsOf[b] : k < idx[b] =>
         SheetsOf[b][k] \in worksheets[b] \/ count[b] > 0 \/ RootFull
  /\ Writes(b) /\ pc[b] = "collect" =>
       Current(b) \in worksheets[b] \/ count[b] > 0 \/ RootFull \/ sres[b] = "plain"
FilesInv ==
  \A p \in Paths : files[p] # NoFile =>
    files[p].book \in Books /\ (files[p].sheets = SheetSet(files[p].book) \/ RootFull)

\* The types of the type sheets that the first pass is past are registered, unless
\* an error was counted.
Registered(s) == Kind[s] # "default" => ToSet(Declares[s]) \subseteq types
TypesDone(b) ==
  b \notin Documents /\ pass[b] = 1 =>
    /\ pc[b] \notin {"off", "open", "over"} =>
         \A k \in DOMAIN SheetsOf[b] : k < idx[b] => Registered(SheetsOf[b][k]) \/ count[Root] > 0
    /\ pc[b] = "extract" =>
         \A l \in DOMAIN Declares[Current(b)] : l < fld[b] => Declares[Current(b)][l] \in types
    /\ pc[b] = "collect" => Registered(Current(b)) \/ count[Root] > 0
    /\ pc[b] = "over" => DeclaredBy(b) \subseteq types \/ count[Root] > 0
    /\ pc[b] \notin {"off", "open"} /\ SheetsOf[b] # <<>> => b \in cached \/ count[Root] > 0
WorkInv ==
  /\ input.known \subseteq types
  /\ cached \cap Documents = {} /\ \A b \in cached : pc[b] # "off"
  /\ FilesInv /\ \A b \in Books : SheetsDone(b) /\ TypesDone(b)

\* The walk: the directories of F are finished, those on the stack are at work, and
\* what has been started is listed at or before the entry each is at.
OnStack(st, d) == \E j \in DOMAIN st : st[j][1] = d
Reached(st, e, F) ==
  \/ \E d \in F : \E k \in DOMAIN Entries[d] : Entries[d][k] = e
  \/ \E j \in DOMAIN st : \E k \in DOMAIN Entries[st[j][1]] :
       k <= st[j][2] /\ Entries[st[j][1]][k] = e
HasParent(st, j) ==
  \E i \in DOMAIN st : \E k \in DOMAIN Entries[st[i][1]] :
    i < j /\ k <= st[i][2] /\ Entries[st[i][1]][k] = st[j][1]
Settled(st, pcs, e, F) == e \in F \/ OnStack(st, e) \/ (e \in Books /\ pcs[e] # "off")
WalkOf(st, pcs, F) ==
  /\ \A j \in DOMAIN st : st[j][2] <= Len(Entries[st[j][1]]) /\ st[j][1] \notin F
  /\ \A i, j \in DOMAIN st : st[i][1] = st[j][1] => i = j
  /\ \A j \in DOMAIN st : st[j][1] \in ToSet(TopDirs) \/ HasParent(st, j)
  /\ \A t \in ToSet(TopDirs) : t \in F \/ OnStack(st, t)
  /\ \A d \in F : d \in ToSet(TopDirs) \/ Reached(st, d, F)
  /\ \A d \in F : \A k \in DOMAIN Entries[d] :
       Entries[d][k] \in F \/ (Entries[d][k] \in Books /\ pcs[Entries[d][k]] = "over")
  /\ \A j \in DOMAIN st : \A k \in DOMAIN Entries[st[j][1]] :
       k <= st[j][2] => Settled(st, pcs, Entries[st[j][1]][k], F)
  /\ \A b \in Books : pcs[b] # "off" => Reached(st, b, F)
WalkInv ==
  phase = "walk" =>
    /\ input.mode \in {"all", "normal"}
    /\ \E F \in SUBSET Dirs : WalkOf(stack, pc, F)
    /\ stack = <<>> => count[Root] = 0

\* What the caller relies on between its phases.
CallerInv ==
  /\ phase \in {"start", "wait1", "second"} => input.mode \in {"default", "advanced"}
  /\ phase = "start" => \A b \in Books : pc[b] = "off"
  /\ phase = "wait1" => \A b \in input.asked : pc[b] # "off"
  /\ phase = "second" => Over(Books) /\ \A b \in input.asked : pc[b] = "over"
  /\ phase \in {"walk", "start", "wait1", "second"} => \A b \in Books : pass[b] = 1
  /\ phase = "done" /\ result = "ok" => count[Root] = 0 /\ Over(Books)
  /\ \A b \in Books : pass[b] = 2 => Declared(Scanned) \subseteq types

BaseInv == TypeOK /\ CollInv /\ ControlInv /\ WorkInv
IInv == BaseInv /\ WalkInv /\ CallerInv /\ SecondPassKnowsAll

\* No two workbooks are written to one file; and GenWorkbook's second pass is
\* asked for workbooks of the input directory.
DistinctPaths == \A a, b \in Books : ProtoPath[a] = ProtoPath[b] => a = b
AskedAreListed == \A in \in Inputs : in.mode = "normal" => in.asked \subseteq Listed

\* The file of a workbook that was converted is complete, unless an error was
\* counted.
CompleteOf(b) ==
  SheetsOf[b] # <<>> =>
    /\ b \in Documents /\ (pass[b] = 2 \/ pc[b] = "over") => Complete(b) \/ count[Root] > 0
    /\ b \notin Documents /\ pass[b] = 2 /\ pc[b] = "over" => Complete(b) \/ count[Root] > 0
WantedInv ==
  /\ phase \in {"wait2", "done"} /\ (phase = "done" => result = "ok") =>
       \A b \in Wanted : SheetsOf[b] # <<>> =>
         pass[b] = 2 \/ (b \in Documents /\ pc[b] # "off") \/ count[Root] > 0
CompleteInv == WantedInv /\ \A b \in Books : CompleteOf(b)

\* A run with nothing wrong counts no error.
FreshOf(b) ==
  input.mode = "all" /\ files[ProtoPath[b]] # NoFile => pc[b] = "over" /\ Writes(b)
SoundInv ==
  /\ \A b \in Books : FreshOf(b)
  /\ \A b \in Books : pc[b] # "off" => b \in Scanned
  /\ Sound => /\ count[Root] = 0 /\ \A b \in Books : sres[b] # "plain"
              /\ phase = "done" => result = "ok"
-----------------------------------------------------------------------------
(* Sheets, nodes and limits.                                                *)

LEMMA LimitFacts ==
  MaxErrors \in Nat \ {0} /\ MaxErrorsPerBook \in Nat \ {0} /\ MaxErrorsPerSheet \in Nat \ {0}
  BY StructureAssumption

LEMMA NodeFacts ==
  /\ Root \in Nodes /\ Books \subseteq Nodes /\ \A b \in Books : SheetOf(b) \in Nodes
  /\ Root \notin Books
  /\ \A b \in Books : SheetOf(b) # Root /\ SheetOf(b) \notin Books
  /\ \A b, c \in Books : SheetOf(b) = SheetOf(c) => b = c
  <1>1. Root \notin Books /\ \A b \in Books : SheetOf(b) # Root /\ SheetOf(b) \notin Books
    BY StructureAssumption, NamesAssumption
  <1>2. \A b, c \in Books : SheetOf(b) = SheetOf(c) => b = c
    BY DEF SheetOf
  <1>3. QED
    BY <1>1, <1>2 DEF Nodes

LEMMA PathFacts ==
  /\ Path(Root) = {Root}
  /\ \A b \in Books : Path(b) = {b, Root} /\ Path(SheetOf(b)) = {SheetOf(b), b, Root}
  <1>1. Path(Root) = {Root}
    BY DEF Path
  <1>2. ASSUME NEW b \in Books PROVE Path(b) = {b, Root}
    BY NodeFacts DEF Path
  <1>3. ASSUME NEW b \in Books PROVE Path(SheetOf(b)) = {SheetOf(b), b, Root}
    <2>1. SheetOf(b)[1] = b
      BY DEF SheetOf
    <2>2. QED
      BY <2>1, NodeFacts DEF Path
  <1>4. QED
    BY <1>1, <1>2, <1>3

LEMMA LimitsOfNodes ==
  /\ Limit(Root) = MaxErrors
  /\ \A b \in Books : Limit(b) = MaxErrorsPerBook /\ Limit(SheetOf(b)) = MaxErrorsPerSheet
  BY NodeFacts DEF Limit

LEMMA FullFacts ==
  ASSUME NEW b \in Books, NEW cnt
  PROVE  /\ IsFull(cnt, Root) <=> cnt[Root] >= MaxErrors
         /\ IsFull(cnt, b) <=> cnt[b] >= MaxErrorsPerBook \/ cnt[Root] >= MaxErrors
         /\ IsFull(cnt, SheetOf(b)) <=> \/ cnt[SheetOf(b)] >= MaxErrorsPerSheet
                                        \/ cnt[b] >= MaxErrorsPerBook \/ cnt[Root] >= MaxErrors
  BY PathFacts, LimitsOfNodes DEF IsFull

LEMMA PageFacts ==
  ASSUME NEW b \in Books
  PROVE  /\ SheetsOf[b] \in Seq(Pages) /\ Len(SheetsOf[b]) \in Nat
         /\ DOMAIN SheetsOf[b] = 1..Len(SheetsOf[b])
         /\ SheetSet(b) \subseteq Pages
         /\ \A k \in DOMAIN SheetsOf[b] : SheetsOf[b][k] \in SheetSet(b) /\ SheetsOf[b][k] \in Pages
         /\ \A s \in Pages : /\ Declares[s] \in Seq(Types) /\ Len(Declares[s]) \in Nat
                             /\ DOMAIN Declares[s] = 1..Len(Declares[s])
                             /\ Len(Fields[s]) \in Nat /\ DOMAIN Fields[s] = 1..Len(Fields[s])
  <1>1. SheetsOf[b] \in Seq(Pages) /\ \A s \in Pages : Declares[s] \in Seq(Types) /\ Fields[s] \in Seq(Types \cup {Scalar})
    BY StructureAssumption DEF Pages
  <1>2. SheetSet(b) = {SheetsOf[b][k] : k \in DOMAIN SheetsOf[b]}
    BY DEF SheetSet, ToSet
  <1>3. /\ Len(SheetsOf[b]) \in Nat /\ DOMAIN SheetsOf[b] = 1..Len(SheetsOf[b])
        /\ \A k \in DOMAIN SheetsOf[b] : SheetsOf[b][k] \in Pages
    BY <1>1
  <1>4. ASSUME NEW s \in Pages
        PROVE  /\ Len(Declares[s]) \in Nat /\ DOMAIN Declares[s] = 1..Len(Declares[s])
               /\ Len(Fields[s]) \in Nat /\ DOMAIN Fields[s] = 1..Len(Fields[s])
    <2>1. Declares[s] \in Seq(Types) /\ Fields[s] \in Seq(Types \cup {Scalar})
      BY <1>1
    <2>2. QED
      BY <2>1
  <1>5. QED
    BY <1>1, <1>2, <1>3, <1>4

LEMMA CurrentFacts ==
  ASSUME TypeOK, NEW b \in Books, idx[b] <= Len(SheetsOf[b])
  PROVE  idx[b] \in DOMAIN SheetsOf[b] /\ Current(b) \in SheetSet(b) /\ Current(b) \in Pages
  <1>1. idx[b] \in DOMAIN SheetsOf[b]
    BY PageFacts DEF TypeOK
  <1>2. QED
    BY <1>1, PageFacts DEF Current
-----------------------------------------------------------------------------
(* What a workbook's goroutine does to the collectors.                      *)

\* The collectors of the others stay; the generator's only counts up.
CollStep(b) ==
  /\ count' \in [Nodes -> Nat] /\ kept' \in [Nodes -> Nat]
  /\ \A n \in Nodes : kept'[n] <= count'[n]
  /\ \A c \in Books \ {b} : count'[c] = count[c] /\ count'[SheetOf(c)] = count[SheetOf(c)]
  /\ count[Root] <= count'[Root] /\ count'[b] <= count'[Root]
  /\ count'[Root] > 0 => kept'[Root] > 0

LEMMA CollUnchanged ==
  ASSUME TypeOK, CollInv, UNCHANGED collVars, NEW b \in Books
  PROVE  CollStep(b) /\ count' = count /\ kept' = kept
  <1>1. count' = count /\ kept' = kept
    BY DEF collVars
  <1>2. count' \in [Nodes -> Nat] /\ kept' \in [Nodes -> Nat]
    BY <1>1 DEF TypeOK
  <1>3. count[Root] \in Nat /\ count[b] \in Nat
    BY NodeFacts DEF TypeOK
  <1>4. QED
    BY <1>1, <1>2, <1>3 DEF CollStep, CollInv

LEMMA CollectSteps ==
  ASSUME TypeOK, CollInv, NEW b \in Books, NEW n \in {Root, b, SheetOf(b)}, NEW err \in Outcomes,
         Collect(n, err), n = SheetOf(b) => pc[b] \in {"extract", "fields"}
  PROVE  /\ CollStep(b) /\ count[b] <= count'[b]
         /\ err # "plain" => count' = count /\ kept' = kept
         /\ err = "plain" => count'[n] > 0 /\ count'[Root] > 0
         /\ err = "plain" /\ n = SheetOf(b) => count'[b] > 0
         /\ n = Root => count'[b] = count[b]
         /\ n = SheetOf(b) => count'[SheetOf(b)] <= count'[b]
  <1> DEFINE One(m) == IF m \in Path(n) THEN 1 ELSE 0
  <1>1. /\ \A m \in Nodes : count[m] \in Nat /\ kept[m] \in Nat /\ kept[m] <= count[m]
        /\ b \in Nodes /\ SheetOf(b) \in Nodes /\ Root \in Nodes /\ n \in Nodes
        /\ b # Root /\ SheetOf(b) # Root /\ SheetOf(b) # b
        /\ Path(n) \subseteq Nodes
        /\ Root \in Path(n) /\ n \in Path(n) /\ Path(n) \subseteq {SheetOf(b), b, Root}
        /\ SheetOf(b) \in Path(n) => n = SheetOf(b)
        /\ b \in Path(n) <=> n # Root
    <2>1. \A m \in Nodes : count[m] \in Nat /\ kept[m] \in Nat /\ kept[m] <= count[m]
      BY DEF TypeOK, CollInv
    <2>2. /\ b \in Nodes /\ SheetOf(b) \in Nodes /\ Root \in Nodes
          /\ b # Root /\ SheetOf(b) # Root /\ SheetOf(b) # b
      BY NodeFacts
    <2>3. /\ Path(Root) = {Root} /\ Path(b) = {b, Root} /\ Path(SheetOf(b)) = {SheetOf(b), b, Root}
      BY PathFacts
    <2>4. CASE n = Root
      BY <2>1, <2>2, <2>3, <2>4
    <2>5. CASE n = b
      BY <2>1, <2>2, <2>3, <2>5
    <2>6. CASE n = SheetOf(b)
      BY <2>1, <2>2, <2>3, <2>6
    <2>7. QED
      BY <2>4, <2>5, <2>6
  <1>2. CASE err # "plain"
    <2>1. count' = count /\ kept' = kept
      BY <1>2 DEF Collect
    <2>2. QED
      BY <1>1, <1>2, <2>1, NodeFacts DEF CollStep, CollInv, TypeOK
  <1>3. CASE err = "plain"
    <2>1. count' = [m \in Nodes |-> IF m \in Path(n) THEN count[m] + 1 ELSE count[m]]
      BY <1>3 DEF Collect
    <2>2. \/ /\ \A m \in Path(n) : count[m] < Limit(m)
             /\ kept' = [m \in Nodes |-> IF m \in Path(n) THEN kept[m] + 1 ELSE kept[m]]
          \/ /\ \E m \in Path(n) : ~(count[m] < Limit(m))
             /\ kept' = kept
      BY <1>3 DEF Collect
    <2>3. count' \in [Nodes -> Nat] /\ \A m \in Nodes : count'[m] = count[m] + One(m)
      BY <1>1, <2>1
    <2>4. kept' \in [Nodes -> Nat] /\ \A m \in Nodes : kept'[m] \in {kept[m], kept[m] + One(m)}
      <3>1. kept \in [Nodes -> Nat]
        BY DEF TypeOK
      <3>2. CASE kept' = kept
        BY <1>1, <3>1, <3>2
      <3>3. CASE kept' = [m \in Nodes |-> IF m \in Path(n) THEN kept[m] + 1 ELSE kept[m]]
        BY <1>1, <3>1, <3>3
      <3>4. QED
        BY <2>2, <3>2, <3>3
    <2>5. \A m \in Nodes : kept'[m] <= count'[m]
      BY <1>1, <2>3, <2>4
    <2>6. \A c \in Books \ {b} : count'[c] = count[c] /\ count'[SheetOf(c)] = count[SheetOf(c)]
      <3>1. \A c \in Books \ {b} : c \in Nodes /\ SheetOf(c) \in Nodes
                                   /\ c \notin Path(n) /\ SheetOf(c) \notin Path(n)
        BY <1>1, NodeFacts
      <3>2. QED
        BY <1>1, <2>1, <3>1
    <2>7. count[Root] <= count'[Root] /\ count'[Root] > 0 /\ count'[n] > 0
      BY <1>1, <2>3
    <2>8. count[b] <= count'[b] /\ count'[b] <= count'[Root] /\ (n = Root => count'[b] = count[b])
      BY <1>1, <2>3 DEF CollInv
    <2>9. n = SheetOf(b) => count'[b] > 0 /\ count'[SheetOf(b)] <= count'[b]
      <3>1. n = SheetOf(b) => count[SheetOf(b)] <= count[b]
        BY DEF CollInv
      <3>2. QED
        BY <1>1, <2>3, <3>1
    <2>10. kept'[Root] > 0
      <3>1. CASE count[Root] > 0
        BY <1>1, <2>4, <3>1 DEF CollInv
      <3>2. CASE ~(count[Root] > 0)
        <4>1. \A m \in Path(n) : count[m] = 0
          BY <1>1, <3>2 DEF CollInv
        <4>2. \A m \in Path(n) : Limit(m) \in Nat \ {0}
          BY <1>1, LimitsOfNodes, LimitFacts
        <4>3. \A m \in Path(n) : count[m] < Limit(m)
          BY <4>1, <4>2
        <4>4. kept'[Root] = kept[Root] + 1
          BY <1>1, <2>2, <4>3
        <4>5. QED
          BY <1>1, <4>4
      <3>3. QED
        BY <3>1, <3>2
    <2>11. QED
      BY <1>3, <2>3, <2>4, <2>5, <2>6, <2>7, <2>8, <2>9, <2>10 DEF CollStep
  <1>4. QED
    BY <1>2, <1>3

LEMMA NewCollectorSteps ==
  ASSUME TypeOK, CollInv, NEW b \in Books, NEW n \in {b, SheetOf(b)}, NewCollector(n)
  PROVE  /\ CollStep(b) /\ count'[n] = 0 /\ count'[Root] = count[Root]
         /\ n # b => count'[b] = count[b]
  <1>1. /\ count' = [count EXCEPT ![n] = 0] /\ kept' = [kept EXCEPT ![n] = 0]
    BY DEF NewCollector
  <1>2. n \in Nodes /\ n # Root /\ b \in Nodes /\ Root \in Nodes /\ b # SheetOf(b)
        /\ \A c \in Books \ {b} : c \in Nodes /\ SheetOf(c) \in Nodes /\ c # n /\ SheetOf(c) # n
    BY NodeFacts
  <1>3. \A m \in Nodes : /\ count'[m] = (IF m = n THEN 0 ELSE count[m])
                         /\ kept'[m] = (IF m = n THEN 0 ELSE kept[m])
                         /\ count[m] \in Nat /\ kept[m] \in Nat /\ kept[m] <= count[m]
    BY <1>1, <1>2 DEF TypeOK, CollInv
  <1>4. count' \in [Nodes -> Nat] /\ kept' \in [Nodes -> Nat]
    BY <1>1, <1>2 DEF TypeOK
  <1>5. count[b] <= count[Root] /\ (count[Root] > 0 => kept[Root] > 0)
    BY DEF CollInv
  <1>6. QED
    BY <1>2, <1>3, <1>4, <1>5 DEF CollStep
-----------------------------------------------------------------------------
(* The steps of a workbook's goroutine.                                     *)

\* What every one of them leaves alone or only adds to.
BookFrame(b) ==
  /\ TypeOK' /\ CollStep(b) /\ UNCHANGED <<input, phase, stack, result, pass>>
  /\ \A c \in Books \ {b} : /\ pc'[c] = pc[c] /\ idx'[c] = idx[c] /\ fld'[c] = fld[c]
                            /\ sres'[c] = sres[c] /\ worksheets'[c] = worksheets[c]
  /\ types \subseteq types' /\ cached \subseteq cached' /\ cached' \subseteq cached \cup {b}
  /\ pc[b] \notin {"off", "over"} /\ pc'[b] # "off"

\* What the goroutine itself keeps.
OwnInv(b) ==
  /\ pc[b] \in {"extract", "fields"} => count[SheetOf(b)] <= count[b]
  /\ ControlOf(b) /\ SheetsDone(b) /\ TypesDone(b)

LEMMA JoinFacts ==
  \A kp, n : Join(kp, n) \in {"ok", "joined"} /\ (kp[n] > 0 => Join(kp, n) = "joined")
  BY DEF Join

LEMMA JoinIfErrorsFacts ==
  \A n : /\ JoinIfErrors(n) \in {"ok", "joined"}
         /\ JoinIfErrors(n) # "ok" => count[n] > 0
         /\ count[n] > 0 /\ kept[n] > 0 => JoinIfErrors(n) = "joined"
  BY DEF Join, JoinIfErrors

LEMMA CollectReturnsFacts ==
  \A n : /\ CollectReturns(n) \in {"ok", "joined"}
         /\ CollectReturns(n) # "ok" => IsFull(count', n)
  BY DEF Join, CollectReturns

LEMMA FullMeansErrors ==
  ASSUME NEW b \in Books, NEW cnt, cnt[b] \in Nat, cnt[Root] \in Nat, cnt[b] <= cnt[Root]
  PROVE  IsFull(cnt, b) => cnt[Root] > 0
  BY FullFacts, LimitFacts

\* The step changes the goroutine's own variables at b only.
OnlyAt(b) ==
  /\ pc' = [pc EXCEPT ![b] = pc'[b]] /\ pc'[b] \in PCs \ {"off"}
  /\ idx' = [idx EXCEPT ![b] = idx'[b]] /\ idx'[b] \in Nat \ {0}
  /\ fld' = [fld EXCEPT ![b] = fld'[b]] /\ fld'[b] \in Nat \ {0}
  /\ sres' = [sres EXCEPT ![b] = sres'[b]] /\ sres'[b] \in Outcomes
  /\ worksheets' = [worksheets EXCEPT ![b] = worksheets'[b]] /\ worksheets'[b] \in SUBSET Pages

LEMMA FrameOf ==
  ASSUME BaseInv, NEW b \in Books, CollStep(b), UNCHANGED <<input, phase, stack, result, pass>>,
         pc[b] \notin {"off", "over"}, OnlyAt(b),
         types \subseteq types', types' \subseteq Types,
         cached \subseteq cached', cached' \subseteq cached \cup {b},
         files' \in [Paths -> [book : Books \cup {Root}, sheets : SUBSET Pages]]
  PROVE  BookFrame(b)
  <1>0. TypeOK
    BY DEF BaseInv
  <1>1. pc' \in [Books -> PCs] /\ \A c \in Books \ {b} : pc'[c] = pc[c]
    BY <1>0 DEF TypeOK, OnlyAt
  <1>2. idx' \in [Books -> Nat \ {0}] /\ \A c \in Books \ {b} : idx'[c] = idx[c]
    BY <1>0 DEF TypeOK, OnlyAt
  <1>3. fld' \in [Books -> Nat \ {0}] /\ \A c \in Books \ {b} : fld'[c] = fld[c]
    BY <1>0 DEF TypeOK, OnlyAt
  <1>4. sres' \in [Books -> Outcomes] /\ \A c \in Books \ {b} : sres'[c] = sres[c]
    BY <1>0 DEF TypeOK, OnlyAt
  <1>5. worksheets' \in [Books -> SUBSET Pages] /\ \A c \in Books \ {b} : worksheets'[c] = worksheets[c]
    BY <1>0 DEF TypeOK, OnlyAt
  <1>6. /\ input' \in Inputs /\ phase' \in Phases /\ result' \in Outcomes
        /\ stack' \in Seq(Dirs \X Nat) /\ pass' \in [Books -> {1, 2}]
    BY <1>0 DEF TypeOK
  <1>7. cached' \subseteq Books
    BY <1>0 DEF TypeOK
  <1>8. TypeOK'
    BY <1>1, <1>2, <1>3, <1>4, <1>5, <1>6, <1>7 DEF TypeOK, CollStep
  <1>9. QED
    BY <1>1, <1>2, <1>3, <1>4, <1>5, <1>8 DEF BookFrame, OnlyAt

LEMMA SameAt ==
  ASSUME TypeOK, NEW b \in Books
  PROVE  /\ idx = [idx EXCEPT ![b] = idx[b]] /\ fld = [fld EXCEPT ![b] = fld[b]]
         /\ sres = [sres EXCEPT ![b] = sres[b]] /\ worksheets = [worksheets EXCEPT ![b] = worksheets[b]]
         /\ idx[b] \in Nat \ {0} /\ fld[b] \in Nat \ {0} /\ sres[b] \in Outcomes
         /\ worksheets[b] \in SUBSET Pages /\ pass[b] \in {1, 2} /\ pc[b] \in PCs
         /\ count[b] \in Nat /\ count[Root] \in Nat /\ count[SheetOf(b)] \in Nat
  <1>1. idx \in [Books -> Nat \ {0}] /\ fld \in [Books -> Nat \ {0}]
    BY DEF TypeOK
  <1>2. sres \in [Books -> Outcomes] /\ worksheets \in [Books -> SUBSET Pages]
    BY DEF TypeOK
  <1>3. count \in [Nodes -> Nat] /\ b \in Nodes /\ Root \in Nodes /\ SheetOf(b) \in Nodes
    BY NodeFacts DEF TypeOK
  <1>4. pass[b] \in {1, 2} /\ pc[b] \in PCs
    BY DEF TypeOK
  <1>5. QED
    BY <1>1, <1>2, <1>3, <1>4

LEMMA FrameKeeps ==
  ASSUME BaseInv, NEW b \in Books, BookFrame(b)
  PROVE  /\ RootFull => RootFull'
         /\ count[Root] > 0 => count'[Root] > 0
         /\ \A c \in Books : Writes(c)' = Writes(c) /\ pass'[c] = pass[c]
         /\ \A s : Registered(s) => Registered(s)'
         /\ \A c \in Books : DeclaredBy(c) \subseteq types => DeclaredBy(c) \subseteq types'
         /\ count[b] \in Nat /\ count'[b] \in Nat /\ count[Root] \in Nat /\ count'[Root] \in Nat
         /\ count[b] > 0 /\ count[b] <= count'[b] => count'[b] > 0
         /\ count[b] <= count[Root] /\ count'[b] <= count'[Root]
  <1>1. TypeOK /\ TypeOK' /\ CollInv /\ CollStep(b)
    BY DEF BaseInv, BookFrame
  <1>2. /\ count[b] \in Nat /\ count'[b] \in Nat /\ count[Root] \in Nat /\ count'[Root] \in Nat
        /\ count[Root] <= count'[Root] /\ count[b] <= count[Root] /\ count'[b] <= count'[Root]
    BY <1>1, NodeFacts DEF TypeOK, CollStep, CollInv
  <1>3. RootFull => RootFull'
    BY <1>2, LimitFacts DEF RootFull
  <1>4. \A c \in Books : Writes(c)' = Writes(c) /\ pass'[c] = pass[c]
    BY DEF Writes, BookFrame
  <1>5. types \subseteq types'
    BY DEF BookFrame
  <1>6. QED
    BY <1>2, <1>3, <1>4, <1>5 DEF Registered

LEMMA AllRegistered ==
  ASSUME NEW b \in Books, \A k \in DOMAIN SheetsOf[b] : Registered(SheetsOf[b][k])
  PROVE  DeclaredBy(b) \subseteq types
  <1>1. SheetSet(b) = {SheetsOf[b][k] : k \in DOMAIN SheetsOf[b]}
    BY DEF SheetSet, ToSet
  <1>2. QED
    BY <1>1 DEF DeclaredBy, Registered

\* convert: what a workbook starts with, and what an unread one reports.
LEMMA OpenSteps ==
  ASSUME BaseInv, NEW b \in Books, Open(b)
  PROVE  BookFrame(b) /\ OwnInv(b)' /\ files' = files /\ cached' \cap Documents = {}
  <1>1. /\ TypeOK /\ CollInv /\ ControlInv /\ WorkInv /\ pc[b] = "open" /\ ControlOf(b)
        /\ SheetsDone(b) /\ TypesDone(b) /\ cached \cap Documents = {}
    BY DEF BaseInv, Open, ControlInv, WorkInv
  <1>2. /\ UNCHANGED <<input, phase, stack, result, pass>>
        /\ fld' = fld /\ sres' = sres /\ types' = types /\ files' = files
    BY <1>1 DEF Open, callerVars
  <1>3. /\ cached \subseteq cached' /\ cached' \subseteq cached \cup {b}
        /\ b \in Documents => cached' = cached
    BY DEF Open, OpenDocument, OpenTable, AddImporter
  <1>4. files' \in [Paths -> [book : Books \cup {Root}, sheets : SUBSET Pages]]
    BY <1>1, <1>2 DEF TypeOK
  <1>5. types' \subseteq Types
    BY <1>1, <1>2 DEF TypeOK
  <1>6. cached' \cap Documents = {}
    BY <1>1, <1>3
  <1>7. ASSUME NEW err \in {"ok", "plain"}, Return(b, err), UNCHANGED <<idx, worksheets>>,
               err = "ok" => (b \in Documents /\ pass[b] = 2) \/ SheetsOf[b] = <<>>
        PROVE  BookFrame(b) /\ OwnInv(b)'
    <2>1. pc' = [pc EXCEPT ![b] = "over"] /\ Collect(Root, err)
      BY <1>7 DEF Return, Goto
    <2>2. CollStep(b) /\ count'[b] = count[b] /\ (err = "plain" => count'[Root] > 0)
      BY <1>1, <1>7, <2>1, CollectSteps, NodeFacts DEF Outcomes
    <2>3. OnlyAt(b) /\ pc'[b] = "over" /\ worksheets'[b] = worksheets[b]
      BY <1>1, <1>2, <1>7, <2>1, SameAt DEF OnlyAt, TypeOK, PCs
    <2>4. BookFrame(b)
      BY <1>1, <1>2, <1>3, <1>4, <1>5, <2>2, <2>3, FrameOf
    <2>5. ControlOf(b)'
      BY <2>3, <2>4, <1>1, FrameKeeps DEF ControlOf
    <2>6. SheetsDone(b)'
      BY <2>3, <1>1 DEF SheetsDone
    <2>7. TypesDone(b)'
      <3>1. ASSUME b \notin Documents, pass[b] = 1, err = "ok"
            PROVE  SheetsOf[b] = <<>> /\ DeclaredBy(b) \subseteq types'
        <4>1. SheetsOf[b] = <<>>
          BY <1>7, <3>1
        <4>2. SheetSet(b) = {}
          BY <4>1 DEF SheetSet, ToSet
        <4>3. QED
          BY <4>1, <4>2 DEF DeclaredBy
      <3>2. pass'[b] = pass[b]
        BY <1>2
      <3>3. QED
        BY <2>2, <2>3, <3>1, <3>2, <1>7 DEF TypesDone
    <2>8. QED
      BY <2>3, <2>4, <2>5, <2>6, <2>7 DEF OwnInv
  <1>8. ASSUME NewBookParser(b), b \in Documents => pass[b] = 1,
               b \notin Documents => b \in cached'
        PROVE  BookFrame(b) /\ OwnInv(b)'
    <2>1. /\ pc' = [pc EXCEPT ![b] = "sheet"] /\ idx' = [idx EXCEPT ![b] = 1]
          /\ worksheets' = [worksheets EXCEPT ![b] = {}] /\ NewCollector(b)
      BY <1>8 DEF NewBookParser, Goto
    <2>2. CollStep(b) /\ count'[b] = 0
      BY <1>1, <2>1, NewCollectorSteps
    <2>3. OnlyAt(b) /\ pc'[b] = "sheet" /\ idx'[b] = 1 /\ worksheets'[b] = {}
      BY <1>1, <1>2, <2>1, SameAt DEF OnlyAt, TypeOK, PCs
    <2>10. BookFrame(b)
      BY <1>1, <1>2, <1>3, <1>4, <1>5, <2>2, <2>3, FrameOf
    <2>4. ControlOf(b)'
      BY <1>8, <2>3, <2>10, <1>1, FrameKeeps DEF ControlOf
    <2>5. DOMAIN SheetsOf[b] = 1..Len(SheetsOf[b])
      BY PageFacts
    <2>6. SheetsDone(b)'
      BY <2>3, <2>5 DEF SheetsDone
    <2>7. TypesDone(b)'
      BY <1>8, <2>3, <2>5, <2>10, FrameKeeps DEF TypesDone
    <2>8. QED
      BY <2>3, <2>10, <2>4, <2>6, <2>7 DEF OwnInv
  <1>9. BookFrame(b) /\ OwnInv(b)'
    <2>1. CASE OpenDocument(b)
      <3>1. CASE pass[b] = 2 /\ Return(b, "ok") /\ UNCHANGED <<idx, worksheets>>
        BY <1>7, <2>1, <3>1 DEF OpenDocument
      <3>2. CASE pass[b] = 1 /\ NotRead(b) /\ ReturnUnread(b)
        <4>1. UNCHANGED <<idx, worksheets>> /\ Return(b, IF Faults("open", b) THEN "plain" ELSE "ok")
          BY <3>2 DEF ReturnUnread
        <4>2. QED
          BY <1>7, <3>2, <4>1 DEF NotRead
      <3>3. CASE pass[b] = 1 /\ ~NotRead(b) /\ NewBookParser(b)
        BY <1>8, <2>1, <3>3 DEF OpenDocument
      <3>4. QED
        BY <2>1, <3>1, <3>2, <3>3 DEF OpenDocument
    <2>2. CASE OpenTable(b)
      <3>1. CASE b \notin cached /\ NotRead(b) /\ ReturnUnread(b) /\ UNCHANGED cached
        <4>1. UNCHANGED <<idx, worksheets>> /\ Return(b, IF Faults("open", b) THEN "plain" ELSE "ok")
          BY <3>1 DEF ReturnUnread
        <4>2. QED
          BY <1>7, <3>1, <4>1 DEF NotRead
      <3>2. CASE (b \in cached \/ ~NotRead(b)) /\ AddImporter(b) /\ NewBookParser(b)
        BY <1>8, <2>2, <3>2 DEF OpenTable, AddImporter
      <3>3. QED
        BY <2>2, <3>1, <3>2 DEF OpenTable
    <2>3. QED
      BY <2>1, <2>2 DEF Open
  <1>10. QED
    BY <1>2, <1>6, <1>9

LEMMA BaseParts ==
  ASSUME BaseInv, NEW b \in Books
  PROVE  /\ TypeOK /\ CollInv /\ ControlOf(b) /\ SheetsDone(b) /\ TypesDone(b)
         /\ cached \cap Documents = {}
  BY DEF BaseInv, ControlInv, WorkInv

\* A step that neither opens nor writes changes no file and no importer.
LEMMA InnerFrame ==
  ASSUME BaseInv, NEW b \in Books, CollStep(b), UNCHANGED <<input, callerVars, pass, cached, files>>,
         pc[b] \notin {"off", "over"}, OnlyAt(b), types \subseteq types', types' \subseteq Types
  PROVE  BookFrame(b) /\ files' = files /\ cached' = cached /\ cached' \cap Documents = {}
  <1>1. TypeOK /\ cached \cap Documents = {}
    BY BaseParts
  <1>2. files' \in [Paths -> [book : Books \cup {Root}, sheets : SUBSET Pages]]
    BY <1>1 DEF TypeOK
  <1>3. UNCHANGED <<input, phase, stack, result, pass>>
    BY DEF callerVars
  <1>4. QED
    BY <1>1, <1>2, <1>3, FrameOf

\* convertTableSheet and convertDocumentSheet: where the sheet is entered.
LEMMA BeginSheetSteps ==
  ASSUME BaseInv, NEW b \in Books, BeginSheet(b)
  PROVE  BookFrame(b) /\ OwnInv(b)' /\ files' = files /\ cached' \cap Documents = {}
  <1>1. /\ TypeOK /\ CollInv /\ ControlOf(b) /\ SheetsDone(b) /\ TypesDone(b)
        /\ pc[b] = "sheet" /\ idx[b] <= Len(SheetsOf[b]) /\ idx' = idx /\ worksheets' = worksheets
        /\ types' = types /\ types \subseteq Types
    BY BaseParts DEF BeginSheet, sharedVars, TypeOK
  <1>2. CollStep(b) /\ count'[SheetOf(b)] = 0 /\ count'[Root] = count[Root] /\ count'[b] = count[b]
    BY <1>1, NodeFacts, NewCollectorSteps DEF BeginSheet
  <1>3. FirstStep(b) \in {"collect", "fields", "extract"}
    BY DEF FirstStep
  <1>4. /\ OnlyAt(b) /\ pc'[b] = FirstStep(b) /\ fld'[b] = 1
        /\ sres'[b] = IF Misshapen(b) THEN "plain" ELSE "ok"
    BY <1>1, <1>3, SameAt DEF BeginSheet, Goto, OnlyAt, TypeOK, PCs, Outcomes
  <1>5. BookFrame(b) /\ files' = files /\ cached' \cap Documents = {}
    BY <1>1, <1>2, <1>4, InnerFrame DEF BeginSheet, sharedVars
  <1>6. /\ Writes(b)' = Writes(b) /\ pass'[b] = pass[b] /\ (RootFull => RootFull')
        /\ Current(b)' = Current(b) /\ count'[SheetOf(b)] <= count'[b]
        /\ \A s : Registered(s)' = Registered(s)
    BY <1>1, <1>2, <1>5, FrameKeeps DEF Current, Registered
  <1>7. ControlOf(b)'
    <2>1. /\ b \in Documents /\ pass[b] = 2 => FALSE
          /\ pass[b] \in {1, 2}
      BY <1>1, SameAt DEF ControlOf
    <2>2. /\ FirstStep(b) = "extract" => ~Writes(b) /\ Kind[Current(b)] # "default"
          /\ FirstStep(b) = "fields" => Writes(b)
      BY DEF FirstStep, Writes
    <2>3. QED
      BY <1>1, <1>3, <1>4, <1>6, <2>1, <2>2 DEF ControlOf
  <1>8. SheetsDone(b)'
    <2>1. Writes(b) /\ FirstStep(b) = "collect" => sres'[b] = "plain"
      BY <1>4 DEF FirstStep, Writes
    <2>2. worksheets'[b] \subseteq SheetSet(b)
      BY <1>1 DEF SheetsDone
    <2>3. Writes(b) => \A k \in DOMAIN SheetsOf[b] : k < idx[b] =>
            SheetsOf[b][k] \in worksheets[b] \/ count[b] > 0 \/ RootFull
      BY <1>1 DEF SheetsDone
    <2>4. QED
      BY <1>1, <1>2, <1>4, <1>6, <2>1, <2>2, <2>3 DEF SheetsDone
  <1>9. TypesDone(b)'
    <2>1. SUFFICES ASSUME b \notin Documents, pass[b] = 1
                   PROVE  TypesDone(b)'
      BY <1>6 DEF TypesDone
    <2>2. ~Writes(b) /\ FirstStep(b) # "over" /\ (FirstStep(b) = "collect" => Registered(Current(b)))
      BY <2>1 DEF FirstStep, Writes, Registered, Misshapen
    <2>3. /\ SheetsOf[b] # <<>> => b \in cached \/ count[Root] > 0
          /\ \A k \in DOMAIN SheetsOf[b] : k < idx[b] => Registered(SheetsOf[b][k]) \/ count[Root] > 0
      BY <1>1, <2>1 DEF TypesDone
    <2>4. \A l \in DOMAIN Declares[Current(b)] : ~(l < fld'[b])
      BY <1>1, <1>4, CurrentFacts, PageFacts
    <2>5. cached' = cached
      BY DEF BeginSheet, sharedVars
    <2>6. QED
      BY <1>1, <1>2, <1>3, <1>4, <1>6, <2>2, <2>3, <2>4, <2>5 DEF TypesDone
  <1>10. QED
    BY <1>5, <1>6, <1>7, <1>8, <1>9 DEF OwnInv

\* extractTypeInfo: the types of a type sheet, one Put at a time.
LEMMA ExtractSteps ==
  ASSUME BaseInv, NEW b \in Books, Extract(b)
  PROVE  BookFrame(b) /\ OwnInv(b)' /\ files' = files /\ cached' \cap Documents = {}
  <1> DEFINE s == Current(b)
             k == fld[b]
  <1>1. /\ TypeOK /\ CollInv /\ ControlOf(b) /\ SheetsDone(b) /\ TypesDone(b)
        /\ pc[b] = "extract" /\ idx[b] <= Len(SheetsOf[b]) /\ idx' = idx /\ worksheets' = worksheets
        /\ ~Writes(b) /\ Kind[s] # "default" /\ k \in Nat \ {0}
        /\ UNCHANGED <<input, callerVars, pass, cached, files>>
    BY BaseParts, SameAt DEF Extract, ControlOf
  <1>2. s \in Pages /\ Declares[s] \in Seq(Types) /\ DOMAIN Declares[s] = 1..Len(Declares[s])
        /\ Len(Declares[s]) \in Nat
    BY <1>1, CurrentFacts, PageFacts
  <1>3. b \notin Documents /\ pass[b] = 1 /\ count[SheetOf(b)] <= count[b]
    BY <1>1, SameAt DEF Writes, CollInv
  <1>4. /\ SheetsOf[b] # <<>> => b \in cached \/ count[Root] > 0
        /\ \A j \in DOMAIN SheetsOf[b] : j < idx[b] => Registered(SheetsOf[b][j]) \/ count[Root] > 0
        /\ \A l \in DOMAIN Declares[s] : l < k => Declares[s][l] \in types
    BY <1>1, <1>3 DEF TypesDone
  <1>5. /\ CollStep(b) /\ OnlyAt(b) /\ types \subseteq types' /\ types' \subseteq Types
        /\ pc'[b] \in {"extract", "collect"}
        /\ pc'[b] = "extract" =>
             /\ count'[SheetOf(b)] <= count'[b]
             /\ \A l \in DOMAIN Declares[s] : l < fld'[b] => Declares[s][l] \in types'
        /\ pc'[b] = "collect" => ToSet(Declares[s]) \subseteq types' \/ count'[Root] > 0
    <2>1. CASE k > Len(Declares[s]) /\ EndSheet(b, "ok") /\ UNCHANGED <<types, collVars>>
      <3>1. CollStep(b) /\ types' = types /\ types \subseteq Types
        BY <1>1, <2>1, CollUnchanged DEF TypeOK
      <3>2. OnlyAt(b) /\ pc'[b] = "collect"
        BY <1>1, <2>1, SameAt DEF EndSheet, Goto, OnlyAt, TypeOK, PCs, Outcomes
      <3>3. ToSet(Declares[s]) \subseteq types
        <4>1. \A l \in DOMAIN Declares[s] : l < k
          BY <1>1, <1>2, <2>1
        <4>2. \A l \in DOMAIN Declares[s] : Declares[s][l] \in types
          BY <1>4, <4>1
        <4>3. QED
          BY <4>2 DEF ToSet
      <3>4. QED
        BY <3>1, <3>2, <3>3
    <2>2. CASE /\ Collect(SheetOf(b), "plain") /\ EndSheet(b, Join(kept', SheetOf(b)))
               /\ UNCHANGED types
      <3>1. CollStep(b) /\ count'[Root] > 0
        BY <1>1, <2>2, CollectSteps DEF Outcomes
      <3>2. types' = types /\ types \subseteq Types /\ Join(kept', SheetOf(b)) \in {"ok", "joined"}
        BY <1>1, <2>2, JoinFacts DEF TypeOK
      <3>3. OnlyAt(b) /\ pc'[b] = "collect"
        BY <1>1, <2>2, <3>2, SameAt DEF EndSheet, Goto, OnlyAt, TypeOK, PCs, Outcomes
      <3>4. QED
        BY <3>1, <3>2, <3>3
    <2>3. CASE /\ k <= Len(Declares[s]) /\ types' = types \cup {Declares[s][k]} /\ NextField(b)
               /\ UNCHANGED collVars
      <3>1. CollStep(b) /\ count' = count
        BY <1>1, <2>3, CollUnchanged
      <3>2. k \in DOMAIN Declares[s] /\ Declares[s][k] \in Types /\ types \subseteq Types
        BY <1>1, <1>2, <2>3 DEF TypeOK
      <3>3. OnlyAt(b) /\ pc'[b] = "extract" /\ fld'[b] = k + 1
        BY <1>1, <2>3, SameAt DEF NextField, OnlyAt, TypeOK, PCs, Outcomes
      <3>4. \A l \in DOMAIN Declares[s] : l < k + 1 => l < k \/ l = k
        BY <1>1, <1>2
      <3>5. QED
        BY <1>3, <1>4, <2>3, <3>1, <3>2, <3>3, <3>4
    <2>4. QED
      BY <2>1, <2>2, <2>3 DEF Extract
  <1>6. BookFrame(b) /\ files' = files /\ cached' = cached /\ cached' \cap Documents = {}
    BY <1>1, <1>5, InnerFrame
  <1>7. /\ Writes(b)' = Writes(b) /\ pass'[b] = pass[b] /\ Current(b)' = s
        /\ count[Root] > 0 => count'[Root] > 0
        /\ \A t : Registered(t) => Registered(t)'
    BY <1>1, <1>6, FrameKeeps DEF Current
  <1>8. ControlOf(b)'
    BY <1>1, <1>3, <1>5, <1>7 DEF ControlOf
  <1>9. SheetsDone(b)'
    BY <1>1, <1>7 DEF SheetsDone
  <1>10. TypesDone(b)'
    <2>1. \A t : ToSet(Declares[t]) \subseteq types' => Registered(t)'
      BY DEF Registered
    <2>2. pc'[b] = "collect" => Registered(Current(b))' \/ count'[Root] > 0
      BY <1>5, <1>7, <2>1
    <2>3. QED
      BY <1>1, <1>4, <1>5, <1>6, <1>7, <2>2 DEF TypesDone
  <1>11. QED
    BY <1>5, <1>6, <1>8, <1>9, <1>10 DEF OwnInv

\* A full collector at a sheet, and what it says of those above it.
LEMMA FullSheet ==
  ASSUME TypeOK, NEW b \in Books, count[SheetOf(b)] <= count[b], IsFull(count, SheetOf(b))
  PROVE  count[b] > 0 \/ RootFull
  BY SameAt, FullFacts, LimitFacts DEF RootFull

\* The field loop, one turn; only passes that write reach it.
LEMMA ParseFieldSteps ==
  ASSUME BaseInv, NEW b \in Books, ParseField(b)
  PROVE  BookFrame(b) /\ OwnInv(b)' /\ files' = files /\ cached' \cap Documents = {}
  <1> DEFINE s == Current(b)
             k == fld[b]
             full == IsFull(count, SheetOf(b)) /\ ~Unchecked(b)
  <1>1. /\ TypeOK /\ CollInv /\ ControlOf(b) /\ SheetsDone(b)
        /\ pc[b] = "fields" /\ idx[b] <= Len(SheetsOf[b]) /\ idx' = idx /\ worksheets' = worksheets
        /\ Writes(b) /\ k \in Nat \ {0} /\ count[SheetOf(b)] <= count[b]
        /\ types' = types /\ types \subseteq Types
        /\ UNCHANGED <<input, callerVars, pass, cached, files>>
    BY BaseParts, SameAt DEF ParseField, ControlOf, CollInv, TypeOK
  <1>2. /\ CollStep(b) /\ OnlyAt(b) /\ count[b] <= count'[b]
        /\ pc'[b] \in {"fields", "collect"}
        /\ pc'[b] = "fields" => count'[SheetOf(b)] <= count'[b]
        /\ pc'[b] = "collect" => count'[b] > 0 \/ RootFull
    <2>1. CASE full /\ EndSheet(b, Join(kept, IF GoesOn(b) THEN SheetOf(b) ELSE b)) /\ UNCHANGED collVars
      <3>1. CollStep(b) /\ count' = count /\ count[b] \in Nat
        BY <1>1, <2>1, CollUnchanged, SameAt
      <3>2. Join(kept, IF GoesOn(b) THEN SheetOf(b) ELSE b) \in {"ok", "joined"}
        BY JoinFacts
      <3>3. OnlyAt(b) /\ pc'[b] = "collect"
        BY <1>1, <2>1, <3>2, SameAt DEF EndSheet, Goto, OnlyAt, TypeOK, PCs, Outcomes
      <3>4. count[b] > 0 \/ RootFull
        BY <1>1, <2>1, FullSheet
      <3>5. QED
        BY <3>1, <3>3, <3>4
    <2>2. CASE NextField(b) /\ UNCHANGED collVars
      <3>1. CollStep(b) /\ count' = count /\ count[b] \in Nat
        BY <1>1, <2>2, CollUnchanged, SameAt
      <3>2. OnlyAt(b) /\ pc'[b] = "fields"
        BY <1>1, <2>2, SameAt DEF NextField, OnlyAt, TypeOK, PCs, Outcomes
      <3>3. QED
        BY <1>1, <3>1, <3>2
    <2>3. CASE /\ Collect(SheetOf(b), "plain")
               /\ IF GoesOn(b) /\ CollectReturns(SheetOf(b)) = "ok"
                  THEN NextField(b)
                  ELSE EndSheet(b, CollectReturns(SheetOf(b)))
      <3>1. /\ CollStep(b) /\ count[b] <= count'[b] /\ count'[b] > 0
            /\ count'[SheetOf(b)] <= count'[b]
        BY <1>1, <2>3, CollectSteps DEF Outcomes
      <3>2. CollectReturns(SheetOf(b)) \in {"ok", "joined"}
        BY CollectReturnsFacts
      <3>3. CASE NextField(b)
        <4>1. OnlyAt(b) /\ pc'[b] = "fields"
          BY <1>1, <3>3, SameAt DEF NextField, OnlyAt, TypeOK, PCs, Outcomes
        <4>2. QED
          BY <3>1, <4>1
      <3>4. CASE EndSheet(b, CollectReturns(SheetOf(b)))
        <4>1. OnlyAt(b) /\ pc'[b] = "collect"
          BY <1>1, <3>2, <3>4, SameAt DEF EndSheet, Goto, OnlyAt, TypeOK, PCs, Outcomes
        <4>2. QED
          BY <3>1, <4>1
      <3>5. QED
        BY <2>3, <3>3, <3>4
    <2>4. QED
      BY <2>1, <2>2, <2>3 DEF ParseField
  <1>3. BookFrame(b) /\ files' = files /\ cached' \cap Documents = {}
    BY <1>1, <1>2, InnerFrame
  <1>4. /\ Writes(b)' = Writes(b) /\ pass'[b] = pass[b] /\ Current(b)' = s
        /\ RootFull => RootFull'
        /\ count[b] > 0 => count'[b] > 0
    BY <1>1, <1>2, <1>3, FrameKeeps DEF Current
  <1>5. ControlOf(b)'
    BY <1>1, <1>2, <1>4, SameAt DEF ControlOf
  <1>6. SheetsDone(b)'
    <2>1. /\ worksheets[b] \subseteq SheetSet(b)
          /\ \A j \in DOMAIN SheetsOf[b] : j < idx[b] =>
               SheetsOf[b][j] \in worksheets[b] \/ count[b] > 0 \/ RootFull
      BY <1>1 DEF SheetsDone
    <2>2. QED
      BY <1>1, <1>2, <1>4, <2>1 DEF SheetsDone
  <1>7. TypesDone(b)'
    BY <1>1, <1>4, SameAt DEF TypesDone, Writes
  <1>8. QED
    BY <1>2, <1>3, <1>5, <1>6, <1>7 DEF OwnInv

\* The end of the field loop, where a sheet without errors is appended.
LEMMA EndFieldsSteps ==
  ASSUME BaseInv, NEW b \in Books, EndFields(b)
  PROVE  BookFrame(b) /\ OwnInv(b)' /\ files' = files /\ cached' \cap Documents = {}
  <1> DEFINE s == Current(b)
  <1>1. /\ TypeOK /\ CollInv /\ ControlOf(b) /\ SheetsDone(b)
        /\ pc[b] = "fields" /\ idx[b] <= Len(SheetsOf[b]) /\ idx' = idx
        /\ Writes(b) /\ count[SheetOf(b)] <= count[b]
        /\ UNCHANGED <<input, callerVars, pass, cached, files>> /\ UNCHANGED collVars
        /\ types' = types /\ types \subseteq Types
    BY BaseParts DEF EndFields, ControlOf, CollInv, TypeOK, sharedVars
  <1>2. CollStep(b) /\ count' = count
    BY <1>1, CollUnchanged
  <1>3. s \in Pages /\ s \in SheetSet(b)
    BY <1>1, CurrentFacts
  <1>4. /\ worksheets[b] \subseteq SheetSet(b) /\ worksheets[b] \subseteq Pages
        /\ \A j \in DOMAIN SheetsOf[b] : j < idx[b] =>
             SheetsOf[b][j] \in worksheets[b] \/ count[b] > 0 \/ RootFull
    BY <1>1, SameAt DEF SheetsDone
  <1>5. /\ OnlyAt(b) /\ pc'[b] = "collect"
        /\ worksheets[b] \subseteq worksheets'[b] /\ worksheets'[b] \subseteq SheetSet(b)
        /\ s \in worksheets'[b] \/ count[b] > 0
    <2>1. CASE /\ worksheets' = [worksheets EXCEPT ![b] = @ \cup {s}] /\ EndSheet(b, "ok")
      <3>1. /\ worksheets' = [worksheets EXCEPT ![b] = worksheets'[b]]
            /\ worksheets'[b] = worksheets[b] \cup {s}
        BY <1>1, <2>1 DEF TypeOK
      <3>2. QED
        BY <1>1, <1>3, <1>4, <2>1, <3>1, SameAt DEF EndSheet, Goto, OnlyAt, TypeOK, PCs, Outcomes
    <2>2. CASE /\ count[SheetOf(b)] > 0 /\ UNCHANGED worksheets
               /\ EndSheet(b, IF b \in Documents \/ IsFull(count, SheetOf(b))
                              THEN Join(kept, SheetOf(b)) ELSE "ok")
      <3>1. Join(kept, SheetOf(b)) \in {"ok", "joined"} /\ count[b] > 0
        BY <1>1, <2>2, JoinFacts, SameAt
      <3>2. QED
        BY <1>1, <1>4, <2>2, <3>1, SameAt DEF EndSheet, Goto, OnlyAt, TypeOK, PCs, Outcomes
    <2>3. QED
      BY <2>1, <2>2 DEF EndFields
  <1>6. BookFrame(b) /\ files' = files /\ cached' \cap Documents = {}
    BY <1>1, <1>2, <1>5, InnerFrame
  <1>7. /\ Writes(b)' = Writes(b) /\ pass'[b] = pass[b] /\ Current(b)' = s
        /\ RootFull => RootFull'
    BY <1>1, <1>6, FrameKeeps DEF Current
  <1>8. ControlOf(b)'
    BY <1>1, <1>5, <1>7 DEF ControlOf
  <1>9. SheetsDone(b)'
    BY <1>1, <1>2, <1>4, <1>5, <1>7 DEF SheetsDone
  <1>10. TypesDone(b)'
    BY <1>1, <1>7, SameAt DEF TypesDone, Writes
  <1>11. QED
    BY <1>5, <1>6, <1>8, <1>9, <1>10 DEF OwnInv

\* The sheet loop: what the sheet returned is collected at the workbook.
LEMMA CollectSheetSteps ==
  ASSUME BaseInv, NEW b \in Books, CollectSheet(b)
  PROVE  BookFrame(b) /\ OwnInv(b)' /\ files' = files /\ cached' \cap Documents = {}
  <1>1. /\ TypeOK /\ CollInv /\ ControlOf(b) /\ SheetsDone(b) /\ TypesDone(b)
        /\ pc[b] = "collect" /\ idx[b] <= Len(SheetsOf[b]) /\ sres[b] \in Outcomes
        /\ idx[b] \in Nat \ {0} /\ Collect(b, sres[b])
        /\ UNCHANGED <<input, callerVars, pass, cached, files>> /\ worksheets' = worksheets
        /\ types' = types /\ types \subseteq Types
    BY BaseParts, SameAt DEF CollectSheet, ControlOf, TypeOK, sharedVars
  <1>2. CollStep(b) /\ count[b] <= count'[b] /\ (sres[b] = "plain" => count'[b] > 0)
    BY <1>1, CollectSteps, NodeFacts
  <1>3. /\ OnlyAt(b)
        /\ \/ pc'[b] = "sheet" /\ idx'[b] = idx[b] + 1
           \/ pc'[b] = "over" /\ IsFull(count', b)
    <2>1. CASE Goto(b, "sheet") /\ idx' = [idx EXCEPT ![b] = @ + 1]
      BY <1>1, <2>1, SameAt DEF CollectSheet, Goto, OnlyAt, TypeOK, PCs, Outcomes
    <2>2. CASE CollectReturns(b) # "ok" /\ Goto(b, "over") /\ UNCHANGED idx
      <3>1. IsFull(count', b)
        BY <2>2, CollectReturnsFacts
      <3>2. QED
        BY <1>1, <2>2, <3>1, SameAt DEF CollectSheet, Goto, OnlyAt, TypeOK, PCs, Outcomes
    <2>3. QED
      BY <2>1, <2>2 DEF CollectSheet
  <1>4. BookFrame(b) /\ files' = files /\ cached' = cached /\ cached' \cap Documents = {}
    BY <1>1, <1>2, <1>3, InnerFrame
  <1>5. /\ Writes(b)' = Writes(b) /\ pass'[b] = pass[b]
        /\ RootFull => RootFull'
        /\ count[b] > 0 => count'[b] > 0
        /\ count[Root] > 0 => count'[Root] > 0
        /\ \A t : Registered(t)' = Registered(t)
        /\ count'[b] \in Nat /\ count'[Root] \in Nat /\ count'[b] <= count'[Root]
    BY <1>1, <1>2, <1>4, FrameKeeps DEF Registered
  <1>6. pc'[b] = "over" => count'[Root] > 0
    <2>1. IsFull(count', b) => count'[Root] > 0
      BY <1>5, FullMeansErrors
    <2>2. QED
      BY <1>3, <2>1
  <1>7. /\ idx[b] \in DOMAIN SheetsOf[b] /\ DOMAIN SheetsOf[b] = 1..Len(SheetsOf[b])
        /\ \A j \in DOMAIN SheetsOf[b] : j < idx[b] + 1 => j < idx[b] \/ j = idx[b]
    BY <1>1, CurrentFacts, PageFacts
  <1>8. ControlOf(b)'
    BY <1>1, <1>3, <1>5 DEF ControlOf
  <1>9. SheetsDone(b)'
    <2>1. worksheets'[b] \subseteq SheetSet(b)
      BY <1>1 DEF SheetsDone
    <2>2. ASSUME Writes(b), pc'[b] # "over", NEW j \in DOMAIN SheetsOf[b], j < idx'[b]
          PROVE  SheetsOf[b][j] \in worksheets[b] \/ count'[b] > 0 \/ RootFull'
      <3>1. CASE j < idx[b]
        BY <1>1, <1>5, <2>2, <3>1 DEF SheetsDone
      <3>2. CASE j = idx[b]
        BY <1>1, <1>2, <1>5, <2>2, <3>2 DEF SheetsDone, Current
      <3>3. QED
        BY <1>3, <1>7, <2>2, <3>1, <3>2
    <2>3. QED
      BY <1>1, <1>3, <1>5, <2>1, <2>2 DEF SheetsDone
  <1>10. TypesDone(b)'
    <2>1. SUFFICES ASSUME b \notin Documents, pass[b] = 1
                   PROVE  TypesDone(b)'
      BY <1>5 DEF TypesDone
    <2>2. ASSUME pc'[b] # "over", NEW j \in DOMAIN SheetsOf[b], j < idx'[b]
          PROVE  Registered(SheetsOf[b][j])' \/ count'[Root] > 0
      <3>1. CASE j < idx[b]
        BY <1>1, <1>5, <2>1, <3>1 DEF TypesDone
      <3>2. CASE j = idx[b]
        BY <1>1, <1>5, <2>1, <3>2 DEF TypesDone, Current
      <3>3. QED
        BY <1>3, <1>7, <2>2, <3>1, <3>2
    <2>3. SheetsOf[b] # <<>> => b \in cached' \/ count'[Root] > 0
      BY <1>1, <1>4, <1>5, <2>1 DEF TypesDone
    <2>4. QED
      BY <1>3, <1>5, <1>6, <2>2, <2>3 DEF TypesDone
  <1>11. QED
    BY <1>3, <1>4, <1>8, <1>9, <1>10 DEF OwnInv

\* After the sheet loop: errors keep the workbook from being exported.
LEMMA EndSheetsSteps ==
  ASSUME BaseInv, NEW b \in Books, EndSheets(b)
  PROVE  BookFrame(b) /\ OwnInv(b)' /\ files' = files /\ cached' \cap Documents = {}
  <1>1. /\ TypeOK /\ CollInv /\ ControlOf(b) /\ SheetsDone(b) /\ TypesDone(b)
        /\ pc[b] = "sheet" /\ idx[b] > Len(SheetsOf[b]) /\ idx' = idx
        /\ UNCHANGED <<input, callerVars, pass, cached, files>> /\ worksheets' = worksheets
        /\ types' = types /\ types \subseteq Types
    BY BaseParts DEF EndSheets, TypeOK, sharedVars
  <1>2. /\ CollStep(b) /\ OnlyAt(b) /\ count'[b] = count[b]
        /\ \/ pc'[b] = "over"
           \/ pc'[b] = "export" /\ count[b] = 0 /\ Writes(b)
    <2>1. CASE Return(b, JoinIfErrors(b))
      <3>1. JoinIfErrors(b) \in Outcomes /\ Collect(Root, JoinIfErrors(b)) /\ Goto(b, "over")
        BY <2>1, JoinIfErrorsFacts DEF Return, Outcomes
      <3>2. CollStep(b) /\ count'[b] = count[b]
        BY <1>1, <3>1, CollectSteps, NodeFacts
      <3>3. OnlyAt(b) /\ pc'[b] = "over"
        BY <1>1, <3>1, SameAt DEF EndSheets, Goto, OnlyAt, TypeOK, PCs, Outcomes
      <3>4. QED
        BY <3>2, <3>3
    <2>2. CASE /\ ~(count[b] > 0 \/ (pass[b] = 1 /\ b \notin Documents))
               /\ Goto(b, "export") /\ UNCHANGED collVars
      <3>1. CollStep(b) /\ count' = count
        BY <1>1, <2>2, CollUnchanged
      <3>2. OnlyAt(b) /\ pc'[b] = "export"
        BY <1>1, <2>2, SameAt DEF EndSheets, Goto, OnlyAt, TypeOK, PCs, Outcomes
      <3>3. count[b] = 0 /\ Writes(b)
        BY <1>1, <2>2, SameAt DEF Writes
      <3>4. QED
        BY <3>1, <3>2, <3>3
    <2>3. QED
      BY <2>1, <2>2 DEF EndSheets
  <1>3. BookFrame(b) /\ files' = files /\ cached' = cached /\ cached' \cap Documents = {}
    BY <1>1, <1>2, InnerFrame
  <1>4. /\ Writes(b)' = Writes(b) /\ pass'[b] = pass[b]
        /\ RootFull => RootFull'
        /\ count[Root] > 0 => count'[Root] > 0
    BY <1>3, FrameKeeps
  <1>5. ControlOf(b)'
    BY <1>1, <1>2, <1>4 DEF ControlOf
  <1>6. SheetsDone(b)'
    BY <1>1, <1>2, <1>4 DEF SheetsDone
  <1>7. TypesDone(b)'
    <2>1. SUFFICES ASSUME b \notin Documents, pass[b] = 1
                   PROVE  TypesDone(b)'
      BY <1>4 DEF TypesDone
    <2>2. pc'[b] = "over"
      BY <1>2, <2>1 DEF Writes
    <2>3. \A k \in DOMAIN SheetsOf[b] : k < idx[b]
      BY <1>1, SameAt, PageFacts
    <2>4. DeclaredBy(b) \subseteq types \/ count[Root] > 0
      <3>1. CASE count[Root] > 0
        BY <3>1
      <3>2. CASE ~(count[Root] > 0)
        <4>1. \A k \in DOMAIN SheetsOf[b] : Registered(SheetsOf[b][k])
          BY <1>1, <2>1, <2>3, <3>2 DEF TypesDone
        <4>2. QED
          BY <4>1, AllRegistered
      <3>3. QED
        BY <3>1, <3>2
    <2>5. SheetsOf[b] # <<>> => b \in cached \/ count[Root] > 0
      BY <1>1, <2>1 DEF TypesDone
    <2>6. QED
      BY <1>1, <1>3, <1>4, <2>2, <2>4, <2>5 DEF TypesDone
  <1>8. QED
    BY <1>2, <1>3, <1>5, <1>6, <1>7 DEF OwnInv

\* bookExporter.export.
LEMMA ExportSteps ==
  ASSUME BaseInv, NEW b \in Books, Export(b)
  PROVE  BookFrame(b) /\ OwnInv(b)' /\ files' = files /\ cached' \cap Documents = {}
  <1>1. /\ TypeOK /\ CollInv /\ ControlOf(b) /\ SheetsDone(b)
        /\ pc[b] = "export" /\ idx' = idx
        /\ UNCHANGED <<input, callerVars, pass, cached, files>> /\ worksheets' = worksheets
        /\ types' = types /\ types \subseteq Types
    BY BaseParts DEF Export, TypeOK, sharedVars
  <1>2. CollStep(b) /\ OnlyAt(b) /\ count'[b] = count[b] /\ pc'[b] \in {"over", "write"}
    <2>1. CASE Return(b, "plain")
      <3>1. Collect(Root, "plain") /\ Goto(b, "over")
        BY <2>1 DEF Return
      <3>2. CollStep(b) /\ count'[b] = count[b]
        BY <1>1, <3>1, CollectSteps, NodeFacts DEF Outcomes
      <3>3. OnlyAt(b) /\ pc'[b] = "over"
        BY <1>1, <3>1, SameAt DEF Export, Goto, OnlyAt, TypeOK, PCs, Outcomes
      <3>4. QED
        BY <3>2, <3>3
    <2>2. CASE Goto(b, "write") /\ UNCHANGED collVars
      <3>1. CollStep(b) /\ count' = count
        BY <1>1, <2>2, CollUnchanged
      <3>2. OnlyAt(b) /\ pc'[b] = "write"
        BY <1>1, <2>2, SameAt DEF Export, Goto, OnlyAt, TypeOK, PCs, Outcomes
      <3>3. QED
        BY <3>1, <3>2
    <2>3. QED
      BY <2>1, <2>2 DEF Export
  <1>3. BookFrame(b) /\ files' = files /\ cached' \cap Documents = {}
    BY <1>1, <1>2, InnerFrame
  <1>4. Writes(b) /\ Writes(b)' /\ pass'[b] = pass[b] /\ (RootFull => RootFull')
    BY <1>1, <1>3, FrameKeeps DEF ControlOf
  <1>5. ControlOf(b)'
    BY <1>1, <1>2, <1>4 DEF ControlOf
  <1>6. SheetsDone(b)'
    BY <1>1, <1>2, <1>4 DEF SheetsDone
  <1>7. TypesDone(b)'
    BY <1>4, SameAt DEF TypesDone, Writes
  <1>8. QED
    BY <1>2, <1>3, <1>5, <1>6, <1>7 DEF OwnInv

\* What a workbook writes is complete unless the generator's budget is used up.
LEMMA WriteFileSteps ==
  ASSUME BaseInv, NEW b \in Books, WriteFile(b)
  PROVE  /\ BookFrame(b) /\ OwnInv(b)' /\ cached' \cap Documents = {} /\ pc'[b] = "over"
         /\ files' = [files EXCEPT ![ProtoPath[b]] = [book |-> b, sheets |-> worksheets[b]]]
         /\ worksheets[b] = SheetSet(b) \/ RootFull
         /\ Writes(b)
  <1>1. /\ TypeOK /\ CollInv /\ ControlOf(b) /\ SheetsDone(b) /\ cached \cap Documents = {}
        /\ pc[b] = "write" /\ idx' = idx /\ Return(b, "ok")
        /\ UNCHANGED <<input, callerVars, pass, cached>> /\ worksheets' = worksheets
        /\ types' = types /\ types \subseteq Types
        /\ files' = [files EXCEPT ![ProtoPath[b]] = [book |-> b, sheets |-> worksheets[b]]]
    BY BaseParts DEF WriteFile, TypeOK
  <1>2. Collect(Root, "ok") /\ Goto(b, "over")
    BY <1>1 DEF Return
  <1>3. CollStep(b) /\ count' = count
    BY <1>1, <1>2, CollectSteps, NodeFacts DEF Outcomes
  <1>4. OnlyAt(b) /\ pc'[b] = "over"
    BY <1>1, <1>2, SameAt DEF WriteFile, Goto, OnlyAt, TypeOK, PCs, Outcomes
  <1>5. files' \in [Paths -> [book : Books \cup {Root}, sheets : SUBSET Pages]]
    BY <1>1, SameAt DEF TypeOK
  <1>6. UNCHANGED <<input, phase, stack, result, pass>>
    BY <1>1 DEF callerVars
  <1>7. BookFrame(b)
    BY <1>1, <1>3, <1>4, <1>5, <1>6, FrameOf
  <1>8. /\ Writes(b) /\ Writes(b)' /\ pass'[b] = pass[b]
        /\ idx[b] > Len(SheetsOf[b]) /\ count[b] = 0
    BY <1>1, <1>7, FrameKeeps DEF ControlOf
  <1>9. worksheets[b] = SheetSet(b) \/ RootFull
    <2>1. \A k \in DOMAIN SheetsOf[b] : k < idx[b]
      BY <1>8, SameAt, PageFacts, <1>1
    <2>2. \A k \in DOMAIN SheetsOf[b] : SheetsOf[b][k] \in worksheets[b] \/ RootFull
      BY <1>1, <1>8, <2>1 DEF SheetsDone
    <2>3. worksheets[b] \subseteq SheetSet(b)
      BY <1>1 DEF SheetsDone
    <2>4. SheetSet(b) = {SheetsOf[b][k] : k \in DOMAIN SheetsOf[b]}
      BY DEF SheetSet, ToSet
    <2>5. QED
      BY <2>2, <2>3, <2>4
  <1>10. ControlOf(b)'
    BY <1>1, <1>4, <1>8 DEF ControlOf
  <1>11. SheetsDone(b)'
    BY <1>1, <1>4 DEF SheetsDone
  <1>12. TypesDone(b)'
    BY <1>8, SameAt, <1>1 DEF TypesDone, Writes
  <1>13. QED
    BY <1>1, <1>4, <1>7, <1>8, <1>9, <1>10, <1>11, <1>12 DEF OwnInv
-----------------------------------------------------------------------------
(* A workbook's step keeps the invariant.                                   *)

\* The last step of a workbook that is exported.
Written(b) ==
  /\ files' = [files EXCEPT ![ProtoPath[b]] = [book |-> b, sheets |-> worksheets[b]]]
  /\ worksheets[b] = SheetSet(b) \/ RootFull
  /\ pc'[b] = "over" /\ Writes(b)

LEMMA BookSteps ==
  ASSUME BaseInv, NEW b \in Books, BookStep(b)
  PROVE  BookFrame(b) /\ OwnInv(b)' /\ cached' \cap Documents = {} /\ (files' = files \/ Written(b))
  BY OpenSteps, BeginSheetSteps, ExtractSteps, ParseFieldSteps, EndFieldsSteps, CollectSheetSteps,
     EndSheetsSteps, ExportSteps, WriteFileSteps DEF BookStep, Written

\* The other workbooks do not notice, but for what is counted and registered.
LEMMA OthersKeep ==
  ASSUME BaseInv, NEW b \in Books, BookFrame(b), NEW c \in Books \ {b}
  PROVE  OwnInv(c)'
  <1>1. /\ TypeOK /\ CollInv /\ ControlOf(c) /\ SheetsDone(c) /\ TypesDone(c)
    BY BaseParts
  <1>2. /\ pc'[c] = pc[c] /\ idx'[c] = idx[c] /\ fld'[c] = fld[c] /\ sres'[c] = sres[c]
        /\ worksheets'[c] = worksheets[c] /\ cached \subseteq cached' /\ types \subseteq types'
        /\ count'[c] = count[c] /\ count'[SheetOf(c)] = count[SheetOf(c)]
    BY DEF BookFrame, CollStep
  <1>3. /\ RootFull => RootFull'
        /\ count[Root] > 0 => count'[Root] > 0
        /\ Writes(c)' = Writes(c) /\ pass'[c] = pass[c] /\ Current(c)' = Current(c)
        /\ \A t : Registered(t) => Registered(t)'
        /\ DeclaredBy(c) \subseteq types => DeclaredBy(c) \subseteq types'
    BY <1>2, FrameKeeps DEF Current
  <1>4. pc[c] \in {"extract", "fields"} => count[SheetOf(c)] <= count[c]
    BY <1>1 DEF CollInv
  <1>5. ControlOf(c)'
    BY <1>1, <1>2, <1>3 DEF ControlOf
  <1>6. SheetsDone(c)'
    BY <1>1, <1>2, <1>3 DEF SheetsDone
  <1>7. TypesDone(c)'
    BY <1>1, <1>2, <1>3 DEF TypesDone
  <1>8. QED
    BY <1>2, <1>4, <1>5, <1>6, <1>7 DEF OwnInv

LEMMA FilesKept ==
  ASSUME BaseInv, NEW b \in Books, BookFrame(b), files' = files \/ Written(b)
  PROVE  FilesInv'
  <1>1. FilesInv /\ (RootFull => RootFull') /\ TypeOK
    BY FrameKeeps DEF BaseInv, WorkInv
  <1>2. CASE files' = files
    BY <1>1, <1>2 DEF FilesInv
  <1>3. CASE Written(b)
    <2>1. ASSUME NEW p \in Paths, files'[p] # NoFile
          PROVE  files'[p].book \in Books /\ (files'[p].sheets = SheetSet(files'[p].book) \/ RootFull')
      <3>1. CASE p = ProtoPath[b]
        <4>1. files'[p] = [book |-> b, sheets |-> worksheets[b]]
          BY <1>1, <1>3, <3>1 DEF Written, TypeOK
        <4>2. QED
          BY <1>1, <1>3, <4>1 DEF Written
      <3>2. CASE p # ProtoPath[b]
        <4>1. files'[p] = files[p]
          BY <1>1, <1>3, <3>2 DEF Written, TypeOK
        <4>2. QED
          BY <1>1, <2>1, <4>1 DEF FilesInv
      <3>3. QED
        BY <3>1, <3>2
    <2>2. QED
      BY <2>1 DEF FilesInv
  <1>4. QED
    BY <1>2, <1>3

LEMMA BaseKept ==
  ASSUME BaseInv, NEW b \in Books, BookStep(b)
  PROVE  BaseInv'
  <1>1. BookFrame(b) /\ OwnInv(b)' /\ cached' \cap Documents = {} /\ (files' = files \/ Written(b))
    BY BookSteps
  <1>2. \A c \in Books : OwnInv(c)'
    BY <1>1, OthersKeep
  <1>3. TypeOK' /\ CollStep(b) /\ TypeOK
    BY <1>1 DEF BookFrame, BaseInv
  <1>4. CollInv'
    <2>1. \A c \in Books : count'[c] <= count'[Root]
      <3>1. ASSUME NEW c \in Books \ {b} PROVE count'[c] <= count'[Root]
        <4>1. count'[c] = count[c] /\ count[c] <= count[Root] /\ count[Root] <= count'[Root]
          BY <1>3 DEF CollStep, BaseInv, CollInv
        <4>2. count[c] \in Nat /\ count[Root] \in Nat /\ count'[Root] \in Nat
          BY <1>3, NodeFacts DEF TypeOK
        <4>3. QED
          BY <4>1, <4>2
      <3>2. QED
        BY <1>3, <3>1 DEF CollStep
    <2>2. QED
      BY <1>2, <1>3, <2>1 DEF CollInv, CollStep, OwnInv
  <1>5. ControlInv'
    BY <1>2 DEF ControlInv, OwnInv
  <1>6. WorkInv'
    <2>1. input' = input /\ types \subseteq types' /\ cached' \subseteq cached \cup {b} /\ pc'[b] # "off"
          /\ \A c \in Books \ {b} : pc'[c] = pc[c]
      BY <1>1 DEF BookFrame
    <2>2. /\ input'.known \subseteq types'
          /\ \A c \in cached' : pc'[c] # "off"
      BY <1>3, <2>1 DEF BaseInv, WorkInv, TypeOK
    <2>3. FilesInv'
      BY <1>1, FilesKept
    <2>4. \A c \in Books : SheetsDone(c)' /\ TypesDone(c)'
      BY <1>2 DEF OwnInv
    <2>5. QED
      BY <1>1, <2>2, <2>3, <2>4 DEF WorkInv
  <1>7. QED
    BY <1>3, <1>4, <1>5, <1>6 DEF BaseInv

\* No workbook is at work: the state in which no goroutine can move.
LEMMA NoneMoves ==
  ASSUME NEW b \in Books, BookFrame(b), Over(Books)
  PROVE  FALSE
  BY DEF BookFrame, Over

LEMMA WalkOfKept ==
  ASSUME NEW st, NEW pcs, NEW qcs, NEW F \in SUBSET Dirs, WalkOf(st, pcs, F),
         \A c \in Books : /\ pcs[c] = "over" => qcs[c] = "over"
                          /\ qcs[c] # "off" <=> pcs[c] # "off"
  PROVE  WalkOf(st, qcs, F)
  <1>1. \A e : Settled(st, pcs, e, F) => Settled(st, qcs, e, F)
    BY DEF Settled
  <1>2. QED
    BY <1>1 DEF WalkOf

\* The walk is over: every directory is finished, every listed workbook over.
LEMMA WalkOver ==
  ASSUME NEW F \in SUBSET Dirs, WalkOf(stack, pc, F), stack = <<>>
  PROVE  F = Dirs /\ (\A b \in Listed : pc[b] = "over") /\ \A b \in Books : pc[b] # "off" => b \in Listed
  <1>1. DOMAIN stack = {} /\ \A d : ~OnStack(stack, d)
    BY DEF OnStack
  <1>2. ToSet(TopDirs) \subseteq F
    BY <1>1 DEF WalkOf
  <1>3. ASSUME NEW d \in F PROVE ToSet(Entries[d]) \cap Dirs \subseteq F
    <2>1. ToSet(Entries[d]) = {Entries[d][k] : k \in DOMAIN Entries[d]}
      BY DEF ToSet
    <2>2. \A k \in DOMAIN Entries[d] : Entries[d][k] \in F \/ Entries[d][k] \in Books
      BY DEF WalkOf
    <2>3. Books \cap Dirs = {}
      BY StructureAssumption
    <2>4. QED
      BY <2>1, <2>2, <2>3
  <1>4. F = Dirs
    BY <1>2, <1>3, TreeAssumption
  <1>5. \A d \in Dirs : ToSet(Entries[d]) = {Entries[d][k] : k \in DOMAIN Entries[d]}
    BY DEF ToSet
  <1>6. \A b \in Listed : pc[b] = "over"
    <2>1. Books \cap Dirs = {}
      BY StructureAssumption
    <2>2. \A b \in Listed : b \in Books /\ \E d \in Dirs : \E k \in DOMAIN Entries[d] : Entries[d][k] = b
      BY <1>5 DEF Listed
    <2>3. \A d \in Dirs : \A k \in DOMAIN Entries[d] :
            Entries[d][k] \in Dirs \/ pc[Entries[d][k]] = "over"
      BY <1>4 DEF WalkOf
    <2>4. QED
      BY <2>1, <2>2, <2>3
  <1>7. ASSUME NEW b \in Books, pc[b] # "off" PROVE b \in Listed
    <2>1. Reached(stack, b, F)
      BY <1>7 DEF WalkOf
    <2>2. \E d \in Dirs : \E k \in DOMAIN Entries[d] : Entries[d][k] = b
      BY <1>1, <1>4, <2>1 DEF Reached
    <2>3. QED
      BY <1>5, <2>2 DEF Listed
  <1>8. QED
    BY <1>4, <1>6, <1>7

LEMMA WalkKept ==
  ASSUME IInv, NEW b \in Books, BookFrame(b)
  PROVE  WalkInv'
  <1>1. SUFFICES ASSUME phase = "walk" PROVE WalkInv'
    BY DEF WalkInv, BookFrame
  <1>2. TypeOK /\ input' = input /\ stack' = stack /\ phase' = phase
    BY DEF IInv, BaseInv, BookFrame
  <1>3. PICK F \in SUBSET Dirs : WalkOf(stack, pc, F)
    BY <1>1 DEF IInv, WalkInv
  <1>4. WalkOf(stack', pc', F)
    <2>1. \A c \in Books : /\ pc[c] = "over" => pc'[c] = "over"
                           /\ pc'[c] # "off" <=> pc[c] # "off"
      BY DEF BookFrame
    <2>2. WalkOf(stack, pc', F)
      BY <1>3, <2>1, WalkOfKept
    <2>3. QED
      BY <1>2, <2>2
  <1>5. stack # <<>>
    <2>1. SUFFICES ASSUME stack = <<>> PROVE FALSE
      OBVIOUS
    <2>2. Over(Books)
      BY <1>2, <1>3, <2>1, WalkOver DEF Over
    <2>3. QED
      BY <2>2, NoneMoves
  <1>6. QED
    BY <1>1, <1>2, <1>4, <1>5 DEF IInv, WalkInv

LEMMA CallerKept ==
  ASSUME IInv, NEW b \in Books, BookFrame(b)
  PROVE  CallerInv' /\ SecondPassKnowsAll'
  <1>1. /\ UNCHANGED <<input, phase, result, pass>> /\ types \subseteq types'
        /\ \A c \in Books : pc[c] # "off" => pc'[c] # "off"
        /\ pc[b] \notin {"off", "over"}
    BY DEF BookFrame
  <1>2. ~Over(Books)
    BY NoneMoves
  <1>3. Scanned' = Scanned /\ TypeOK
    BY <1>1 DEF Scanned, IInv, BaseInv
  <1>4. input.asked \subseteq Books
    BY <1>3, InputAssumption DEF TypeOK
  <1>5. phase # "start" /\ phase # "second" /\ ~(phase = "done" /\ result = "ok")
    BY <1>1, <1>2 DEF IInv, CallerInv
  <1>6. CallerInv'
    BY <1>1, <1>3, <1>4, <1>5 DEF IInv, CallerInv
  <1>7. SecondPassKnowsAll'
    BY <1>1, <1>3 DEF IInv, SecondPassKnowsAll
  <1>8. QED
    BY <1>6, <1>7

LEMMA BookKeeps ==
  ASSUME IInv, NEW b \in Books, BookStep(b)
  PROVE  IInv'
  BY BaseKept, BookSteps, WalkKept, CallerKept DEF IInv
-----------------------------------------------------------------------------
(* The caller's steps keep the invariant.                                   *)

LEMMA BaseStays ==
  ASSUME BaseInv, UNCHANGED <<input, bookVars, sharedVars, collVars>>,
         phase' \in Phases, result' \in Outcomes, stack' \in Seq(Dirs \X Nat)
  PROVE  BaseInv'
  <1>1. /\ pc' = pc /\ pass' = pass /\ idx' = idx /\ fld' = fld /\ sres' = sres
        /\ worksheets' = worksheets /\ types' = types /\ cached' = cached /\ files' = files
        /\ count' = count /\ kept' = kept /\ input' = input
    BY DEF bookVars, sharedVars, collVars
  <1>2. TypeOK'
    BY <1>1 DEF BaseInv, TypeOK
  <1>3. CollInv'
    BY <1>1 DEF BaseInv, CollInv
  <1>4. RootFull' = RootFull /\ \A b \in Books : Writes(b)' = Writes(b) /\ Current(b)' = Current(b)
    BY <1>1 DEF RootFull, Writes, Current
  <1>5. ControlInv'
    BY <1>1, <1>4 DEF BaseInv, ControlInv, ControlOf
  <1>6. FilesInv'
    BY <1>1, <1>4 DEF BaseInv, WorkInv, FilesInv
  <1>7. \A b \in Books : SheetsDone(b)'
    BY <1>1, <1>4 DEF BaseInv, WorkInv, SheetsDone
  <1>8. \A s : Registered(s)' = Registered(s)
    BY <1>1 DEF Registered
  <1>9. \A b \in Books : TypesDone(b)'
    BY <1>1, <1>4, <1>8 DEF BaseInv, WorkInv, TypesDone
  <1>10. WorkInv'
    BY <1>1, <1>6, <1>7, <1>9 DEF BaseInv, WorkInv
  <1>11. QED
    BY <1>2, <1>3, <1>5, <1>10 DEF BaseInv

LEMMA StartFacts ==
  ASSUME TypeOK, NEW bs \in SUBSET Books, NEW p \in {1, 2}, Start(bs, p)
  PROVE  /\ pc' \in [Books -> PCs] /\ pass' \in [Books -> {1, 2}]
         /\ \A b \in bs : pc'[b] = "open" /\ pass'[b] = p
         /\ \A b \in Books \ bs : pc'[b] = pc[b] /\ pass'[b] = pass[b]
  BY DEF Start, TypeOK, PCs

\* A pass is started for workbooks whose goroutines are not at work.
LEMMA StartKeeps ==
  ASSUME BaseInv, NEW bs \in SUBSET Books, NEW p \in {1, 2}, Start(bs, p),
         \A b \in bs : pc[b] \in {"off", "over"},
         UNCHANGED <<input, sharedVars, collVars>>,
         phase' \in Phases, result' \in Outcomes, stack' \in Seq(Dirs \X Nat)
  PROVE  BaseInv'
  <1>1. /\ idx' = idx /\ fld' = fld /\ sres' = sres
        /\ worksheets' = worksheets /\ types' = types /\ cached' = cached /\ files' = files
        /\ count' = count /\ kept' = kept /\ input' = input
    BY DEF Start, sharedVars, collVars
  <1>2. TypeOK
    BY DEF BaseInv
  <1>3. /\ pc' \in [Books -> PCs] /\ pass' \in [Books -> {1, 2}]
        /\ \A b \in bs : pc'[b] = "open" /\ pass'[b] = p
        /\ \A b \in Books \ bs : pc'[b] = pc[b] /\ pass'[b] = pass[b]
    BY <1>2, StartFacts
  <1>4. TypeOK'
    BY <1>1, <1>2, <1>3 DEF TypeOK
  <1>5. CollInv'
    <2>1. \A b \in Books : pc'[b] \in {"extract", "fields"} => pc'[b] = pc[b]
      BY <1>3
    <2>2. QED
      BY <1>1, <2>1 DEF BaseInv, CollInv
  <1>6. RootFull' = RootFull /\ \A s : Registered(s)' = Registered(s)
    BY <1>1 DEF RootFull, Registered
  <1>7. ASSUME NEW b \in Books PROVE ControlOf(b)' /\ SheetsDone(b)' /\ TypesDone(b)'
    <2>1. ControlOf(b) /\ SheetsDone(b) /\ TypesDone(b)
      BY BaseParts
    <2>2. Current(b)' = Current(b)
      BY <1>1 DEF Current
    <2>3. CASE b \in bs
      <3>1. ControlOf(b)'
        BY <1>3, <2>3 DEF ControlOf
      <3>2. SheetsDone(b)'
        BY <1>1, <1>3, <2>1, <2>3 DEF SheetsDone
      <3>3. TypesDone(b)'
        BY <1>3, <2>3 DEF TypesDone
      <3>4. QED
        BY <3>1, <3>2, <3>3
    <2>4. CASE b \notin bs
      <3>1. pc'[b] = pc[b] /\ pass'[b] = pass[b] /\ Writes(b)' = Writes(b)
        BY <1>3, <2>4 DEF Writes
      <3>2. ControlOf(b)'
        BY <1>1, <2>1, <2>2, <3>1 DEF ControlOf
      <3>3. SheetsDone(b)'
        BY <1>1, <1>6, <2>1, <2>2, <3>1 DEF SheetsDone
      <3>4. TypesDone(b)'
        BY <1>1, <1>6, <2>1, <2>2, <3>1 DEF TypesDone
      <3>5. QED
        BY <3>2, <3>3, <3>4
    <2>5. QED
      BY <2>3, <2>4
  <1>8. FilesInv'
    BY <1>1, <1>6 DEF BaseInv, WorkInv, FilesInv
  <1>9. \A b \in cached' : pc'[b] # "off"
    BY <1>1, <1>2, <1>3 DEF BaseInv, WorkInv, TypeOK
  <1>10. WorkInv'
    BY <1>1, <1>7, <1>8, <1>9 DEF BaseInv, WorkInv
  <1>11. QED
    BY <1>4, <1>5, <1>7, <1>10 DEF BaseInv, ControlInv

\* Nobody was told of an error: none was counted.
LEMMA NoErrors ==
  ASSUME BaseInv, JoinIfErrors(Root) = "ok"
  PROVE  count[Root] = 0
  <1>1. count[Root] \in Nat /\ (count[Root] > 0 => kept[Root] > 0)
    BY NodeFacts DEF BaseInv, TypeOK, CollInv
  <1>2. QED
    BY <1>1, JoinIfErrorsFacts

\* The first pass is over without errors: its types are registered.
LEMMA AllDeclared ==
  ASSUME BaseInv, count[Root] = 0, NEW bs \in SUBSET Books,
         \A b \in bs : pc[b] = "over" /\ pass[b] = 1
  PROVE  Declared(bs) \subseteq types
  <1>1. ASSUME NEW b \in bs \ Documents PROVE DeclaredBy(b) \subseteq types
    <2>1. TypesDone(b)
      BY BaseParts
    <2>2. QED
      BY <2>1 DEF TypesDone
  <1>2. QED
    BY <1>1 DEF Declared

\* The innermost directory and the entry it is at.
LEMMA TopOf ==
  ASSUME TypeOK, stack # <<>>
  PROVE  \E d \in Dirs, k \in Nat :
           /\ Last(stack) = <<d, k>> /\ stack[Len(stack)] = <<d, k>>
           /\ stack[Len(stack)][1] = d /\ stack[Len(stack)][2] = k
           /\ Len(stack) \in Nat /\ Len(stack) \in DOMAIN stack /\ DOMAIN stack = 1..Len(stack)
  <1>1. stack \in Seq(Dirs \X Nat) /\ Len(stack) \in Nat /\ Len(stack) # 0 /\ DOMAIN stack = 1..Len(stack)
    BY DEF TypeOK
  <1>2. stack[Len(stack)] \in Dirs \X Nat
    BY <1>1
  <1>3. PICK d \in Dirs, k \in Nat : stack[Len(stack)] = <<d, k>>
    BY <1>2
  <1>4. Last(stack) = stack[Len(stack)]
    BY DEF Last
  <1>5. stack[Len(stack)][1] = d /\ stack[Len(stack)][2] = k
    BY <1>3
  <1>6. QED
    BY <1>1, <1>3, <1>4, <1>5

LEMMA EntryFacts ==
  ASSUME NEW d \in Dirs
  PROVE  /\ Entries[d] \in Seq(Books \cup Dirs) /\ Len(Entries[d]) \in Nat
         /\ DOMAIN Entries[d] = 1..Len(Entries[d])
         /\ \A k \in DOMAIN Entries[d] : Entries[d][k] \in Books \cup Dirs
         /\ ToSet(Entries[d]) = {Entries[d][k] : k \in DOMAIN Entries[d]}
  <1>1. Entries[d] \in Seq(Books \cup Dirs)
    BY StructureAssumption
  <1>2. QED
    BY <1>1 DEF ToSet

Stacks == Seq(Dirs \X Nat)

LEMMA StackFacts ==
  ASSUME NEW st \in Stacks
  PROVE  /\ Len(st) \in Nat /\ DOMAIN st = 1..Len(st)
         /\ \A j \in DOMAIN st : st[j][1] \in Dirs /\ st[j][2] \in Nat
         /\ \A j \in DOMAIN st : \A l \in DOMAIN Entries[st[j][1]] : l \in Nat
  <1>1. Len(st) \in Nat /\ DOMAIN st = 1..Len(st) /\ \A j \in DOMAIN st : st[j] \in Dirs \X Nat
    BY DEF Stacks
  <1>2. \A j \in DOMAIN st : st[j][1] \in Dirs /\ st[j][2] \in Nat
    BY <1>1
  <1>3. QED
    BY <1>1, <1>2, EntryFacts

\* A stack on which some directories are further, and others entered.
Grown(st, su) ==
  /\ DOMAIN st \subseteq DOMAIN su
  /\ \A j \in DOMAIN st : su[j][1] = st[j][1] /\ st[j][2] <= su[j][2]

LEMMA GrownFacts ==
  ASSUME NEW st \in Stacks, NEW su \in Stacks, Grown(st, su), NEW F
  PROVE  /\ \A x : Reached(st, x, F) => Reached(su, x, F)
         /\ \A x : OnStack(st, x) => OnStack(su, x)
         /\ \A j \in DOMAIN st : HasParent(st, j) => HasParent(su, j)
  <1>1. \A j \in DOMAIN st : \A l \in DOMAIN Entries[st[j][1]] : l <= st[j][2] => l <= su[j][2]
    <2>1. \A j \in DOMAIN st : st[j][2] \in Nat /\ su[j][2] \in Nat /\ st[j][2] <= su[j][2]
                               /\ \A l \in DOMAIN Entries[st[j][1]] : l \in Nat
      BY StackFacts DEF Grown
    <2>2. QED
      BY <2>1
  <1>2. \A x : Reached(st, x, F) => Reached(su, x, F)
    BY <1>1 DEF Reached, Grown
  <1>3. \A x : OnStack(st, x) => OnStack(su, x)
    BY DEF OnStack, Grown
  <1>4. \A j \in DOMAIN st : HasParent(st, j) => HasParent(su, j)
    BY <1>1 DEF HasParent, Grown
  <1>5. QED
    BY <1>2, <1>3, <1>4

\* The entry the walk comes to has not been started, finished or entered yet.
LEMMA NextEntryIsNew ==
  ASSUME NEW st \in Stacks, NEW pcs, NEW F \in SUBSET Dirs, WalkOf(st, pcs, F), NEW n \in DOMAIN st,
         NEW k \in Nat, k = st[n][2], k + 1 \in DOMAIN Entries[st[n][1]],
         NEW e, e = Entries[st[n][1]][k + 1]
  PROVE  /\ e \in Books \cup Dirs /\ e \notin ToSet(TopDirs)
         /\ ~Reached(st, e, F) /\ e \notin F /\ ~OnStack(st, e) /\ (e \in Books => pcs[e] = "off")
  <1> DEFINE d == st[n][1]
  <1>1. d \in Dirs
    BY StackFacts
  <1>2. e \in Books \cup Dirs /\ e \notin ToSet(TopDirs)
    BY <1>1, EntryFacts, TreeAssumption
  <1>3. \A c \in Dirs : \A l \in DOMAIN Entries[c] : Entries[c][l] = e => c = d /\ l = k + 1
    BY <1>1, TreeAssumption
  <1>4. d \notin F /\ \A j \in DOMAIN st : st[j][1] = d => j = n
    BY DEF WalkOf
  <1>5. ~Reached(st, e, F)
    <2>1. ASSUME NEW c \in F, NEW l \in DOMAIN Entries[c], Entries[c][l] = e PROVE FALSE
      BY <1>3, <1>4, <2>1
    <2>2. ASSUME NEW j \in DOMAIN st, NEW l \in DOMAIN Entries[st[j][1]],
                 l <= st[j][2], Entries[st[j][1]][l] = e
          PROVE  FALSE
      <3>1. st[j][1] = d /\ l = k + 1
        BY <1>3, <2>2, StackFacts
      <3>2. j = n
        BY <1>4, <3>1
      <3>3. QED
        BY <2>2, <3>1, <3>2
    <2>3. QED
      BY <2>1, <2>2 DEF Reached
  <1>6. e \notin F
    BY <1>2, <1>5 DEF WalkOf
  <1>7. ~OnStack(st, e)
    <2>1. SUFFICES ASSUME NEW j \in DOMAIN st, st[j][1] = e PROVE FALSE
      BY DEF OnStack
    <2>2. HasParent(st, j)
      BY <1>2, <2>1 DEF WalkOf
    <2>3. QED
      BY <1>5, <2>1, <2>2 DEF Reached, HasParent
  <1>8. e \in Books => pcs[e] = "off"
    BY <1>5 DEF WalkOf
  <1>9. QED
    BY <1>2, <1>5, <1>6, <1>7, <1>8

\* The walk at a workbook: it is started.
LEMMA WalkOfBook ==
  ASSUME NEW st \in Stacks, NEW su \in Stacks, NEW pcs, NEW qcs, NEW F \in SUBSET Dirs,
         WalkOf(st, pcs, F), NEW n \in DOMAIN st,
         NEW k \in Nat, k = st[n][2], k + 1 \in DOMAIN Entries[st[n][1]],
         NEW e \in Books, e = Entries[st[n][1]][k + 1],
         DOMAIN su = DOMAIN st, \A j \in DOMAIN st : su[j][1] = st[j][1],
         su[n][2] = k + 1, \A j \in DOMAIN st : j # n => su[j][2] = st[j][2],
         qcs[e] = "open", \A b \in Books \ {e} : qcs[b] = pcs[b]
  PROVE  WalkOf(su, qcs, F)
  <1>1. ~Reached(st, e, F) /\ e \notin F /\ pcs[e] = "off"
    BY NextEntryIsNew
  <1>2. Grown(st, su)
    <2>1. \A j \in DOMAIN st : st[j][2] <= su[j][2]
      BY StackFacts
    <2>2. QED
      BY <2>1 DEF Grown
  <1>3. /\ \A x : Reached(st, x, F) => Reached(su, x, F)
        /\ \A x : OnStack(st, x) => OnStack(su, x)
        /\ \A j \in DOMAIN st : HasParent(st, j) => HasParent(su, j)
    BY <1>2, GrownFacts
  <1>4. Reached(su, e, F)
    BY DEF Reached
  <1>5. \A x : Settled(st, pcs, x, F) => Settled(su, qcs, x, F)
    BY <1>3 DEF Settled
  <1>6. Settled(su, qcs, e, F)
    BY DEF Settled
  <1>7. \A j \in DOMAIN su : su[j][2] <= Len(Entries[su[j][1]]) /\ su[j][1] \notin F
    <2>1. k + 1 <= Len(Entries[st[n][1]])
      BY StackFacts, EntryFacts
    <2>2. QED
      BY <2>1 DEF WalkOf
  <1>8. \A i, j \in DOMAIN su : su[i][1] = su[j][1] => i = j
    BY DEF WalkOf
  <1>9. \A j \in DOMAIN su : su[j][1] \in ToSet(TopDirs) \/ HasParent(su, j)
    BY <1>3 DEF WalkOf
  <1>10. \A t \in ToSet(TopDirs) : t \in F \/ OnStack(su, t)
    BY <1>3 DEF WalkOf
  <1>11. \A c \in F : c \in ToSet(TopDirs) \/ Reached(su, c, F)
    BY <1>3 DEF WalkOf
  <1>12. \A c \in F : \A l \in DOMAIN Entries[c] :
           Entries[c][l] \in F \/ (Entries[c][l] \in Books /\ qcs[Entries[c][l]] = "over")
    BY <1>1 DEF WalkOf
  <1>13. ASSUME NEW j \in DOMAIN su, NEW l \in DOMAIN Entries[su[j][1]], l <= su[j][2]
         PROVE  Settled(su, qcs, Entries[su[j][1]][l], F)
    <2>1. CASE l <= st[j][2]
      <3>1. Settled(st, pcs, Entries[st[j][1]][l], F)
        BY <2>1 DEF WalkOf
      <3>2. QED
        BY <1>5, <3>1
    <2>2. CASE ~(l <= st[j][2])
      <3>1. l \in Nat /\ st[j][2] \in Nat
        BY StackFacts
      <3>2. j = n
        BY <1>13, <2>2
      <3>3. l = k + 1
        BY <1>13, <2>2, <3>1, <3>2
      <3>4. QED
        BY <1>6, <3>2, <3>3
    <2>3. QED
      BY <2>1, <2>2
  <1>14. \A b \in Books : qcs[b] # "off" => Reached(su, b, F)
    BY <1>3, <1>4 DEF WalkOf
  <1>15. QED
    BY <1>7, <1>8, <1>9, <1>10, <1>11, <1>12, <1>13, <1>14 DEF WalkOf

\* The walk at a directory: it is entered.
LEMMA WalkOfDir ==
  ASSUME NEW st \in Stacks, NEW su \in Stacks, NEW pcs, NEW F \in SUBSET Dirs,
         WalkOf(st, pcs, F), NEW n \in DOMAIN st, n = Len(st),
         NEW k \in Nat, k = st[n][2], k + 1 \in DOMAIN Entries[st[n][1]],
         NEW e \in Dirs, e = Entries[st[n][1]][k + 1],
         DOMAIN su = DOMAIN st \cup {n + 1}, \A j \in DOMAIN st : su[j][1] = st[j][1],
         su[n][2] = k + 1, \A j \in DOMAIN st : j # n => su[j][2] = st[j][2],
         su[n + 1][1] = e, su[n + 1][2] = 0
  PROVE  WalkOf(su, pcs, F)
  <1>1. ~Reached(st, e, F) /\ e \notin F /\ ~OnStack(st, e) /\ n \in Nat /\ n + 1 \notin DOMAIN st
    BY NextEntryIsNew, StackFacts
  <1>2. Grown(st, su)
    <2>1. \A j \in DOMAIN st : st[j][2] <= su[j][2]
      BY StackFacts
    <2>2. QED
      BY <2>1 DEF Grown
  <1>3. /\ \A x : Reached(st, x, F) => Reached(su, x, F)
        /\ \A x : OnStack(st, x) => OnStack(su, x)
        /\ \A j \in DOMAIN st : HasParent(st, j) => HasParent(su, j)
    BY <1>2, GrownFacts
  <1>4. \A x : Settled(st, pcs, x, F) => Settled(su, pcs, x, F)
    BY <1>3 DEF Settled
  <1>5. OnStack(su, e) /\ Settled(su, pcs, e, F)
    BY DEF Settled, OnStack
  <1>6. HasParent(su, n + 1)
    <2>1. n < n + 1 /\ k + 1 <= su[n][2] /\ Entries[su[n][1]][k + 1] = su[n + 1][1]
      BY <1>1
    <2>2. QED
      BY <2>1 DEF HasParent
  <1>7. \A j \in DOMAIN su : su[j][2] <= Len(Entries[su[j][1]]) /\ su[j][1] \notin F
    <2>1. k + 1 <= Len(Entries[st[n][1]]) /\ 0 <= Len(Entries[e])
      BY StackFacts, EntryFacts
    <2>2. QED
      BY <1>1, <2>1 DEF WalkOf
  <1>8. \A i, j \in DOMAIN su : su[i][1] = su[j][1] => i = j
    <2>1. \A i \in DOMAIN st : st[i][1] # e
      BY <1>1 DEF OnStack
    <2>2. QED
      BY <2>1 DEF WalkOf
  <1>9. \A j \in DOMAIN su : su[j][1] \in ToSet(TopDirs) \/ HasParent(su, j)
    BY <1>3, <1>6 DEF WalkOf
  <1>10. \A t \in ToSet(TopDirs) : t \in F \/ OnStack(su, t)
    BY <1>3 DEF WalkOf
  <1>11. \A c \in F : c \in ToSet(TopDirs) \/ Reached(su, c, F)
    BY <1>3 DEF WalkOf
  <1>12. \A c \in F : \A l \in DOMAIN Entries[c] :
           Entries[c][l] \in F \/ (Entries[c][l] \in Books /\ pcs[Entries[c][l]] = "over")
    BY DEF WalkOf
  <1>13. ASSUME NEW j \in DOMAIN su, NEW l \in DOMAIN Entries[su[j][1]], l <= su[j][2]
         PROVE  Settled(su, pcs, Entries[su[j][1]][l], F)
    <2>1. CASE j = n + 1
      <3>1. l \in Nat \ {0}
        BY <2>1, EntryFacts
      <3>2. QED
        BY <1>13, <2>1, <3>1
    <2>2. CASE j \in DOMAIN st /\ l <= st[j][2]
      <3>1. Settled(st, pcs, Entries[st[j][1]][l], F)
        BY <2>2 DEF WalkOf
      <3>2. QED
        BY <1>4, <2>2, <3>1
    <2>3. CASE j \in DOMAIN st /\ ~(l <= st[j][2])
      <3>1. l \in Nat /\ st[j][2] \in Nat
        BY <2>3, StackFacts
      <3>2. j = n
        BY <1>13, <2>3
      <3>3. l = k + 1
        BY <1>13, <2>3, <3>1, <3>2
      <3>4. QED
        BY <1>5, <3>2, <3>3
    <2>4. QED
      BY <2>1, <2>2, <2>3
  <1>14. \A b \in Books : pcs[b] # "off" => Reached(su, b, F)
    BY <1>3 DEF WalkOf
  <1>15. QED
    BY <1>7, <1>8, <1>9, <1>10, <1>11, <1>12, <1>13, <1>14 DEF WalkOf

\* A directory whose workbooks are over is finished.
LEMMA WalkOfWait ==
  ASSUME NEW st \in Stacks, NEW su \in Stacks, NEW pcs, NEW F \in SUBSET Dirs,
         WalkOf(st, pcs, F), NEW n \in DOMAIN st, n = Len(st),
         NEW d \in Dirs, st[n][1] = d, st[n][2] = Len(Entries[d]),
         \A b \in Books \cap ToSet(Entries[d]) : pcs[b] \in {"off", "over"},
         DOMAIN su = DOMAIN st \ {n}, \A j \in DOMAIN su : su[j] = st[j]
  PROVE  WalkOf(su, pcs, F \cup {d})
  <1> DEFINE G == F \cup {d}
  <1>1. \A j \in DOMAIN st : j \in Nat /\ (j # n => j < n) /\ st[j][1] \in Dirs
    BY StackFacts
  <1>2. \A j \in DOMAIN st : j # n => st[j][1] # d
    BY DEF WalkOf
  <1>3. \A x : OnStack(st, x) => OnStack(su, x) \/ x = d
    BY DEF OnStack
  <1>4. \A x : Reached(st, x, F) => Reached(su, x, G)
    BY DEF Reached
  <1>5. \A x : Settled(st, pcs, x, F) => Settled(su, pcs, x, G)
    BY <1>3 DEF Settled
  <1>6. \A j \in DOMAIN st : HasParent(st, j) =>
          \E i \in DOMAIN su : \E l \in DOMAIN Entries[su[i][1]] :
            i < j /\ l <= su[i][2] /\ Entries[su[i][1]][l] = st[j][1]
    BY <1>1 DEF HasParent
  <1>7. /\ \A j \in DOMAIN su : su[j][2] <= Len(Entries[su[j][1]]) /\ su[j][1] \notin G
        /\ \A i, j \in DOMAIN su : su[i][1] = su[j][1] => i = j
    BY <1>2 DEF WalkOf
  <1>8. \A j \in DOMAIN su : su[j][1] \in ToSet(TopDirs) \/ HasParent(su, j)
    BY <1>6 DEF WalkOf, HasParent
  <1>9. \A t \in ToSet(TopDirs) : t \in G \/ OnStack(su, t)
    BY <1>3 DEF WalkOf
  <1>10. \A c \in G : c \in ToSet(TopDirs) \/ Reached(su, c, G)
    <2>1. d \in ToSet(TopDirs) \/ HasParent(st, n)
      BY DEF WalkOf
    <2>2. HasParent(st, n) => Reached(su, d, G)
      BY <1>6 DEF Reached
    <2>3. QED
      BY <1>4, <2>1, <2>2 DEF WalkOf
  <1>11. ASSUME NEW l \in DOMAIN Entries[d], NEW x, x = Entries[d][l]
         PROVE  x \in G \/ (x \in Books /\ pcs[x] = "over")
    <2>1. l <= st[n][2]
      BY EntryFacts
    <2>2. Settled(st, pcs, x, F)
      BY <1>11, <2>1 DEF WalkOf
    <2>3. CASE x \in Books /\ pcs[x] # "off"
      <3>1. x \in Books \cap ToSet(Entries[d])
        BY <1>11, <2>3, EntryFacts
      <3>2. QED
        BY <2>3, <3>1
    <2>4. CASE OnStack(st, x)
      <3>1. PICK j \in DOMAIN st : st[j][1] = x
        BY <2>4 DEF OnStack
      <3>2. x \notin ToSet(TopDirs)
        BY <1>11, TreeAssumption
      <3>3. HasParent(st, j)
        BY <3>1, <3>2 DEF WalkOf
      <3>4. PICK i \in DOMAIN su : \E m \in DOMAIN Entries[su[i][1]] : Entries[su[i][1]][m] = x
        BY <1>6, <3>1, <3>3
      <3>5. st[i][1] = d
        BY <1>1, <1>11, <3>4, TreeAssumption
      <3>6. QED
        BY <1>2, <3>4, <3>5
    <2>5. QED
      BY <2>2, <2>3, <2>4 DEF Settled
  <1>12. \A c \in G : \A l \in DOMAIN Entries[c] :
           Entries[c][l] \in G \/ (Entries[c][l] \in Books /\ pcs[Entries[c][l]] = "over")
    BY <1>11 DEF WalkOf
  <1>13. ASSUME NEW j \in DOMAIN su, NEW l \in DOMAIN Entries[su[j][1]], l <= su[j][2]
         PROVE  Settled(su, pcs, Entries[su[j][1]][l], G)
    <2>1. Settled(st, pcs, Entries[st[j][1]][l], F)
      BY <1>13 DEF WalkOf
    <2>2. QED
      BY <1>5, <2>1
  <1>14. \A b \in Books : pcs[b] # "off" => Reached(su, b, G)
    BY <1>4 DEF WalkOf
  <1>15. QED
    BY <1>7, <1>8, <1>9, <1>10, <1>12, <1>13, <1>14 DEF WalkOf

LEMMA WalkKeeps ==
  ASSUME IInv, Walk
  PROVE  IInv'
  <1>1. /\ BaseInv /\ TypeOK /\ phase = "walk" /\ stack # <<>> /\ input' = input
        /\ UNCHANGED <<input, sharedVars, collVars>> /\ input.mode \in {"all", "normal"}
        /\ result \in Outcomes /\ stack \in Stacks
    BY DEF IInv, BaseInv, Walk, WalkInv, TypeOK, Stacks
  <1>2. PICK d \in Dirs, k \in Nat :
          /\ Last(stack) = <<d, k>> /\ stack[Len(stack)] = <<d, k>>
          /\ stack[Len(stack)][1] = d /\ stack[Len(stack)][2] = k
          /\ Len(stack) \in Nat /\ Len(stack) \in DOMAIN stack /\ DOMAIN stack = 1..Len(stack)
    BY <1>1, TopOf
  <1>3. PICK F \in SUBSET Dirs : WalkOf(stack, pc, F)
    BY <1>1 DEF IInv, WalkInv
  <1>4. PICK n \in Nat : n = Len(stack)
    BY <1>2
  <1> DEFINE next == [stack EXCEPT ![n] = <<d, k + 1>>]
  <1>5. Last(stack)[1] = d /\ Last(stack)[2] = k
    BY <1>2
  <1>6. k < Len(Entries[d]) /\ k + 1 \in DOMAIN Entries[d]
    BY <1>1, <1>5, EntryFacts DEF Walk
  <1>7. \A b \in Books : pass[b] = 1
    BY <1>1 DEF IInv, CallerInv
  <1>8. /\ next \in Stacks /\ DOMAIN next = DOMAIN stack /\ Len(next) = n
        /\ next[n][1] = d /\ next[n][2] = k + 1
        /\ \A j \in DOMAIN stack : j # n => next[j] = stack[j]
    BY <1>1, <1>2, <1>4 DEF Stacks
  <1>9. CASE EndWalk("plain") /\ UNCHANGED bookVars
    <2>1. phase' = "done" /\ result' = "plain" /\ stack' = <<>> /\ pass' = pass
      BY <1>9 DEF EndWalk, bookVars
    <2>2. BaseInv'
      BY <1>1, <1>9, <2>1, BaseStays DEF Phases, Outcomes
    <2>3. QED
      BY <1>7, <2>1, <2>2 DEF IInv, WalkInv, CallerInv, SecondPassKnowsAll
  <1>10. ASSUME NEW e \in Books, e = Entries[d][k + 1], Start({e}, 1), stack' = next,
                phase' = phase, result' = result
         PROVE  IInv'
    <2>1. /\ pc'[e] = "open" /\ pass'[e] = 1
          /\ \A b \in Books \ {e} : pc'[b] = pc[b] /\ pass'[b] = pass[b]
      <3>1. {e} \in SUBSET Books
        OBVIOUS
      <3>2. QED
        BY <1>1, <1>10, <3>1, StartFacts
    <2>2. pc[e] = "off"
      BY <1>1, <1>2, <1>3, <1>4, <1>6, <1>10, NextEntryIsNew
    <2>3. BaseInv'
      <3>1. {e} \in SUBSET Books /\ stack' \in Seq(Dirs \X Nat) /\ phase' \in Phases /\ result' \in Outcomes
        BY <1>1, <1>8, <1>10 DEF Stacks, Phases
      <3>2. QED
        BY <1>1, <1>10, <2>2, <3>1, StartKeeps
    <2>4. WalkOf(next, pc', F)
      <3>1. /\ stack \in Stacks /\ next \in Stacks /\ WalkOf(stack, pc, F)
            /\ n \in DOMAIN stack /\ k = stack[n][2] /\ k + 1 \in DOMAIN Entries[stack[n][1]]
            /\ e = Entries[stack[n][1]][k + 1]
            /\ DOMAIN next = DOMAIN stack
            /\ \A j \in DOMAIN stack : next[j][1] = stack[j][1]
            /\ next[n][2] = k + 1
            /\ \A j \in DOMAIN stack : j # n => next[j][2] = stack[j][2]
            /\ pc'[e] = "open" /\ \A b \in Books \ {e} : pc'[b] = pc[b]
        BY <1>1, <1>2, <1>3, <1>4, <1>6, <1>8, <1>10, <2>1
      <3>2. HIDE DEF next
      <3>3. QED
        BY <3>1, WalkOfBook
    <2>5. stack' # <<>>
      BY <1>2, <1>4, <1>8, <1>10
    <2>6. WalkInv'
      BY <1>1, <1>10, <2>4, <2>5 DEF WalkInv
    <2>7. CallerInv' /\ SecondPassKnowsAll'
      BY <1>1, <1>7, <1>10, <2>1 DEF CallerInv, SecondPassKnowsAll
    <2>8. QED
      BY <2>3, <2>6, <2>7 DEF IInv
  <1>11. ASSUME NEW e \in Dirs, e = Entries[d][k + 1], stack' = Append(next, <<e, 0>>),
                UNCHANGED <<phase, result, bookVars>>
         PROVE  IInv'
    <2>1. <<e, 0>> \in Dirs \X Nat
      OBVIOUS
    <2>2. /\ stack' \in Stacks /\ DOMAIN stack' = 1..(n + 1) /\ stack'[n + 1] = <<e, 0>>
          /\ \A j \in 1..n : stack'[j] = next[j]
      <3>1. HIDE DEF next
      <3>2. QED
        BY <1>4, <1>8, <1>11, <2>1 DEF Stacks
    <2>3. pc' = pc /\ pass' = pass /\ phase' = phase /\ result' = result
      BY <1>11 DEF bookVars
    <2>4. BaseInv'
      BY <1>1, <1>11, <2>2, <2>3, BaseStays DEF Stacks, Phases
    <2>5. WalkOf(stack', pc, F)
      <3>1. /\ DOMAIN stack' = DOMAIN stack \cup {n + 1}
            /\ \A j \in DOMAIN stack : stack'[j][1] = stack[j][1]
            /\ stack'[n][2] = k + 1
            /\ \A j \in DOMAIN stack : j # n => stack'[j][2] = stack[j][2]
            /\ stack'[n + 1][1] = e /\ stack'[n + 1][2] = 0
        BY <1>2, <1>4, <1>8, <2>2
      <3>2. /\ stack \in Stacks /\ stack' \in Stacks /\ WalkOf(stack, pc, F)
            /\ n \in DOMAIN stack /\ n = Len(stack)
            /\ k = stack[n][2] /\ k + 1 \in DOMAIN Entries[stack[n][1]]
            /\ e = Entries[stack[n][1]][k + 1]
        BY <1>1, <1>2, <1>3, <1>4, <1>6, <1>11, <2>2
      <3>3. HIDE DEF next
      <3>4. QED
        BY <3>1, <3>2, WalkOfDir
    <2>6. stack' # <<>>
      BY <1>4, <2>2
    <2>7. WalkInv'
      BY <1>1, <2>3, <2>5, <2>6 DEF WalkInv
    <2>8. CallerInv' /\ SecondPassKnowsAll'
      BY <1>1, <1>7, <2>3 DEF CallerInv, SecondPassKnowsAll
    <2>9. QED
      BY <2>4, <2>7, <2>8 DEF IInv
  <1>12. QED
    BY <1>4, <1>5, <1>9, <1>10, <1>11 DEF Walk

LEMMA WaitDirKeeps ==
  ASSUME IInv, WaitDir
  PROVE  IInv'
  <1>1. /\ BaseInv /\ TypeOK /\ phase = "walk" /\ stack # <<>> /\ input' = input
        /\ UNCHANGED <<input, bookVars, sharedVars, collVars>> /\ input.mode \in {"all", "normal"}
        /\ pc' = pc /\ pass' = pass /\ count' = count
        /\ result \in Outcomes /\ stack \in Stacks
    BY DEF IInv, BaseInv, WaitDir, WalkInv, TypeOK, Stacks, bookVars, collVars
  <1>2. \A b \in Books : pass[b] = 1
    BY <1>1 DEF IInv, CallerInv
  <1>3. CASE JoinIfErrors(Root) = "ok" /\ stack' = Front(stack) /\ UNCHANGED <<phase, result>>
    <2>1. PICK d \in Dirs, k \in Nat :
            /\ Last(stack) = <<d, k>> /\ stack[Len(stack)] = <<d, k>>
            /\ stack[Len(stack)][1] = d /\ stack[Len(stack)][2] = k
            /\ Len(stack) \in Nat /\ Len(stack) \in DOMAIN stack /\ DOMAIN stack = 1..Len(stack)
      BY <1>1, TopOf
    <2>2. PICK F \in SUBSET Dirs : WalkOf(stack, pc, F)
      BY <1>1 DEF IInv, WalkInv
    <2>3. PICK n \in Nat : n = Len(stack)
      BY <2>1
    <2>4. /\ stack' \in Stacks /\ DOMAIN stack' = DOMAIN stack \ {n}
          /\ \A j \in DOMAIN stack' : stack'[j] = stack[j]
      BY <1>1, <1>3, <2>1, <2>3 DEF Front, Stacks
    <2>5. Last(stack)[1] = d /\ Last(stack)[2] = k
      BY <2>1
    <2>6. k = Len(Entries[d]) /\ \A b \in Books \cap ToSet(Entries[d]) : pc[b] \in {"off", "over"}
      BY <2>5 DEF WaitDir, Over
    <2>7. WalkOf(stack', pc, F \cup {d})
      <3>1. /\ stack \in Stacks /\ stack' \in Stacks /\ WalkOf(stack, pc, F)
            /\ n \in DOMAIN stack /\ n = Len(stack)
            /\ stack[n][1] = d /\ stack[n][2] = Len(Entries[d])
            /\ \A b \in Books \cap ToSet(Entries[d]) : pc[b] \in {"off", "over"}
            /\ DOMAIN stack' = DOMAIN stack \ {n} /\ \A j \in DOMAIN stack' : stack'[j] = stack[j]
        BY <1>1, <2>1, <2>2, <2>3, <2>4, <2>6
      <3>2. QED
        BY <3>1, WalkOfWait
    <2>8. BaseInv'
      BY <1>1, <1>3, <2>4, BaseStays DEF Stacks, Phases
    <2>9. count[Root] = 0
      BY <1>1, <1>3, NoErrors
    <2>10. WalkInv'
      <3>1. F \cup {d} \in SUBSET Dirs
        OBVIOUS
      <3>2. QED
        BY <1>1, <1>3, <2>7, <2>9, <3>1 DEF WalkInv
    <2>11. CallerInv' /\ SecondPassKnowsAll'
      BY <1>1, <1>2, <1>3 DEF CallerInv, SecondPassKnowsAll
    <2>12. QED
      BY <2>8, <2>10, <2>11 DEF IInv
  <1>4. CASE EndWalk("joined")
    <2>1. phase' = "done" /\ result' = "joined" /\ stack' = <<>>
      BY <1>4 DEF EndWalk
    <2>2. BaseInv'
      BY <1>1, <2>1, BaseStays DEF Phases, Outcomes
    <2>3. QED
      BY <1>1, <1>2, <2>1, <2>2 DEF IInv, WalkInv, CallerInv, SecondPassKnowsAll
  <1>5. QED
    BY <1>3, <1>4 DEF WaitDir

LEMMA StartFirstKeeps ==
  ASSUME IInv, StartFirst
  PROVE  IInv'
  <1>1. /\ BaseInv /\ TypeOK /\ phase = "start" /\ phase' = "wait1" /\ stack' = stack /\ result' = result
        /\ UNCHANGED <<input, sharedVars, collVars>> /\ result \in Outcomes
        /\ stack \in Seq(Dirs \X Nat) /\ input' = input
        /\ input.mode \in {"default", "advanced"} /\ \A b \in Books : pc[b] = "off" /\ pass[b] = 1
    BY DEF IInv, BaseInv, StartFirst, CallerInv, TypeOK
  <1>2. PICK bs \in SUBSET Books : bs = input.asked
    BY <1>1, InputAssumption DEF TypeOK
  <1>3. Start(bs, 1)
    BY <1>2 DEF StartFirst
  <1>4. BaseInv'
    BY <1>1, <1>3, StartKeeps DEF Phases
  <1>5. /\ \A b \in bs : pc'[b] = "open"
        /\ \A b \in Books : pass'[b] = 1
    BY <1>1, <1>3, StartFacts
  <1>6. QED
    BY <1>1, <1>2, <1>4, <1>5 DEF IInv, WalkInv, CallerInv, SecondPassKnowsAll

LEMMA WaitFirstKeeps ==
  ASSUME IInv, WaitFirst
  PROVE  IInv'
  <1>1. /\ BaseInv /\ TypeOK /\ phase = "wait1" /\ Over(Books) /\ stack' = stack
        /\ UNCHANGED <<input, bookVars, sharedVars, collVars>> /\ pc' = pc /\ pass' = pass
        /\ stack \in Seq(Dirs \X Nat) /\ input' = input /\ types' = types
        /\ input.mode \in {"default", "advanced"} /\ \A b \in Books : pass[b] = 1
        /\ \A b \in input.asked : pc[b] # "off"
        /\ result' = JoinIfErrors(Root) /\ phase' = IF result' = "ok" THEN "second" ELSE "done"
    BY DEF IInv, BaseInv, WaitFirst, CallerInv, TypeOK, bookVars, sharedVars
  <1>2. input.asked \in SUBSET Books
    BY <1>1, InputAssumption DEF TypeOK
  <1>3. \A b \in input.asked : pc[b] = "over"
    BY <1>1, <1>2 DEF Over
  <1>4. BaseInv'
    <2>1. result' \in Outcomes /\ phase' \in Phases
      BY <1>1, JoinIfErrorsFacts DEF Phases, Outcomes
    <2>2. QED
      BY <1>1, <2>1, BaseStays
  <1>5. CASE result' = "ok"
    <2>1. Declared(input.asked) \subseteq types
      <3>1. PICK bs \in SUBSET Books : bs = input.asked
        BY <1>2
      <3>2. count[Root] = 0
        BY <1>1, <1>5, NoErrors
      <3>3. Declared(bs) \subseteq types
        BY <1>1, <1>3, <3>1, <3>2, AllDeclared
      <3>4. QED
        BY <3>1, <3>3
    <2>2. Scanned' = input.asked
      BY <1>1 DEF Scanned
    <2>3. SecondPassKnowsAll'
      BY <1>1, <2>1, <2>2 DEF SecondPassKnowsAll
    <2>4. CallerInv'
      BY <1>1, <1>3, <1>5 DEF CallerInv, Over
    <2>5. QED
      BY <1>1, <1>4, <1>5, <2>3, <2>4 DEF IInv, WalkInv
  <1>6. CASE result' # "ok"
    BY <1>1, <1>4, <1>6 DEF IInv, WalkInv, CallerInv, SecondPassKnowsAll
  <1>7. QED
    BY <1>5, <1>6

\* When the second pass starts, no workbook is at work and the types are known.
LEMMA BeforeSecond ==
  ASSUME IInv, phase = "second" \/ (phase = "walk" /\ stack = <<>>)
  PROVE  Over(Books) /\ Declared(Scanned) \subseteq types /\ \A b \in Books : pass[b] = 1
  <1>1. CASE phase = "second"
    BY <1>1 DEF IInv, CallerInv, SecondPassKnowsAll
  <1>2. CASE phase = "walk" /\ stack = <<>>
    <2>1. PICK F \in SUBSET Dirs : WalkOf(stack, pc, F)
      BY <1>2 DEF IInv, WalkInv
    <2>2. (\A b \in Listed : pc[b] = "over") /\ \A b \in Books : pc[b] # "off" => b \in Listed
      BY <1>2, <2>1, WalkOver
    <2>3. Over(Books) /\ \A b \in Books : pass[b] = 1
      BY <1>2, <2>2 DEF Over, IInv, CallerInv
    <2>4. count[Root] = 0 /\ Scanned = Listed /\ Listed \in SUBSET Books
      BY <1>2 DEF IInv, WalkInv, Scanned, Listed
    <2>5. Declared(Listed) \subseteq types
      BY <2>2, <2>3, <2>4, AllDeclared DEF IInv
    <2>6. QED
      BY <2>3, <2>4, <2>5
  <1>3. QED
    BY <1>1, <1>2

LEMMA StartSecondKeeps ==
  ASSUME IInv, StartSecond
  PROVE  IInv'
  <1>1. /\ BaseInv /\ TypeOK /\ phase' = "wait2" /\ stack' = stack /\ result' = result
        /\ UNCHANGED <<input, sharedVars, collVars>> /\ result \in Outcomes
        /\ stack \in Seq(Dirs \X Nat) /\ input' = input /\ types' = types
    BY DEF IInv, BaseInv, StartSecond, TypeOK, sharedVars
  <1>2. Over(Books) /\ Declared(Scanned) \subseteq types
    BY BeforeSecond DEF StartSecond
  <1>3. PICK bs \in SUBSET Books : bs = IF input.mode = "all" THEN cached ELSE input.asked
    BY <1>1, InputAssumption DEF TypeOK
  <1>4. Start(bs, 2)
    BY <1>3 DEF StartSecond
  <1>5. BaseInv'
    BY <1>1, <1>2, <1>4, StartKeeps DEF Phases, Over
  <1>6. Scanned' = Scanned
    BY <1>1 DEF Scanned
  <1>7. SecondPassKnowsAll'
    BY <1>1, <1>2, <1>6 DEF SecondPassKnowsAll
  <1>8. CallerInv'
    BY <1>1, <1>2, <1>6 DEF CallerInv
  <1>9. QED
    BY <1>1, <1>5, <1>7, <1>8 DEF IInv, WalkInv

LEMMA WaitSecondKeeps ==
  ASSUME IInv, WaitSecond
  PROVE  IInv'
  <1>1. /\ BaseInv /\ TypeOK /\ phase = "wait2" /\ Over(Books) /\ stack' = stack
        /\ UNCHANGED <<input, bookVars, sharedVars, collVars>> /\ pc' = pc /\ pass' = pass
        /\ stack \in Seq(Dirs \X Nat) /\ input' = input /\ types' = types /\ count' = count
        /\ result' = JoinIfErrors(Root) /\ phase' = "done"
    BY DEF IInv, BaseInv, WaitSecond, TypeOK, bookVars, sharedVars, collVars
  <1>2. BaseInv'
    <2>1. result' \in Outcomes /\ phase' \in Phases
      BY <1>1, JoinIfErrorsFacts DEF Phases, Outcomes
    <2>2. QED
      BY <1>1, <2>1, BaseStays
  <1>3. result' = "ok" => count[Root] = 0
    BY <1>1, NoErrors
  <1>4. Scanned' = Scanned /\ Over(Books)'
    BY <1>1 DEF Scanned, Over
  <1>5. QED
    BY <1>1, <1>2, <1>3, <1>4 DEF IInv, WalkInv, CallerInv, SecondPassKnowsAll

LEMMA StutterKeeps ==
  ASSUME IInv, UNCHANGED vars
  PROVE  IInv'
  <1>1. /\ BaseInv /\ input' = input /\ phase' = phase /\ stack' = stack /\ result' = result
        /\ pc' = pc /\ pass' = pass /\ types' = types /\ count' = count
        /\ UNCHANGED <<input, bookVars, sharedVars, collVars>>
    BY DEF IInv, vars, bookVars, sharedVars, collVars
  <1>2. BaseInv'
    BY <1>1, BaseStays DEF BaseInv, TypeOK
  <1>3. Scanned' = Scanned /\ Over(Books)' = Over(Books)
    BY <1>1 DEF Scanned, Over
  <1>4. WalkInv'
    BY <1>1 DEF IInv, WalkInv
  <1>5. CallerInv' /\ SecondPassKnowsAll'
    BY <1>1, <1>3 DEF IInv, CallerInv, SecondPassKnowsAll
  <1>6. QED
    BY <1>2, <1>4, <1>5 DEF IInv
-----------------------------------------------------------------------------
(* The invariant holds of every run.                                        *)

LEMMA InitStack ==
  ASSUME Init
  PROVE  /\ stack \in Stacks /\ (phase = "walk" => WalkOf(stack, pc, {}))
         /\ phase = "walk" <=> input.mode \in {"all", "normal"}
  <1> DEFINE tops == [k \in DOMAIN TopDirs |-> <<TopDirs[k], 0>>]
             n == Len(TopDirs)
  <1>1. /\ n \in Nat /\ DOMAIN TopDirs = 1..n
        /\ \A k \in DOMAIN TopDirs : TopDirs[k] \in Dirs
        /\ ToSet(TopDirs) = {TopDirs[k] : k \in DOMAIN TopDirs}
    <2>1. TopDirs \in Seq(Dirs)
      BY StructureAssumption
    <2>2. QED
      BY <2>1 DEF ToSet
  <1>2. tops \in Seq(Dirs \X Nat) /\ Len(tops) = n
    <2>1. tops = [k \in 1..n |-> <<TopDirs[k], 0>>] /\ \A k \in 1..n : <<TopDirs[k], 0>> \in Dirs \X Nat
      BY <1>1
    <2>2. tops \in [1..n -> Dirs \X Nat]
      BY <2>1
    <2>3. HIDE DEF tops
    <2>4. QED
      BY <1>1, <2>2
  <1>3. Reverse(tops) = [i \in 1..n |-> tops[(n - i) + 1]]
    <2>1. Len(tops) = n
      BY <1>2
    <2>2. HIDE DEF tops, n
    <2>3. QED
      BY <2>1 DEF Reverse
  <1>4. \A i \in 1..n : (n - i) + 1 \in 1..n
    BY <1>1
  <1>5. \A i \in 1..n : Reverse(tops)[i] = <<TopDirs[(n - i) + 1], 0>>
    BY <1>1, <1>3, <1>4
  <1>6. Reverse(tops) \in Seq(Dirs \X Nat) /\ DOMAIN Reverse(tops) = 1..n
    <2>1. \A i \in 1..n : tops[(n - i) + 1] \in Dirs \X Nat
      BY <1>1, <1>4
    <2>2. QED
      BY <1>1, <1>3, <2>1
  <1>7. phase = "walk" <=> input.mode \in {"all", "normal"}
    BY DEF Init
  <1>8. stack \in Stacks
    <2>1. CASE input.mode \in {"all", "normal"}
      BY <1>6, <2>1 DEF Init, Stacks
    <2>2. CASE input.mode \notin {"all", "normal"}
      BY <2>2 DEF Init, Stacks
    <2>3. QED
      BY <2>1, <2>2
  <1>9. ASSUME phase = "walk" PROVE WalkOf(stack, pc, {})
    <2>1. /\ DOMAIN stack = 1..n
          /\ \A i \in 1..n : stack[i] = <<TopDirs[(n - i) + 1], 0>>
      BY <1>5, <1>6, <1>7, <1>9 DEF Init
    <2>2. \A i \in 1..n : stack[i][1] = TopDirs[(n - i) + 1] /\ stack[i][2] = 0
      BY <2>1
    <2>3. \A i \in DOMAIN stack : stack[i][1] \in ToSet(TopDirs) /\ stack[i][1] \in Dirs
      BY <1>1, <1>4, <2>1, <2>2
    <2>4. \A i, j \in DOMAIN stack : stack[i][1] = stack[j][1] => i = j
      <3>1. \A i, j \in 1..n : TopDirs[(n - i) + 1] = TopDirs[(n - j) + 1] => (n - i) + 1 = (n - j) + 1
        BY <1>1, <1>4, TreeAssumption
      <3>2. \A i, j \in 1..n : (n - i) + 1 = (n - j) + 1 => i = j
        BY <1>1
      <3>3. QED
        BY <2>1, <2>2, <3>1, <3>2
    <2>5. \A t \in ToSet(TopDirs) : OnStack(stack, t)
      <3>1. SUFFICES ASSUME NEW k \in 1..n PROVE OnStack(stack, TopDirs[k])
        BY <1>1
      <3>2. (n - k) + 1 \in 1..n /\ (n - ((n - k) + 1)) + 1 = k
        BY <1>1
      <3>3. stack[(n - k) + 1][1] = TopDirs[k]
        BY <2>2, <3>2
      <3>4. QED
        BY <2>1, <3>2, <3>3 DEF OnStack
    <2>6. \A i \in DOMAIN stack : stack[i][2] <= Len(Entries[stack[i][1]])
      BY <2>1, <2>2, <2>3, EntryFacts
    <2>7. \A j \in DOMAIN stack : \A k \in DOMAIN Entries[stack[j][1]] : ~(k <= stack[j][2])
      <3>1. \A j \in DOMAIN stack : \A k \in DOMAIN Entries[stack[j][1]] : k \in Nat \ {0}
        BY <2>3, EntryFacts
      <3>2. QED
        BY <2>1, <2>2, <3>1
    <2>8. \A b \in Books : pc[b] = "off"
      BY DEF Init
    <2>9. QED
      BY <2>3, <2>4, <2>5, <2>6, <2>7, <2>8 DEF WalkOf
  <1>10. QED
    BY <1>7, <1>8, <1>9

LEMMA InitHolds ==
  ASSUME Init
  PROVE  IInv
  <1>1. /\ input \in Inputs /\ input.known \subseteq Types
        /\ input.mode \in {"all", "default", "normal", "advanced"}
    BY InputAssumption DEF Init
  <1>2. stack \in Seq(Dirs \X Nat)
    BY InitStack DEF Stacks
  <1>3. /\ pc = [b \in Books |-> "off"] /\ pass = [b \in Books |-> 1] /\ idx = [b \in Books |-> 1]
        /\ fld = [b \in Books |-> 1] /\ sres = [b \in Books |-> "ok"]
        /\ worksheets = [b \in Books |-> {}] /\ types = input.known /\ cached = {}
        /\ files = [p \in Paths |-> NoFile]
        /\ count = [n \in Nodes |-> 0] /\ kept = [n \in Nodes |-> 0]
        /\ phase \in {"walk", "start"} /\ result = "ok"
    BY DEF Init
  <1>4. NoFile \in [book : Books \cup {Root}, sheets : SUBSET Pages]
    BY DEF NoFile
  <1>5. pc \in [Books -> PCs] /\ sres \in [Books -> Outcomes] /\ phase \in Phases /\ result \in Outcomes
    BY <1>3 DEF PCs, Outcomes, Phases
  <1>6. pass \in [Books -> {1, 2}] /\ idx \in [Books -> Nat \ {0}] /\ fld \in [Books -> Nat \ {0}]
        /\ worksheets \in [Books -> SUBSET Pages]
    BY <1>3
  <1>7. count \in [Nodes -> Nat] /\ kept \in [Nodes -> Nat]
        /\ files \in [Paths -> [book : Books \cup {Root}, sheets : SUBSET Pages]]
    BY <1>3, <1>4
  <1>8. TypeOK
    BY <1>1, <1>2, <1>3, <1>5, <1>6, <1>7 DEF TypeOK
  <1>9. CollInv
    <2>1. \A n \in Nodes : kept[n] = 0 /\ count[n] = 0
      BY <1>3
    <2>2. \A b \in Books : pc[b] = "off" /\ count[b] = 0
      BY <1>3, NodeFacts
    <2>3. count[Root] = 0
      BY <2>1, NodeFacts
    <2>4. QED
      BY <2>1, <2>2, <2>3 DEF CollInv
  <1>10. ControlInv
    BY <1>3 DEF ControlInv, ControlOf
  <1>11. WorkInv
    <2>1. FilesInv
      BY <1>3 DEF FilesInv
    <2>2. \A b \in Books : pc[b] = "off" /\ worksheets[b] = {}
      BY <1>3
    <2>3. \A b \in Books : SheetsDone(b) /\ TypesDone(b)
      BY <2>2 DEF SheetsDone, TypesDone
    <2>4. QED
      BY <1>3, <2>1, <2>3 DEF WorkInv
  <1>12. WalkInv
    <2>1. count[Root] = 0
      BY <1>3, NodeFacts
    <2>2. {} \in SUBSET Dirs
      OBVIOUS
    <2>3. QED
      BY <2>1, <2>2, InitStack DEF WalkInv
  <1>13. CallerInv /\ SecondPassKnowsAll
    <2>1. phase = "start" => input.mode \in {"default", "advanced"}
      BY <1>1, InitStack
    <2>2. \A b \in Books : pc[b] = "off" /\ pass[b] = 1
      BY <1>3
    <2>3. QED
      BY <1>3, <2>1, <2>2 DEF CallerInv, SecondPassKnowsAll
  <1>14. QED
    BY <1>8, <1>9, <1>10, <1>11, <1>12, <1>13 DEF IInv, BaseInv

LEMMA NextKeeps == IInv /\ [Next]_vars => IInv'
  BY WalkKeeps, WaitDirKeeps, StartFirstKeeps, WaitFirstKeeps, StartSecondKeeps, WaitSecondKeeps,
     BookKeeps, StutterKeeps DEF Next, CallerStep

LEMMA Invariance == Spec => []IInv
  BY InitHolds, NextKeeps, PTL DEF Spec

\* The state has its type: a sheet's number is within its workbook's, a result is one
\* of those Generate returns, and the walk's stack holds directories.
THEOREM TypeCorrect == Spec => []TypeOK
  <1>1. IInv => TypeOK
    BY DEF IInv, BaseInv
  <1>2. QED
    BY Invariance, <1>1, PTL

\* The second pass knows every type that a type sheet of the first pass declares:
\* whatever the walk's nesting and the goroutines' order, a first pass that reported
\* no error registered them all (the two concurrent passes of GenAll).
THEOREM TwoPassesSuffice == Spec => []SecondPassKnowsAll
  <1>1. IInv => SecondPassKnowsAll
    BY DEF IInv
  <1>2. QED
    BY Invariance, <1>1, PTL

\* A file that lacks sheets of its workbook was written after the generator's budget of
\* errors was used up: the errors of a sheet keep its workbook from being exported.
THEOREM PartialFiles == Spec => []PartialOnlyWhenFull
  <1>1. IInv => PartialOnlyWhenFull
    <2>1. IsFull(count, Root) <=> RootFull
      BY PathFacts, LimitsOfNodes DEF IsFull, RootFull
    <2>2. IInv => FilesInv
      BY DEF IInv, BaseInv, WorkInv
    <2>3. QED
      BY <2>1, <2>2 DEF FilesInv, PartialOnlyWhenFull
  <1>2. QED
    BY Invariance, <1>1, PTL
-----------------------------------------------------------------------------
(* Success: the files are complete.                                         *)

\* How a workbook that reads its fields ends.
LEMMA HowItEnds ==
  ASSUME BaseInv, NEW b \in Books, BookStep(b), Writes(b), pc'[b] = "over", SheetsOf[b] # <<>>
  PROVE  count'[Root] > 0 \/ (b \in Documents /\ pass[b] = 2) \/ Written(b)
  <1>1. /\ TypeOK /\ CollInv /\ pc \in [Books -> PCs] /\ count[b] \in Nat /\ count[Root] \in Nat
        /\ count[b] <= count[Root] /\ count[Root] <= count'[Root] /\ count'[Root] \in Nat
    <2>1. BookFrame(b)
      BY BookSteps
    <2>2. TypeOK /\ CollInv /\ pc \in [Books -> PCs]
      BY DEF BaseInv, TypeOK
    <2>3. count[Root] <= count'[Root]
      BY <2>1 DEF BookFrame, CollStep
    <2>4. QED
      BY <2>1, <2>2, <2>3, FrameKeeps
  <1>2. ASSUME Collect(Root, "plain") PROVE count'[Root] > 0
    BY <1>1, <1>2, CollectSteps, NodeFacts DEF Outcomes
  <1>3. \A p \in PCs : pc' = [pc EXCEPT ![b] = p] => p = "over"
    BY <1>1
  <1>4. CASE Open(b)
    <2>1. ASSUME NotRead(b), ReturnUnread(b) PROVE count'[Root] > 0
      BY <1>2, <2>1 DEF NotRead, ReturnUnread, Return
    <2>2. ~NewBookParser(b)
      BY <1>3 DEF NewBookParser, Goto, PCs
    <2>3. QED
      BY <1>4, <2>1, <2>2 DEF Open, OpenDocument, OpenTable, Writes
  <1>5. CASE BeginSheet(b)
    BY <1>3, <1>5 DEF BeginSheet, Goto, FirstStep, PCs
  <1>6. CASE Extract(b) \/ ParseField(b) \/ EndFields(b)
    <2>1. UNCHANGED pc \/ pc' = [pc EXCEPT ![b] = "collect"]
      BY <1>6 DEF Extract, ParseField, EndFields, EndSheet, NextField, Goto
    <2>2. pc[b] # "over"
      BY <1>6 DEF Extract, ParseField, EndFields
    <2>3. QED
      BY <1>3, <2>1, <2>2 DEF PCs
  <1>7. CASE CollectSheet(b)
    <2>1. CollectReturns(b) # "ok"
      BY <1>3, <1>7 DEF CollectSheet, Goto, PCs
    <2>2. IsFull(count', b)
      BY <2>1, CollectReturnsFacts
    <2>3. BookFrame(b)
      BY <1>7, CollectSheetSteps
    <2>4. QED
      BY <2>2, <2>3, FrameKeeps, FullMeansErrors
  <1>8. CASE EndSheets(b)
    <2>1. count[b] > 0 \/ (pass[b] = 1 /\ b \notin Documents)
      BY <1>3, <1>8 DEF EndSheets, Goto, PCs
    <2>2. count[b] > 0
      BY <1>1, <2>1, SameAt DEF Writes
    <2>3. QED
      BY <1>1, <2>2
  <1>9. CASE Export(b)
    <2>1. Return(b, "plain")
      BY <1>3, <1>9 DEF Export, Goto, PCs
    <2>2. QED
      BY <1>2, <2>1 DEF Return
  <1>10. CASE WriteFile(b)
    BY <1>10, WriteFileSteps DEF Written
  <1>11. QED
    BY <1>4, <1>5, <1>6, <1>7, <1>8, <1>9, <1>10 DEF BookStep

\* A workbook's step leaves the files of the others alone.
LEMMA OthersFiles ==
  ASSUME DistinctPaths, TypeOK, NEW b \in Books, files' = files \/ Written(b), NEW c \in Books \ {b}
  PROVE  files'[ProtoPath[c]] = files[ProtoPath[c]]
  <1>1. ProtoPath[c] # ProtoPath[b] /\ ProtoPath[c] \in Paths
    BY DEF DistinctPaths, Paths
  <1>2. QED
    BY <1>1 DEF Written, TypeOK

LEMMA CompleteBook ==
  ASSUME DistinctPaths, IInv, CompleteInv, NEW b \in Books, BookStep(b)
  PROVE  CompleteInv'
  <1>1. /\ BookFrame(b) /\ (files' = files \/ Written(b)) /\ BaseInv /\ TypeOK
        /\ count[Root] > 0 => count'[Root] > 0
        /\ \A c \in Books : Writes(c)' = Writes(c) /\ pass'[c] = pass[c]
    BY BookSteps, FrameKeeps DEF IInv, BaseInv
  <1>2. ASSUME NEW c \in Books \ {b} PROVE CompleteOf(c)'
    <2>1. pc'[c] = pc[c] /\ pass'[c] = pass[c] /\ files'[ProtoPath[c]] = files[ProtoPath[c]]
      BY <1>1, OthersFiles DEF BookFrame
    <2>2. CompleteOf(c)
      BY DEF CompleteInv
    <2>3. QED
      BY <1>1, <2>1, <2>2 DEF CompleteOf, Complete
  <1>3. CompleteOf(b)'
    <2>1. SUFFICES ASSUME SheetsOf[b] # <<>>, Writes(b), b \in Documents => pass[b] = 2 \/ pc'[b] = "over",
                          b \notin Documents => pc'[b] = "over"
                   PROVE  Complete(b)' \/ count'[Root] > 0
      BY <1>1 DEF CompleteOf, Writes
    <2>2. CASE b \in Documents /\ pass[b] = 2
      <3>1. Complete(b) \/ count[Root] > 0
        BY <2>1, <2>2 DEF CompleteInv, CompleteOf
      <3>2. files' = files
        <4>1. ControlOf(b) /\ pc[b] = "open"
          BY <1>1, <2>2, BaseParts DEF ControlOf, BookFrame
        <4>2. Open(b)
          BY <4>1 DEF BookStep, BeginSheet, Extract, ParseField, EndFields, CollectSheet, EndSheets,
                      Export, WriteFile
        <4>3. QED
          BY <1>1, <4>2, OpenSteps
      <3>3. QED
        BY <1>1, <3>1, <3>2 DEF Complete
    <2>3. CASE ~(b \in Documents /\ pass[b] = 2)
      <3>1. count'[Root] > 0 \/ Written(b)
        BY <1>1, <2>1, <2>3, HowItEnds
      <3>2. ASSUME Written(b), ~(count'[Root] > 0) PROVE Complete(b)'
        <4>1. ~RootFull
          BY <1>1, <3>2, FrameKeeps, LimitFacts DEF RootFull
        <4>2. files'[ProtoPath[b]] = [book |-> b, sheets |-> worksheets[b]]
          <5>1. ProtoPath[b] \in Paths
            BY DEF Paths
          <5>2. QED
            BY <1>1, <3>2, <5>1 DEF Written, TypeOK
        <4>3. QED
          BY <3>2, <4>1, <4>2 DEF Written, Complete
      <3>3. QED
        BY <3>1, <3>2
    <2>4. QED
      BY <2>2, <2>3
  <1>4. WantedInv'
    <2>1. /\ phase' = phase /\ result' = result /\ input' = input
          /\ \A c \in Books : pc[c] # "off" => pc'[c] # "off"
      BY <1>1 DEF BookFrame
    <2>2. Wanted' = Wanted /\ Wanted \subseteq Books
      BY <1>1, <2>1, InputAssumption DEF Wanted, Listed, TypeOK
    <2>3. QED
      BY <1>1, <2>1, <2>2 DEF CompleteInv, WantedInv
  <1>5. QED
    BY <1>2, <1>3, <1>4 DEF CompleteInv

\* When the second pass starts, what it is to convert has been through the first.
LEMMA WantedOver ==
  ASSUME AskedAreListed, IInv, phase = "second" \/ (phase = "walk" /\ stack = <<>>)
  PROVE  /\ \A b \in Wanted : b \in Books /\ pc[b] = "over" /\ pass[b] = 1
         /\ input.mode = "all" => count[Root] = 0
  <1>1. Wanted \subseteq Books /\ input \in Inputs
    BY InputAssumption DEF IInv, BaseInv, TypeOK, Wanted, Listed
  <1>2. \A b \in Books : pass[b] = 1
    BY BeforeSecond
  <1>3. CASE phase = "second"
    BY <1>1, <1>2, <1>3 DEF IInv, CallerInv, Wanted
  <1>4. CASE phase = "walk" /\ stack = <<>>
    <2>1. PICK F \in SUBSET Dirs : WalkOf(stack, pc, F)
      BY <1>4 DEF IInv, WalkInv
    <2>2. \A b \in Listed : pc[b] = "over"
      BY <1>4, <2>1, WalkOver
    <2>3. Wanted \subseteq Listed /\ count[Root] = 0
      BY <1>1, <1>4 DEF IInv, WalkInv, Wanted, AskedAreListed
    <2>4. QED
      BY <1>1, <1>2, <2>2, <2>3
  <1>5. QED
    BY <1>3, <1>4

LEMMA CompleteStays ==
  ASSUME IInv, CompleteInv, UNCHANGED <<input, pc, pass, files, count>>,
         phase' \in {"walk", "start", "wait1", "second"} \/ (phase' = "done" /\ result' # "ok")
           \/ (phase = "wait2" /\ phase' \in {"wait2", "done"}) \/ UNCHANGED <<phase, result>>
  PROVE  CompleteInv'
  <1>1. \A b \in Books : Complete(b)' = Complete(b)
    BY DEF Complete
  <1>2. \A b \in Books : CompleteOf(b)'
    BY <1>1 DEF CompleteInv, CompleteOf
  <1>3. Wanted' = Wanted
    BY DEF Wanted
  <1>4. WantedInv'
    BY <1>3 DEF CompleteInv, WantedInv
  <1>5. QED
    BY <1>2, <1>4 DEF CompleteInv

LEMMA CompleteStart ==
  ASSUME IInv, CompleteInv, NEW bs \in SUBSET Books, NEW p \in {1, 2}, Start(bs, p),
         UNCHANGED <<input, files, count>>,
         p = 2 => \A b \in bs \cap Documents : pc[b] = "over"
  PROVE  \A b \in Books : CompleteOf(b)'
  <1>1. \A b \in Books : Complete(b)' = Complete(b)
    BY DEF Complete
  <1>2. /\ \A b \in bs : pc'[b] = "open" /\ pass'[b] = p
        /\ \A b \in Books \ bs : pc'[b] = pc[b] /\ pass'[b] = pass[b]
    BY StartFacts DEF IInv, BaseInv
  <1>3. QED
    BY <1>1, <1>2 DEF CompleteInv, CompleteOf

LEMMA CompleteCaller ==
  ASSUME AskedAreListed, IInv, CompleteInv, CallerStep
  PROVE  CompleteInv'
  <1>1. TypeOK /\ BaseInv
    BY DEF IInv, BaseInv
  <1>2. input' = input /\ files' = files /\ count' = count
    BY DEF CallerStep, Walk, WaitDir, StartFirst, WaitFirst, StartSecond, WaitSecond, sharedVars, collVars
  <1>3. CASE Walk
    <2>1. CASE EndWalk("plain") /\ UNCHANGED bookVars
      BY <1>2, <2>1, CompleteStays DEF EndWalk, bookVars
    <2>2. ASSUME NEW e \in Books, Start({e}, 1), UNCHANGED <<phase, result>> PROVE CompleteInv'
      <3>1. \A b \in Books : CompleteOf(b)'
        <4>1. {e} \in SUBSET Books
          OBVIOUS
        <4>2. QED
          BY <1>2, <2>2, <4>1, CompleteStart
      <3>2. phase' = "walk"
        BY <1>3, <2>2 DEF Walk
      <3>3. QED
        BY <3>1, <3>2 DEF CompleteInv, WantedInv
    <2>3. CASE UNCHANGED <<phase, result, bookVars>>
      BY <1>2, <2>3, CompleteStays DEF bookVars
    <2>4. QED
      BY <1>3, <2>1, <2>2, <2>3 DEF Walk
  <1>4. CASE WaitDir
    BY <1>2, <1>4, CompleteStays DEF WaitDir, EndWalk, bookVars
  <1>5. CASE StartFirst
    <2>1. PICK bs \in SUBSET Books : bs = input.asked
      BY <1>1, InputAssumption DEF TypeOK
    <2>2. Start(bs, 1) /\ phase' = "wait1"
      BY <1>5, <2>1 DEF StartFirst
    <2>3. \A b \in Books : CompleteOf(b)'
      BY <1>2, <2>2, CompleteStart
    <2>4. QED
      BY <2>2, <2>3 DEF CompleteInv, WantedInv
  <1>6. CASE WaitFirst
    BY <1>2, <1>6, CompleteStays DEF WaitFirst, bookVars
  <1>7. CASE StartSecond
    <2>1. PICK bs \in SUBSET Books : bs = IF input.mode = "all" THEN cached ELSE input.asked
      BY <1>1, InputAssumption DEF TypeOK
    <2>2. Start(bs, 2) /\ phase' = "wait2"
      BY <1>7, <2>1 DEF StartSecond
    <2>3. /\ \A b \in Wanted : b \in Books /\ pc[b] = "over" /\ pass[b] = 1
          /\ input.mode = "all" => count[Root] = 0
      BY <1>7, WantedOver DEF StartSecond
    <2>4. cached \cap Documents = {}
      BY <1>1 DEF BaseInv, WorkInv
    <2>5. \A b \in bs \cap Documents : pc[b] = "over"
      BY <2>1, <2>3, <2>4 DEF Wanted
    <2>6. \A b \in Books : CompleteOf(b)'
      BY <1>2, <2>2, <2>5, CompleteStart
    <2>7. /\ \A b \in bs : pass'[b] = 2
          /\ \A b \in Books \ bs : pc'[b] = pc[b]
      BY <1>1, <2>2, StartFacts
    <2>8. ASSUME NEW b \in Wanted, SheetsOf[b] # <<>>
          PROVE  pass'[b] = 2 \/ (b \in Documents /\ pc'[b] # "off")
      <3>1. CASE input.mode = "all"
        <4>1. TypesDone(b)
          BY <1>1, <2>3, BaseParts
        <4>2. b \in Documents \/ b \in cached
          BY <2>3, <2>8, <3>1, <4>1 DEF TypesDone
        <4>3. QED
          BY <2>1, <2>3, <2>4, <2>7, <3>1, <4>2
      <3>2. CASE input.mode # "all"
        BY <2>1, <2>7, <2>8, <3>2 DEF Wanted
      <3>3. QED
        BY <3>1, <3>2
    <2>9. Wanted' = Wanted
      BY <1>2 DEF Wanted
    <2>10. WantedInv'
      BY <2>2, <2>8, <2>9 DEF WantedInv
    <2>11. QED
      BY <2>6, <2>10 DEF CompleteInv
  <1>8. CASE WaitSecond
    BY <1>2, <1>8, CompleteStays DEF WaitSecond, bookVars
  <1>9. QED
    BY <1>3, <1>4, <1>5, <1>6, <1>7, <1>8 DEF CallerStep

LEMMA CompleteInit ==
  ASSUME Init
  PROVE  CompleteInv
  <1>1. \A b \in Books : pc[b] = "off" /\ pass[b] = 1
    BY DEF Init
  <1>2. phase \in {"walk", "start"}
    BY DEF Init
  <1>3. QED
    BY <1>1, <1>2 DEF CompleteInv, WantedInv, CompleteOf

LEMMA CompleteAlways ==
  ASSUME DistinctPaths, AskedAreListed
  PROVE  Spec => []CompleteInv
  <1>1. IInv /\ CompleteInv /\ [Next]_vars => CompleteInv'
    <2>1. ASSUME IInv, CompleteInv, UNCHANGED vars PROVE CompleteInv'
      BY <2>1, CompleteStays DEF vars
    <2>2. QED
      BY <2>1, CompleteBook, CompleteCaller DEF Next
  <1>2. Init => CompleteInv
    BY CompleteInit
  <1>3. QED
    BY <1>1, <1>2, Invariance, PTL DEF Spec

\* A run that returns nil has written a complete file for every workbook the caller
\* asked for, and none of its goroutines is still at work, although a directory waits
\* for its own workbooks only.  Workbooks are written to files of their own, and
\* GenWorkbook is asked for workbooks of the input directory.
THEOREM SuccessComplete ==
  ASSUME DistinctPaths, AskedAreListed
  PROVE  Spec => []SuccessMeansComplete
  <1>1. IInv /\ CompleteInv => SuccessMeansComplete
    <2>1. SUFFICES ASSUME IInv, CompleteInv, phase = "done", result = "ok"
                   PROVE  Over(Books) /\ \A b \in Wanted : SheetsOf[b] # <<>> => Complete(b)
      BY DEF SuccessMeansComplete
    <2>2. count[Root] = 0 /\ Over(Books)
      BY <2>1 DEF IInv, CallerInv
    <2>3. ASSUME NEW b \in Wanted, SheetsOf[b] # <<>> PROVE Complete(b)
      <3>1. b \in Books
        BY <2>1, InputAssumption DEF IInv, BaseInv, TypeOK, Wanted, Listed
      <3>2. pass[b] = 2 \/ (b \in Documents /\ pc[b] # "off")
        BY <2>1, <2>2, <2>3 DEF CompleteInv, WantedInv
      <3>3. pc[b] = "over"
        <4>1. ControlOf(b)
          BY <2>1, <3>1, BaseParts DEF IInv
        <4>2. QED
          BY <2>2, <3>1, <3>2, <4>1 DEF ControlOf, Over
      <3>4. QED
        BY <2>1, <2>2, <2>3, <3>1, <3>2, <3>3 DEF CompleteInv, CompleteOf
    <2>4. QED
      BY <2>2, <2>3
  <1>2. QED
    BY <1>1, Invariance, CompleteAlways, PTL
-----------------------------------------------------------------------------
(* A run with nothing wrong in it succeeds.                                 *)

\* No operation fails, no type is unknown, no file is in the way: no error is counted.
LEMMA SoundBook ==
  ASSUME IInv, SoundInv, Sound, NEW b \in Books, BookStep(b)
  PROVE  count'[Root] = 0 /\ sres'[b] # "plain"
  <1>1. /\ BaseInv /\ TypeOK /\ CollInv /\ ControlOf(b) /\ count[Root] = 0 /\ sres[b] # "plain"
        /\ b \in Scanned /\ sres \in [Books -> Outcomes] /\ pc[b] # "off" /\ pc[b] # "over"
    BY BaseParts, BookSteps DEF IInv, SoundInv, BaseInv, BookFrame, TypeOK
  <1>2. \A what, where : ~Faults(what, where)
    BY DEF Sound, Faults
  <1>3. \A n, err : err # "plain" /\ Collect(n, err) => count' = count
    BY DEF Collect
  <1>4. UNCHANGED collVars => count' = count
    BY DEF collVars
  <1>5. \A s, x : sres' = [sres EXCEPT ![b] = s] => sres'[b] = s
    BY <1>1
  <1>6. \A n \in {b, SheetOf(b)} : NewCollector(n) => count'[Root] = count[Root]
    BY <1>1, NewCollectorSteps
  <1>7. CASE Open(b)
    <2>1. sres' = sres
      BY <1>7 DEF Open
    <2>2. ASSUME ReturnUnread(b) PROVE count' = count
      BY <1>2, <1>3, <2>2 DEF ReturnUnread, Return
    <2>3. QED
      BY <1>1, <1>3, <1>6, <1>7, <2>1, <2>2 DEF Open, OpenDocument, OpenTable, Return, NewBookParser
  <1>8. CASE BeginSheet(b)
    <2>1. ~Misshapen(b)
      BY <1>2 DEF Misshapen
    <2>2. sres'[b] = "ok"
      BY <1>5, <1>8, <2>1 DEF BeginSheet
    <2>3. QED
      BY <1>1, <1>6, <1>8, <2>2 DEF BeginSheet
  <1>9. CASE Extract(b)
    <2>1. UNCHANGED collVars /\ (EndSheet(b, "ok") \/ NextField(b))
      BY <1>2, <1>9 DEF Extract
    <2>2. QED
      BY <1>1, <1>4, <1>5, <2>1 DEF EndSheet, NextField
  <1>10. CASE ParseField(b)
    <2>1. ~FieldFails(Current(b), fld[b])
      <3>1. /\ fld[b] \in DOMAIN Fields[Current(b)] /\ Current(b) \in SheetSet(b)
        <4>1. idx[b] <= Len(SheetsOf[b])
          BY <1>1, <1>10 DEF ControlOf, ParseField
        <4>2. Current(b) \in Pages /\ Current(b) \in SheetSet(b)
          BY <1>1, <4>1, CurrentFacts
        <4>3. fld[b] <= Len(Fields[Current(b)]) /\ fld[b] \in Nat \ {0}
          BY <1>1, <1>10, SameAt DEF ParseField
        <4>4. QED
          BY <4>2, <4>3, PageFacts
      <3>2. Fields[Current(b)][fld[b]] \in {Scalar} \cup input.known
              \cup (IF b \in Documents THEN {} ELSE Declared(Scanned))
        <4>1. Fields[Current(b)][fld[b]] \in ToSet(Fields[Current(b)])
          BY <3>1 DEF ToSet
        <4>2. QED
          BY <1>1, <3>1, <4>1 DEF Sound
      <3>3. b \in Documents \/ Declared(Scanned) \subseteq types
        <4>1. Writes(b)
          BY <1>1, <1>10 DEF ControlOf, ParseField
        <4>2. QED
          BY <4>1 DEF Writes, IInv, CallerInv
      <3>4. input.known \subseteq types
        BY <1>1 DEF BaseInv, WorkInv
      <3>5. QED
        BY <1>2, <3>2, <3>3, <3>4 DEF FieldFails, Unknown
    <2>2. UNCHANGED collVars /\ (NextField(b) \/ \E n : EndSheet(b, Join(kept, n)))
      BY <1>10, <2>1 DEF ParseField
    <2>3. \A n : Join(kept, n) # "plain"
      BY JoinFacts
    <2>4. sres'[b] # "plain"
      BY <1>1, <1>5, <2>2, <2>3 DEF EndSheet, NextField
    <2>5. QED
      BY <1>1, <1>4, <2>2, <2>4
  <1>11. CASE EndFields(b)
    <2>1. UNCHANGED collVars /\ \E x \in {"ok", "joined"} : EndSheet(b, x)
      BY <1>11, JoinFacts DEF EndFields
    <2>2. QED
      BY <1>1, <1>4, <1>5, <2>1 DEF EndSheet
  <1>12. CASE CollectSheet(b)
    BY <1>1, <1>3, <1>12 DEF CollectSheet
  <1>13. CASE EndSheets(b)
    BY <1>1, <1>3, <1>4, <1>13, JoinIfErrorsFacts DEF EndSheets, Return
  <1>14. CASE Export(b)
    <2>1. ~(input.mode = "all" /\ files[ProtoPath[b]] # NoFile)
      BY <1>1 DEF SoundInv, FreshOf
    <2>2. UNCHANGED collVars /\ sres' = sres
      BY <1>2, <1>14, <2>1 DEF Export
    <2>3. QED
      BY <1>1, <1>4, <2>2
  <1>15. CASE WriteFile(b)
    BY <1>1, <1>3, <1>15 DEF WriteFile, Return
  <1>16. QED
    BY <1>7, <1>8, <1>9, <1>10, <1>11, <1>12, <1>13, <1>14, <1>15 DEF BookStep

LEMMA SoundKept ==
  ASSUME input' = input
  PROVE  Sound' = Sound /\ Scanned' = Scanned
  <1>1. Scanned' = Scanned
    BY DEF Scanned
  <1>2. QED
    BY <1>1 DEF Sound

LEMMA SoundBookKeeps ==
  ASSUME DistinctPaths, IInv, SoundInv, NEW b \in Books, BookStep(b)
  PROVE  SoundInv'
  <1>1. /\ BookFrame(b) /\ (files' = files \/ Written(b)) /\ BaseInv /\ TypeOK
        /\ \A c \in Books : Writes(c)' = Writes(c) /\ pass'[c] = pass[c]
    BY BookSteps, FrameKeeps DEF IInv, BaseInv
  <1>2. /\ phase' = phase /\ result' = result /\ input' = input
        /\ \A c \in Books : pc'[c] # "off" => pc[c] # "off"
        /\ \A c \in Books \ {b} : pc'[c] = pc[c] /\ sres'[c] = sres[c]
        /\ pc[b] # "over"
    BY <1>1 DEF BookFrame
  <1>3. ASSUME NEW c \in Books \ {b} PROVE FreshOf(c)'
    <2>1. files'[ProtoPath[c]] = files[ProtoPath[c]] /\ FreshOf(c)
      BY <1>1, OthersFiles DEF SoundInv
    <2>2. QED
      BY <1>1, <1>2, <2>1 DEF FreshOf
  <1>4. FreshOf(b)'
    <2>1. FreshOf(b)
      BY DEF SoundInv
    <2>2. QED
      BY <1>1, <1>2, <2>1 DEF FreshOf, Written
  <1>5. Sound' = Sound /\ Scanned' = Scanned
    BY <1>2, SoundKept
  <1>6. \A c \in Books : pc'[c] # "off" => c \in Scanned'
    BY <1>2, <1>5 DEF SoundInv
  <1>7. ASSUME Sound
        PROVE  /\ count'[Root] = 0 /\ \A c \in Books : sres'[c] # "plain"
               /\ phase' = "done" => result' = "ok"
    BY <1>2, <1>7, SoundBook DEF SoundInv
  <1>8. QED
    BY <1>3, <1>4, <1>5, <1>6, <1>7 DEF SoundInv

LEMMA SoundStart ==
  ASSUME IInv, SoundInv, NEW bs \in SUBSET Books, NEW p \in {1, 2}, Start(bs, p),
         UNCHANGED <<input, files, count>>, bs \subseteq Scanned,
         \A b \in bs : input.mode = "all" => pc[b] = "off" \/ ~Writes(b),
         Sound => (phase' = "done" => result' = "ok")
  PROVE  SoundInv'
  <1>1. /\ \A b \in bs : pc'[b] = "open" /\ pass'[b] = p
        /\ \A b \in Books \ bs : pc'[b] = pc[b] /\ pass'[b] = pass[b]
        /\ sres' = sres
    BY StartFacts DEF IInv, BaseInv, Start
  <1>2. Sound' = Sound /\ Scanned' = Scanned
    BY SoundKept
  <1>3. ASSUME NEW b \in Books PROVE FreshOf(b)'
    <2>1. FreshOf(b)
      BY DEF SoundInv
    <2>2. CASE b \in bs
      BY <2>1, <2>2 DEF FreshOf
    <2>3. CASE b \notin bs
      <3>1. Writes(b)' = Writes(b)
        BY <1>1, <2>3 DEF Writes
      <3>2. QED
        BY <1>1, <2>1, <2>3, <3>1 DEF FreshOf
    <2>4. QED
      BY <2>2, <2>3
  <1>4. \A b \in Books : pc'[b] # "off" => b \in Scanned'
    BY <1>1, <1>2 DEF SoundInv
  <1>5. QED
    BY <1>1, <1>2, <1>3, <1>4 DEF SoundInv

LEMMA SoundStays ==
  ASSUME SoundInv, UNCHANGED <<input, pc, pass, sres, files, count>>,
         Sound => (phase' = "done" => result' = "ok")
  PROVE  SoundInv'
  <1>1. Sound' = Sound /\ Scanned' = Scanned
    BY SoundKept
  <1>2. \A b \in Books : FreshOf(b)' = FreshOf(b)
    BY DEF FreshOf, Writes
  <1>3. QED
    BY <1>1, <1>2 DEF SoundInv

LEMMA SoundCaller ==
  ASSUME AskedAreListed, IInv, SoundInv, CallerStep
  PROVE  SoundInv'
  <1>1. TypeOK /\ BaseInv
    BY DEF IInv, BaseInv
  <1>2. input' = input /\ files' = files /\ count' = count
    BY DEF CallerStep, Walk, WaitDir, StartFirst, WaitFirst, StartSecond, WaitSecond, sharedVars, collVars
  <1>3. Sound => /\ JoinIfErrors(Root) = "ok" /\ \A what, where : ~Faults(what, where)
    <2>1. Sound => count[Root] = 0
      BY DEF SoundInv
    <2>2. QED
      BY <2>1, JoinIfErrorsFacts DEF Sound, Faults
  <1>4. CASE Walk
    <2>1. phase = "walk" /\ input.mode \in {"all", "normal"} /\ stack # <<>>
      BY <1>4 DEF Walk, IInv, WalkInv
    <2>2. CASE EndWalk("plain") /\ UNCHANGED bookVars /\ ~Sound
      BY <1>2, <2>2, SoundStays DEF bookVars
    <2>3. ASSUME NEW e \in Books, e = Entries[Last(stack)[1]][Last(stack)[2] + 1], Start({e}, 1),
                 UNCHANGED <<phase, result>>
          PROVE  SoundInv'
      <3>1. {e} \in SUBSET Books
        OBVIOUS
      <3>2. PICK d \in Dirs, k \in Nat :
              /\ Last(stack) = <<d, k>> /\ stack[Len(stack)] = <<d, k>>
              /\ stack[Len(stack)][1] = d /\ stack[Len(stack)][2] = k
              /\ Len(stack) \in Nat /\ Len(stack) \in DOMAIN stack /\ DOMAIN stack = 1..Len(stack)
        BY <1>1, <2>1, TopOf
      <3>3. Last(stack)[1] = d /\ Last(stack)[2] = k
        BY <3>2
      <3>4. k < Len(Entries[d]) /\ k + 1 \in DOMAIN Entries[d]
        BY <1>4, <3>3, EntryFacts DEF Walk
      <3>5. e \in Listed
        <4>1. e \in ToSet(Entries[d])
          BY <2>3, <3>3, <3>4, EntryFacts
        <4>2. QED
          BY <4>1 DEF Listed
      <3>6. pc[e] = "off"
        <4>1. PICK F \in SUBSET Dirs : WalkOf(stack, pc, F)
          BY <2>1 DEF IInv, WalkInv
        <4>2. PICK n \in Nat : n = Len(stack)
          BY <3>2
        <4>3. /\ stack \in Stacks /\ WalkOf(stack, pc, F) /\ n \in DOMAIN stack /\ k = stack[n][2]
              /\ k + 1 \in DOMAIN Entries[stack[n][1]] /\ e = Entries[stack[n][1]][k + 1]
          BY <1>1, <2>3, <3>2, <3>3, <3>4, <4>1, <4>2 DEF TypeOK, Stacks
        <4>4. QED
          BY <4>3, NextEntryIsNew
      <3>7. e \in Scanned
        BY <2>1, <3>5 DEF Scanned
      <3>8. QED
        BY <1>2, <2>1, <2>3, <3>1, <3>6, <3>7, SoundStart
    <2>4. CASE UNCHANGED <<phase, result, bookVars>>
      BY <1>2, <2>1, <2>4, SoundStays DEF bookVars
    <2>5. QED
      BY <1>3, <1>4, <2>2, <2>3, <2>4 DEF Walk
  <1>5. CASE WaitDir
    <2>1. phase = "walk"
      BY <1>5 DEF WaitDir
    <2>2. Sound => phase' = "walk"
      BY <1>3, <1>5, <2>1 DEF WaitDir
    <2>3. QED
      BY <1>2, <1>5, <2>2, SoundStays DEF WaitDir, bookVars
  <1>6. CASE StartFirst
    <2>1. PICK bs \in SUBSET Books : bs = input.asked
      BY <1>1, InputAssumption DEF TypeOK
    <2>2. /\ Start(bs, 1) /\ phase' = "wait1" /\ input.mode \in {"default", "advanced"}
      BY <1>6, <2>1 DEF StartFirst, IInv, CallerInv
    <2>3. bs \subseteq Scanned
      BY <2>1, <2>2 DEF Scanned
    <2>4. QED
      BY <1>2, <2>2, <2>3, SoundStart
  <1>7. CASE WaitFirst
    <2>1. Sound => (phase' = "done" => result' = "ok")
      BY <1>3, <1>7 DEF WaitFirst
    <2>2. QED
      BY <1>2, <1>7, <2>1, SoundStays DEF WaitFirst, bookVars
  <1>8. CASE StartSecond
    <2>1. PICK bs \in SUBSET Books : bs = IF input.mode = "all" THEN cached ELSE input.asked
      BY <1>1, InputAssumption DEF TypeOK
    <2>2. Start(bs, 2) /\ phase' = "wait2"
      BY <1>8, <2>1 DEF StartSecond
    <2>3. /\ cached \cap Documents = {}
          /\ \A b \in cached : pc[b] # "off"
          /\ \A b \in Books : pass[b] = 1
      BY <1>1, <1>8, BeforeSecond DEF BaseInv, WorkInv, StartSecond
    <2>4. bs \subseteq Scanned
      BY <1>1, <2>1, <2>3 DEF SoundInv, Scanned, AskedAreListed, TypeOK
    <2>5. \A b \in bs : input.mode = "all" => ~Writes(b)
      BY <2>1, <2>3 DEF Writes
    <2>6. QED
      BY <1>2, <2>2, <2>4, <2>5, SoundStart
  <1>9. CASE WaitSecond
    <2>1. Sound => (phase' = "done" => result' = "ok")
      BY <1>3, <1>9 DEF WaitSecond
    <2>2. QED
      BY <1>2, <1>9, <2>1, SoundStays DEF WaitSecond, bookVars
  <1>10. QED
    BY <1>4, <1>5, <1>6, <1>7, <1>8, <1>9 DEF CallerStep

LEMMA SoundInit ==
  ASSUME Init
  PROVE  SoundInv
  <1>1. /\ \A b \in Books : pc[b] = "off" /\ sres[b] = "ok" /\ ProtoPath[b] \in Paths
        /\ \A p \in Paths : files[p] = NoFile
        /\ count[Root] = 0 /\ phase # "done"
    BY NodeFacts DEF Init, Paths
  <1>2. QED
    BY <1>1 DEF SoundInv, FreshOf

LEMMA SoundAlways ==
  ASSUME DistinctPaths, AskedAreListed
  PROVE  Spec => []SoundInv
  <1>1. IInv /\ SoundInv /\ [Next]_vars => SoundInv'
    <2>1. ASSUME IInv, SoundInv, UNCHANGED vars PROVE SoundInv'
      BY <2>1, SoundStays DEF vars, SoundInv
    <2>2. QED
      BY <2>1, SoundBookKeeps, SoundCaller DEF Next
  <1>2. Init => SoundInv
    BY SoundInit
  <1>3. QED
    BY <1>1, <1>2, Invariance, PTL DEF Spec

\* A run in which no operation fails, every referred type is declared or imported, and
\* documents refer to imported types only, succeeds: no interleaving of the two passes
\* makes a type unknown or finds a file in the way.
THEOREM NothingWrongSucceeds ==
  ASSUME DistinctPaths, AskedAreListed
  PROVE  Spec => []SoundRunsSucceed
  <1>1. SoundInv => SoundRunsSucceed
    BY DEF SoundInv, SoundRunsSucceed
  <1>2. QED
    BY <1>1, SoundAlways, PTL
=============================================================================

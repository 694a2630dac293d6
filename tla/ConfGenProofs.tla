--------------------------- MODULE ConfGenProofs ----------------------------
(***************************************************************************)
(* Theorems about ConfGen, for any workbooks, sheets, importers, budgets   *)
(* and faults: what the report of a run says of the confs it exported.     *)
(***************************************************************************)
EXTENDS ConfGen, TLAPS

BookPCs == {"off", "open", "sheet", "main", "group", "over"}
ParsePCs == {"off", "begin", "rows", "fields", "parsed", "over"}
Outcomes == {"ok", "plain", "joined"}

TypeOK ==
  /\ input \in Inputs
  /\ gen \in {"launch", "wait", "done"} /\ spec \in Nat \ {0} /\ result \in Outcomes
  /\ bpc \in [Books -> BookPCs] /\ idx \in [Books -> Nat \ {0}]
  /\ bres \in [Books -> Outcomes]
  /\ ipc \in [Importers -> ParsePCs] /\ row \in [Importers -> Nat \ {0}]
  /\ left \in [Importers -> Nat] /\ ires \in [Importers -> Outcomes]
  /\ count \in [Nodes -> Nat] /\ kept \in [Nodes -> Nat]
  /\ exported \subseteq Sheets \cup Importers /\ lost \subseteq Importers

\* The workbook an importer works for.
BookFor(i) == BookOf(SheetOf(i))

\* What fills a workbook's collector, and what a report shows of it.
Full(b) == count[b] >= MaxErrorsPerBook \/ count[Root] >= MaxErrors
-----------------------------------------------------------------------------
(* Sheets, importers and their workbooks.                                   *)

LEMMA LimitFacts ==
  /\ MaxErrors \in Nat \ {0} /\ MaxErrorsPerBook \in Nat \ {0}
  /\ MaxErrorsPerSheet \in Nat \ {0} /\ MaxErrorsPerMessage \in Nat \ {0}
  BY StructureAssumption

\* BookOf finds the one workbook a sheet is in.
LEMMA SheetPlace ==
  ASSUME NEW b \in Books, NEW k \in DOMAIN SheetsOf[b]
  PROVE  SheetsOf[b][k] \in Sheets /\ BookOf(SheetsOf[b][k]) = b
  <1>1. SheetsOf[b][k] \in Sheets
    BY StructureAssumption
  <1>2. \E a \in Books : \E l \in DOMAIN SheetsOf[a] : SheetsOf[a][l] = SheetsOf[b][k]
    OBVIOUS
  <1>3. QED
    BY <1>1, <1>2, StructureAssumption DEF BookOf

LEMMA SheetHasBook ==
  ASSUME NEW s \in Sheets
  PROVE  /\ BookOf(s) \in Books
         /\ \E k \in DOMAIN SheetsOf[BookOf(s)] : SheetsOf[BookOf(s)][k] = s
  BY StructureAssumption DEF BookOf

\* SheetOf finds the one sheet an importer is read for.
LEMMA ImporterPlace ==
  ASSUME NEW s \in Sheets, NEW i \in Readers(s)
  PROVE  i \in Importers /\ SheetOf(i) = s
  <1>1. i \in Importers
    BY StructureAssumption DEF Readers
  <1>2. \A t \in Sheets : i = Main[t] \/ i \in Extra[t] => t = s
    BY StructureAssumption DEF Readers
  <1>3. QED
    BY <1>1, <1>2 DEF SheetOf, Readers

LEMMA ImporterHasSheet ==
  ASSUME NEW i \in Importers
  PROVE  SheetOf(i) \in Sheets /\ i \in Readers(SheetOf(i)) /\ BookFor(i) \in Books
  <1>1. \E s \in Sheets : i = Main[s] \/ i \in Extra[s]
    BY StructureAssumption DEF Readers
  <1>2. SheetOf(i) \in Sheets /\ (i = Main[SheetOf(i)] \/ i \in Extra[SheetOf(i)])
    BY <1>1 DEF SheetOf
  <1>3. QED
    BY <1>2, SheetHasBook DEF Readers, BookFor

\* The current sheet of a workbook that is not past its last one.
LEMMA CurrentPlace ==
  ASSUME TypeOK, NEW b \in Books, idx[b] <= Len(SheetsOf[b])
  PROVE  /\ idx[b] \in DOMAIN SheetsOf[b]
         /\ Current(b) \in Sheets /\ BookOf(Current(b)) = b
         /\ Main[Current(b)] \in Importers /\ Extra[Current(b)] \subseteq Importers
         /\ Main[Current(b)] \notin Extra[Current(b)]
         /\ \A i \in Readers(Current(b)) : SheetOf(i) = Current(b) /\ BookFor(i) = b
         /\ Main[Current(b)] \in Readers(Current(b)) /\ Extra[Current(b)] \subseteq Readers(Current(b))
  <1>1. idx[b] \in 1..Len(SheetsOf[b])
    BY StructureAssumption DEF TypeOK
  <1>2. idx[b] \in DOMAIN SheetsOf[b]
    BY <1>1, StructureAssumption
  <1>3. Current(b) \in Sheets /\ BookOf(Current(b)) = b
    BY <1>2, SheetPlace DEF Current
  <1>4. \A i \in Readers(Current(b)) : SheetOf(i) = Current(b) /\ BookFor(i) = b
    BY <1>3, ImporterPlace DEF BookFor
  <1>5. QED
    BY <1>2, <1>3, <1>4, StructureAssumption DEF Readers
-----------------------------------------------------------------------------
(* The collectors.                                                          *)

\* A counter is never above that of a parent, and nor is what is stored; the
\* first error is dropped only if a budget further up is used up.
CollInv ==
  /\ \A n \in Nodes : kept[n] <= count[n]
  /\ \A i \in Importers : /\ count[RowOf(i)] <= count[i] /\ kept[RowOf(i)] <= kept[i]
                          /\ count[i] <= count[BookFor(i)] /\ kept[i] <= kept[BookFor(i)]
                          /\ count[i] > 0 => kept[i] > 0 \/ Full(BookFor(i))
  /\ \A b \in Books : /\ count[b] <= count[Root] /\ kept[b] <= kept[Root]
                      /\ count[b] > 0 => kept[b] > 0 \/ count[Root] >= MaxErrors
  /\ count[Root] > 0 => kept[Root] > 0

\* Only the collector of a row is ever emptied.
Grown ==
  \A n \in {Root} \cup Books \cup Importers : count[n] <= count'[n] /\ kept[n] <= kept'[n]

LEMMA NodeFacts ==
  /\ Root \in Nodes /\ Books \subseteq Nodes /\ Importers \subseteq Nodes
  /\ \A i \in Importers : RowOf(i) \in Nodes
  BY DEF Nodes

LEMMA PathFacts ==
  /\ Path(Root) = {Root}
  /\ \A b \in Books : Path(b) = {b, Root}
  /\ \A i \in Importers : /\ Path(i) = {i, BookFor(i), Root}
                          /\ Path(RowOf(i)) = {RowOf(i), i, BookFor(i), Root}
  <1>1. Path(Root) = {Root}
    BY DEF Path
  <1>2. ASSUME NEW b \in Books PROVE Path(b) = {b, Root}
    BY NamesAssumption DEF Path
  <1>3. ASSUME NEW i \in Importers PROVE Path(i) = {i, BookFor(i), Root}
    <2>1. i # Root /\ i \notin Books
      BY NamesAssumption
    <2>2. QED
      BY <2>1 DEF Path, BookFor
  <1>4. ASSUME NEW i \in Importers PROVE Path(RowOf(i)) = {RowOf(i), i, BookFor(i), Root}
    <2>1. RowOf(i) # Root /\ RowOf(i) \notin Books /\ RowOf(i) \notin Importers
      BY NamesAssumption
    <2>2. RowOf(i)[1] = i
      BY DEF RowOf
    <2>3. QED
      BY <2>1, <2>2 DEF Path, BookFor
  <1>5. QED
    BY <1>1, <1>2, <1>3, <1>4

LEMMA LimitsOfNodes ==
  /\ Limit(Root) = MaxErrors
  /\ \A b \in Books : Limit(b) = MaxErrorsPerBook
  /\ \A i \in Importers : Limit(i) = MaxErrorsPerSheet /\ Limit(RowOf(i)) = MaxErrorsPerMessage
  BY NamesAssumption DEF Limit

\* A full collector of a row or an importer has errors, or its workbook is full.
LEMMA FullFacts ==
  /\ \A b \in Books : IsFull(count, b) <=> Full(b)
  /\ \A i \in Importers : IsFull(count, i) <=> Full(BookFor(i)) \/ count[i] >= MaxErrorsPerSheet
  /\ IsFull(count, Root) <=> count[Root] >= MaxErrors
  <1>1. IsFull(count, Root) <=> count[Root] >= MaxErrors
    BY PathFacts, LimitsOfNodes DEF IsFull
  <1>2. ASSUME NEW b \in Books PROVE IsFull(count, b) <=> Full(b)
    BY PathFacts, LimitsOfNodes DEF IsFull, Full
  <1>3. ASSUME NEW i \in Importers
        PROVE  IsFull(count, i) <=> Full(BookFor(i)) \/ count[i] >= MaxErrorsPerSheet
    BY PathFacts, LimitsOfNodes, ImporterHasSheet DEF IsFull, Full
  <1>4. QED
    BY <1>1, <1>2, <1>3

\* What a plain error does on its path.
Counts(n) ==
  /\ \A m \in Nodes : count'[m] = count[m] + (IF m \in Path(n) THEN 1 ELSE 0)
  /\ \/ \A m \in Nodes : kept'[m] = kept[m] + (IF m \in Path(n) THEN 1 ELSE 0)
     \/ kept' = kept /\ \E m \in Path(n) : count[m] >= Limit(m)

LEMMA CollectCounts ==
  ASSUME NEW n \in Nodes, Collect(n, "plain"), TypeOK
  PROVE  Counts(n) /\ count' \in [Nodes -> Nat] /\ kept' \in [Nodes -> Nat]
  <1>1. \A m \in Nodes : count[m] \in Nat /\ kept[m] \in Nat
    BY DEF TypeOK
  <1>2. count' = [m \in Nodes |-> count[m] + (IF m \in Path(n) THEN 1 ELSE 0)]
    BY DEF Collect
  <1>3. CASE \A m \in Path(n) : count[m] < Limit(m)
    <2>1. kept' = [m \in Nodes |-> kept[m] + (IF m \in Path(n) THEN 1 ELSE 0)]
      BY <1>3 DEF Collect
    <2>2. QED
      BY <1>1, <1>2, <2>1 DEF Counts
  <1>4. CASE ~ \A m \in Path(n) : count[m] < Limit(m)
    <2>1. kept' = kept
      BY <1>4 DEF Collect
    <2>2. \E m \in Path(n) : ~ (count[m] < Limit(m))
      BY <1>4
    <2>3. \A m \in Path(n) : m \in Nodes => Limit(m) \in Nat
      BY LimitFacts, LimitsOfNodes DEF Nodes
    <2>4. Path(n) \subseteq Nodes
      BY PathFacts, ImporterHasSheet, NodeFacts DEF Nodes
    <2>5. \E m \in Path(n) : count[m] >= Limit(m)
      BY <1>1, <2>2, <2>3, <2>4
    <2>6. QED
      BY <1>1, <1>2, <2>1, <2>5 DEF Counts, TypeOK
  <1>5. QED
    BY <1>3, <1>4

\* A path that has a node has its parents; what else is on it counts no more.
LEMMA PathsClosed ==
  ASSUME NEW n \in Nodes
  PROVE  /\ Path(n) \subseteq Nodes /\ Root \in Path(n) /\ n \in Path(n)
         /\ \A i \in Importers : /\ RowOf(i) \in Path(n) => i \in Path(n)
                                 /\ i \in Path(n) => BookFor(i) \in Path(n)
                                 /\ i \in Path(n) => Path(n) \subseteq {RowOf(i), i, BookFor(i), Root}
         /\ \A b \in Books : b \in Path(n) =>
              \A m \in Path(n) : \/ m \in {b, Root}
                                 \/ \E i \in Importers : BookFor(i) = b /\ m \in {RowOf(i), i}
  <1> DEFINE Goal(m) ==
        /\ Path(m) \subseteq Nodes /\ Root \in Path(m) /\ m \in Path(m)
        /\ \A i \in Importers : /\ RowOf(i) \in Path(m) => i \in Path(m)
                                /\ i \in Path(m) => BookFor(i) \in Path(m)
                                /\ i \in Path(m) => Path(m) \subseteq {RowOf(i), i, BookFor(i), Root}
        /\ \A b \in Books : b \in Path(m) =>
             \A x \in Path(m) : \/ x \in {b, Root}
                                \/ \E i \in Importers : BookFor(i) = b /\ x \in {RowOf(i), i}
  <1>1. /\ \A i \in Importers : /\ BookFor(i) \in Books /\ i \notin Books /\ i # Root
                                /\ RowOf(i) \notin Books /\ RowOf(i) \notin Importers /\ RowOf(i) # Root
        /\ Root \notin Books
    BY NamesAssumption, ImporterHasSheet
  <1>2. CASE n = Root
    <2>1. Goal(Root)
      BY <1>1, PathFacts, NodeFacts
    <2>2. QED
      BY <2>1, <1>2
  <1>3. CASE n \in Books
    <2>1. Path(n) = {n, Root}
      BY <1>3, PathFacts
    <2>2. QED
      BY <1>1, <1>3, <2>1, NodeFacts
  <1>4. ASSUME n \in Importers PROVE Goal(n)
    <2>1. Path(n) = {n, BookFor(n), Root}
      BY <1>4, PathFacts
    <2>2. QED
      BY <1>1, <1>4, <2>1, NodeFacts
  <1>5. ASSUME NEW j \in Importers, n = RowOf(j) PROVE Goal(n)
    <2>1. Path(n) = {n, j, BookFor(j), Root}
      BY <1>5, PathFacts
    <2>2. \A i \in Importers : RowOf(i) = n => i = j
      BY <1>5 DEF RowOf
    <2>3. QED
      BY <1>1, <1>5, <2>1, <2>2, NodeFacts
  <1>6. QED
    BY <1>2, <1>3, <1>4, <1>5 DEF Nodes

LEMMA CountsKeepCollInv ==
  ASSUME TypeOK, CollInv, NEW n \in Nodes, Counts(n),
         count' \in [Nodes -> Nat], kept' \in [Nodes -> Nat]
  PROVE  CollInv' /\ Grown /\ \A m \in Path(n) : count'[m] > 0
  <1> DEFINE One(m) == IF m \in Path(n) THEN 1 ELSE 0
  <1>1. \A m \in Nodes : /\ count[m] \in Nat /\ kept[m] \in Nat
                         /\ count'[m] \in Nat /\ kept'[m] \in Nat
                         /\ count'[m] = count[m] + One(m)
                         /\ kept'[m] = kept[m] + One(m) \/ kept'[m] = kept[m]
    BY DEF TypeOK, Counts
  <1>2. \A m \in Nodes : count[m] <= count'[m] /\ kept[m] <= kept'[m]
    BY <1>1
  <1>3. Grown /\ \A m \in Path(n) : count'[m] > 0
    BY <1>1, <1>2, PathsClosed, NodeFacts DEF Grown
  <1>4. \/ \A m \in Nodes : kept'[m] = kept[m] + One(m)
        \/ /\ \A m \in Nodes : kept'[m] = kept[m]
           /\ \E m \in Path(n) : count[m] >= Limit(m)
    BY DEF Counts
  <1>5. \A m \in Nodes : kept'[m] <= count'[m]
    BY <1>1, <1>4 DEF CollInv
  <1>6. ASSUME NEW i \in Importers
        PROVE  /\ count'[RowOf(i)] <= count'[i] /\ kept'[RowOf(i)] <= kept'[i]
               /\ count'[i] <= count'[BookFor(i)] /\ kept'[i] <= kept'[BookFor(i)]
               /\ count'[BookFor(i)] <= count'[Root] /\ kept'[BookFor(i)] <= kept'[Root]
    <2>1. RowOf(i) \in Nodes /\ i \in Nodes /\ BookFor(i) \in Books /\ BookFor(i) \in Nodes /\ Root \in Nodes
      BY NodeFacts, ImporterHasSheet
    <2>2. One(RowOf(i)) <= One(i) /\ One(i) <= One(BookFor(i)) /\ One(BookFor(i)) <= One(Root)
      BY PathsClosed
    <2>3. /\ count[RowOf(i)] <= count[i] /\ kept[RowOf(i)] <= kept[i]
          /\ count[i] <= count[BookFor(i)] /\ kept[i] <= kept[BookFor(i)]
          /\ count[BookFor(i)] <= count[Root] /\ kept[BookFor(i)] <= kept[Root]
      BY <2>1 DEF CollInv
    <2> HIDE DEF One
    <2>4. One(RowOf(i)) \in Nat /\ One(i) \in Nat /\ One(BookFor(i)) \in Nat /\ One(Root) \in Nat
      BY DEF One
    <2>5. QED
      BY <1>1, <1>4, <2>1, <2>2, <2>3, <2>4
  <1>7. ASSUME NEW b \in Books
        PROVE  /\ count'[b] <= count'[Root] /\ kept'[b] <= kept'[Root]
               /\ count'[b] > 0 => kept'[b] > 0 \/ count'[Root] >= MaxErrors
    <2>1. b \in Nodes /\ Root \in Nodes
      BY NodeFacts
    <2>2. One(b) <= One(Root)
      BY PathsClosed
    <2>3. count'[b] <= count'[Root] /\ kept'[b] <= kept'[Root]
      BY <1>1, <1>4, <2>1, <2>2 DEF CollInv
    <2>4. CASE b \notin Path(n)
      BY <1>1, <1>2, <2>1, <2>4, LimitFacts DEF CollInv
    <2>5. CASE b \in Path(n)
      <3>1. CASE \A m \in Nodes : kept'[m] = kept[m] + One(m)
        BY <1>1, <2>1, <2>3, <2>5, <3>1
      <3>2. ASSUME NEW m \in Path(n), count[m] >= Limit(m), \A x \in Nodes : kept'[x] = kept[x]
            PROVE  kept'[b] > 0 \/ count'[Root] >= MaxErrors
        <4>1. CASE m = Root
          BY <1>1, <2>1, <3>2, <4>1, LimitsOfNodes, LimitFacts, PathsClosed
        <4>2. CASE m # Root
          <5>1. count[m] <= count[b] /\ Limit(m) \in Nat \ {0} /\ count[m] \in Nat
            BY <1>1, <2>5, <4>2, PathsClosed, LimitsOfNodes, LimitFacts, NodeFacts DEF CollInv
          <5>2. count[b] > 0
            BY <1>1, <2>1, <3>2, <5>1
          <5>3. QED
            BY <1>1, <1>2, <2>1, <3>2, <5>2, LimitFacts DEF CollInv
        <4>3. QED
          BY <4>1, <4>2
      <3>3. QED
        BY <1>4, <2>3, <3>1, <3>2
    <2>6. QED
      BY <2>3, <2>4, <2>5
  <1>8. ASSUME NEW i \in Importers, count'[i] > 0
        PROVE  kept'[i] > 0 \/ Full(BookFor(i))'
    <2>1. i \in Nodes /\ BookFor(i) \in Books /\ BookFor(i) \in Nodes /\ Root \in Nodes
      BY NodeFacts, ImporterHasSheet
    <2>2. Full(BookFor(i)) => Full(BookFor(i))'
      BY <1>1, <1>2, <2>1, LimitFacts DEF Full
    <2>3. CASE count[i] > 0
      BY <1>1, <1>2, <2>1, <2>2, <2>3 DEF CollInv
    <2>4. CASE ~(count[i] > 0)
      <3>1. i \in Path(n)
        BY <1>1, <1>8, <2>1, <2>4
      <3>2. CASE \A m \in Nodes : kept'[m] = kept[m] + One(m)
        BY <1>1, <2>1, <3>1, <3>2
      <3>3. ASSUME NEW m \in Path(n), count[m] >= Limit(m) PROVE Full(BookFor(i))'
        <4>1. m \in {RowOf(i), i, BookFor(i), Root}
          BY <3>1, PathsClosed
        <4>2. ~(m \in {RowOf(i), i})
          <5>1. SUFFICES ASSUME m \in {RowOf(i), i} PROVE FALSE
            OBVIOUS
          <5>2. count[m] <= count[i] /\ count[m] \in Nat /\ count[i] \in Nat
            BY <1>1, <2>1, <5>1, NodeFacts DEF CollInv
          <5>3. Limit(m) \in Nat \ {0}
            BY <5>1, LimitsOfNodes, LimitFacts
          <5>4. QED
            BY <2>4, <3>3, <5>2, <5>3
        <4>3. m \in {BookFor(i), Root}
          BY <4>1, <4>2
        <4>4. QED
          BY <1>1, <1>2, <2>1, <3>3, <4>3, LimitsOfNodes, LimitFacts DEF Full
      <3>4. QED
        BY <1>4, <3>2, <3>3
    <2>5. QED
      BY <2>3, <2>4
  <1>9. count'[Root] > 0 => kept'[Root] > 0
    <2>1. Root \in Nodes
      BY NodeFacts
    <2>2. CASE count[Root] > 0
      BY <1>1, <1>2, <2>1, <2>2 DEF CollInv
    <2>3. CASE ~(count[Root] > 0)
      <3>1. CASE \A m \in Nodes : kept'[m] = kept[m] + One(m)
        BY <1>1, <2>1, <3>1, PathsClosed
      <3>2. ASSUME NEW m \in Path(n), count[m] >= Limit(m) PROVE FALSE
        <4>1. \A b \in Books : b \in Nodes /\ count[b] = 0
          BY <1>1, <2>1, <2>3, NodeFacts DEF CollInv
        <4>2. \A i \in Importers : i \in Nodes /\ RowOf(i) \in Nodes /\ count[i] = 0
          BY <1>1, <4>1, NodeFacts, ImporterHasSheet DEF CollInv
        <4>3. \A i \in Importers : count[RowOf(i)] = 0
          BY <1>1, <4>2 DEF CollInv
        <4>4. m \in Nodes /\ count[Root] = 0
          BY <1>1, <2>1, <2>3, PathsClosed
        <4>5. count[m] = 0 /\ Limit(m) \in Nat \ {0}
          BY <4>1, <4>2, <4>3, <4>4, LimitsOfNodes, LimitFacts DEF Nodes
        <4>6. QED
          BY <3>2, <4>5
      <3>3. QED
        BY <1>4, <3>1, <3>2
    <2>4. QED
      BY <2>2, <2>3
  <1>10. QED
    BY <1>3, <1>5, <1>6, <1>7, <1>8, <1>9 DEF CollInv

LEMMA CollectFacts ==
  ASSUME TypeOK, CollInv, NEW n \in Nodes, NEW err \in Outcomes, Collect(n, err)
  PROVE  /\ CollInv' /\ Grown /\ count' \in [Nodes -> Nat] /\ kept' \in [Nodes -> Nat]
         /\ err = "plain" => \A m \in Path(n) : count'[m] > 0
  <1>1. CASE err = "plain"
    BY <1>1, CollectCounts, CountsKeepCollInv
  <1>2. CASE err # "plain"
    <2>1. count' = count /\ kept' = kept
      BY <1>2 DEF Collect
    <2>2. CollInv'
      BY <2>1 DEF CollInv, Full
    <2>3. Grown
      BY <2>1, NodeFacts DEF Grown, TypeOK
    <2>4. QED
      BY <1>2, <2>1, <2>2, <2>3 DEF TypeOK
  <1>3. QED
    BY <1>1, <1>2

-----------------------------------------------------------------------------
(* Types, and what any step does to the collectors.                         *)

BaseInv == TypeOK /\ CollInv

\* What holds of the collectors after a step.
CollStep == CollInv' /\ Grown /\ count' \in [Nodes -> Nat] /\ kept' \in [Nodes -> Nat]

LEMMA CollUnchanged ==
  ASSUME TypeOK, CollInv, UNCHANGED collVars PROVE CollStep
  <1>1. count' = count /\ kept' = kept
    BY DEF collVars
  <1>2. CollInv'
    BY <1>1 DEF CollInv, Full
  <1>3. Grown
    BY <1>1, NodeFacts DEF Grown, TypeOK
  <1>4. QED
    BY <1>1, <1>2, <1>3 DEF CollStep, TypeOK

LEMMA CollectSteps ==
  ASSUME TypeOK, CollInv, NEW n \in Nodes, NEW err \in Outcomes, Collect(n, err)
  PROVE  CollStep /\ (err = "plain" => \A m \in Path(n) : count'[m] > 0)
  BY CollectFacts DEF CollStep

\* A new row has an empty collector.
LEMMA NewRowSteps ==
  ASSUME TypeOK, CollInv, NEW i \in Importers,
         count' = [count EXCEPT ![RowOf(i)] = 0], kept' = [kept EXCEPT ![RowOf(i)] = 0]
  PROVE  CollStep
  <1>1. count' \in [Nodes -> Nat] /\ kept' \in [Nodes -> Nat]
    BY NodeFacts DEF TypeOK
  <1>2. \A n \in {Root} \cup Books \cup Importers :
          count'[n] = count[n] /\ kept'[n] = kept[n] /\ count[n] \in Nat /\ kept[n] \in Nat
    BY NodeFacts, NamesAssumption DEF TypeOK
  <1>3. Grown
    BY <1>2 DEF Grown
  <1>4. \A b \in Books : Full(b)' <=> Full(b)
    BY <1>2 DEF Full
  <1>5. \A n \in Nodes : /\ count'[n] \in {count[n], 0} /\ kept'[n] \in {kept[n], 0}
                         /\ kept'[n] <= count'[n]
                         /\ count[n] \in Nat /\ kept[n] \in Nat
    BY NodeFacts DEF TypeOK, CollInv
  <1>6. \A j \in Importers : count'[RowOf(j)] <= count'[j] /\ kept'[RowOf(j)] <= kept'[j]
    BY <1>2, <1>5, NodeFacts DEF CollInv
  <1>7. CollInv'
    BY <1>2, <1>4, <1>5, <1>6, ImporterHasSheet DEF CollInv
  <1>8. QED
    BY <1>1, <1>3, <1>7 DEF CollStep

LEMMA JoinTypes ==
  /\ \A n : Join(kept, n) \in {"ok", "joined"} /\ JoinIfErrors(n) \in {"ok", "joined"}
  /\ \A n : CollectReturns(n) \in {"ok", "joined"}
  BY DEF Join, JoinIfErrors, CollectReturns

\* The variables of the parse and of the workbook that step.
ParseTypes ==
  /\ ipc' \in [Importers -> ParsePCs] /\ row' \in [Importers -> Nat \ {0}]
  /\ left' \in [Importers -> Nat] /\ ires' \in [Importers -> Outcomes] /\ lost' \subseteq Importers
BookTypes ==
  bpc' \in [Books -> BookPCs] /\ idx' \in [Books -> Nat \ {0}] /\ bres' \in [Books -> Outcomes]

LEMMA ReturnBase ==
  ASSUME TypeOK, CollInv, NEW b \in Books, NEW err \in Outcomes, Return(b, err)
  PROVE  CollStep /\ BookTypes /\ (err = "plain" => count'[Root] > 0)
  <1>1. CollStep /\ (err = "plain" => count'[Root] > 0)
    BY CollectSteps, NodeFacts, PathFacts DEF Return
  <1>2. BookTypes
    BY DEF Return, BookTypes, TypeOK, BookPCs
  <1>3. QED
    BY <1>1, <1>2

LEMMA NextSheetBase ==
  ASSUME TypeOK, NEW b \in Books, NextSheet(b) PROVE BookTypes
  BY DEF NextSheet, BookTypes, TypeOK, BookPCs

\* A failed sheet: on to the next one, or the end.
LEMMA FailSheetBase ==
  ASSUME TypeOK, CollInv, NEW b \in Books, NEW err \in Outcomes, FailSheet(b, err)
  PROVE  /\ CollStep /\ BookTypes /\ exported' = exported
         /\ err = "plain" => count'[b] > 0
         /\ \/ NextSheet(b)
            \/ /\ bpc' = [bpc EXCEPT ![b] = "over"]
               /\ bres' = [bres EXCEPT ![b] = "joined"]
               /\ idx' = idx
               /\ IsFull(count', b)
  <1>1. CollStep /\ (err = "plain" => count'[b] > 0)
    BY CollectSteps, NodeFacts, PathFacts DEF FailSheet
  <1>2. \/ NextSheet(b)
        \/ /\ bpc' = [bpc EXCEPT ![b] = "over"]
           /\ bres' = [bres EXCEPT ![b] = "joined"]
           /\ idx' = idx
           /\ CollectReturns(b) # "ok"
    BY DEF FailSheet
  <1>3. CollectReturns(b) # "ok" => IsFull(count', b)
    BY DEF CollectReturns
  <1>4. BookTypes
    BY <1>2, NextSheetBase DEF BookTypes, TypeOK, BookPCs, Outcomes
  <1>5. QED
    BY <1>1, <1>2, <1>3, <1>4 DEF FailSheet

\* The end of a row: the parse is over with errors, or goes on.
LEMMA EndRowBase ==
  ASSUME NEW i \in Importers, NEW err, EndRow(i, err)
  PROVE  \/ /\ ipc' = [ipc EXCEPT ![i] = "parsed"] /\ ires' = [ires EXCEPT ![i] = "joined"]
            /\ row' = row /\ lost' = lost /\ err = "joined"
            /\ i \in Documents \/ kept'[i] > 0
         \/ /\ ipc' = [ipc EXCEPT ![i] = "rows"] /\ ires' = ires
            /\ row' = [row EXCEPT ![i] = row[i] + 1]
            /\ lost' = IF input.errs[i][row[i]] > 0 THEN lost \cup {i} ELSE lost
  <1>1. CollectReturns(i) = "joined" => kept'[i] > 0
    BY DEF CollectReturns, Join
  <1>2. CASE err = "joined" /\ (i \in Documents \/ CollectReturns(i) = "joined")
    BY <1>1, <1>2 DEF EndRow, Parsed
  <1>3. CASE ~(err = "joined" /\ (i \in Documents \/ CollectReturns(i) = "joined"))
    BY <1>3 DEF EndRow, NextRow
  <1>4. QED
    BY <1>2, <1>3
-----------------------------------------------------------------------------
(* The invariant.                                                           *)

\* A goroutine is started once: the workbooks of the specifiers to come are off.
LaunchInv ==
  gen = "launch" =>
    \A l \in DOMAIN Specs : l >= spec => \A b \in Specs[l] : bpc[b] = "off"

\* The importers of a sheet whose turn has not come have not been started, and
\* the ones that run are of the sheet whose turn it is.
StageOf(b) ==
  /\ bpc[b] \in {"main", "group"} => idx[b] <= Len(SheetsOf[b])
  /\ bpc[b] = "main" => Current(b) \in Scatter \/ Extra[Current(b)] = {}
  /\ bpc[b] = "group" => Current(b) \in Scatter \/ Extra[Current(b)] # {}
  /\ bpc[b] = "group" /\ Current(b) \in Scatter => ipc[Main[Current(b)]] = "parsed"
  /\ \A k \in DOMAIN SheetsOf[b] : \A i \in Readers(SheetsOf[b][k]) :
       /\ idx[b] < k => ipc[i] = "off"
       /\ idx[b] = k /\ bpc[b] \in {"off", "open", "sheet"} => ipc[i] = "off"
       /\ idx[b] = k /\ bpc[b] = "main" /\ i # Main[SheetsOf[b][k]] => ipc[i] = "off"
       /\ ipc[i] \in {"begin", "rows", "fields"} => idx[b] = k /\ bpc[b] \in {"main", "group"}
StageInv == \A b \in Books : StageOf(b)

\* What a parse has gone past and what it returned are in the collectors.
ParseOf(i) ==
  /\ ires[i] # "ok" => ipc[i] \in {"parsed", "over"}
  /\ i \in lost => ipc[i] \notin {"off", "begin"} /\ (count[i] > 0 \/ Full(BookFor(i)))
  /\ i \in lost /\ ipc[i] \in {"parsed", "over"} /\ ires[i] = "ok" => Full(BookFor(i))
  /\ ipc[i] = "fields" =>
       /\ row[i] <= Len(input.errs[i]) /\ left[i] <= input.errs[i][row[i]]
       /\ left[i] < input.errs[i][row[i]] => count[i] > 0
  /\ ires[i] = "joined" => kept[BookFor(i)] > 0
  /\ ires[i] = "plain" /\ ipc[i] = "over" => count[BookFor(i)] > 0
ParseInv == \A i \in Importers : ParseOf(i)

\* What was exported had been read; an error in it is one of a full collector.
ExportOf(conf) ==
  \/ /\ conf \in Sheets \ Scatter
     /\ \A i \in Readers(conf) : ipc[i] \in {"parsed", "over"} /\ (ires[i] = "ok" \/ Full(BookFor(i)))
  \/ /\ conf \in Importers /\ SheetOf(conf) \in Scatter /\ ires[conf] = "ok"
     /\ ipc[conf] = "over" \/ (ipc[conf] = "parsed" /\ conf = Main[SheetOf(conf)])
ExportInv == \A conf \in exported : ExportOf(conf)

\* What is missing of the sheets behind is accounted for.
Bad(b) == kept[b] > 0 \/ count[Root] >= MaxErrors
MissOf(b) ==
  /\ \A k \in DOMAIN SheetsOf[b] : k < idx[b] =>
       \A conf \in ConfsOf(SheetsOf[b][k]) : conf \in exported \/ Bad(b)
  /\ bpc[b] = "over" /\ idx[b] <= Len(SheetsOf[b]) =>
       Bad(b) \/ (bres[b] = "plain" /\ kept[Root] > 0)
  /\ bpc[b] = "group" /\ Current(b) \in Scatter =>
       /\ Main[Current(b)] \in exported
       /\ \A i \in Extra[Current(b)] : ipc[i] = "over" => i \in exported \/ Bad(b)
MissInv == \A b \in Books : MissOf(b)

\* A run that returned no error has nothing left to report.
DoneInv ==
  gen = "done" /\ result = "ok" =>
    count[Root] = 0 /\ \A b \in Books : bpc[b] \in {"off", "over"}

\* An importer with nothing wrong in it has no errors, and its sheet is exported
\* when its turn is over.
CleanImporter(i) ==
  /\ \A f \in input.faults : f[2] # i
  /\ \A k \in DOMAIN input.errs[i] : input.errs[i][k] = 0
CleanParse == \A i \in Importers : CleanImporter(i) => count[i] = 0 /\ left[i] = 0 /\ ires[i] = "ok"
CleanOf(b) ==
  /\ \A k \in DOMAIN SheetsOf[b] :
       LET s == SheetsOf[b][k]
       IN  k < idx[b] /\ Clean(s) /\ Extra[s] = {} => s \in exported \/ Main[s] \in exported
  /\ bpc[b] = "over" /\ idx[b] <= Len(SheetsOf[b]) => Full(b) \/ bres[b] = "plain"
CleanInv == CleanParse /\ \A b \in Books : CleanOf(b)

IInv ==
  /\ BaseInv /\ LaunchInv /\ StageInv /\ ParseInv
  /\ ExportInv /\ MissInv /\ DoneInv /\ CleanInv
-----------------------------------------------------------------------------
(* The steps, by what they change.                                          *)

LEMMA InputFacts ==
  ASSUME TypeOK
  PROVE  /\ Scatter \subseteq Sheets
         /\ Specs \in Seq(SUBSET Books)
         /\ \A k, l \in DOMAIN Specs : k # l => Specs[k] \cap Specs[l] = {}
         /\ \A i \in Importers : /\ Len(input.errs[i]) \in Nat
                                 /\ DOMAIN input.errs[i] = 1..Len(input.errs[i])
                                 /\ \A k \in 1..Len(input.errs[i]) : input.errs[i][k] \in Nat
  <1>1. input \in Inputs
    BY DEF TypeOK
  <1>2. /\ input.specs \in Seq(SUBSET Books) /\ input.scatter \subseteq Sheets
        /\ \A k, l \in DOMAIN input.specs : k # l => input.specs[k] \cap input.specs[l] = {}
        /\ input.errs \in [Importers -> Seq(Nat)]
    BY <1>1, InputAssumption
  <1>3. ASSUME NEW i \in Importers
        PROVE  /\ Len(input.errs[i]) \in Nat
               /\ DOMAIN input.errs[i] = 1..Len(input.errs[i])
               /\ \A k \in 1..Len(input.errs[i]) : input.errs[i][k] \in Nat
    <2>1. input.errs[i] \in Seq(Nat)
      BY <1>2
    <2>2. QED
      BY <2>1
  <1>4. QED
    BY <1>2, <1>3 DEF Scatter, Specs

\* A step of one importer's parse: its workbook and the others' parses stay.
ParseShape(i) ==
  /\ UNCHANGED <<input, gen, spec, result, bookVars, exported>>
  /\ ipc[i] \in {"begin", "rows", "fields"} /\ ipc'[i] \in {"rows", "fields", "parsed"}
  /\ ires'[i] # ires[i] => ipc'[i] = "parsed"
  /\ \A j \in Importers : j # i =>
       /\ ipc'[j] = ipc[j] /\ row'[j] = row[j] /\ left'[j] = left[j] /\ ires'[j] = ires[j]
       /\ j \in lost' <=> j \in lost
  /\ ParseTypes /\ CollStep

\* The steps of a parse are those that its goroutine makes on its own.
ParseAlone(i) ==
  \/ BeginParse(i) \/ BeginRow(i) \/ FieldError(i) \/ DocumentFull(i)
  \/ EndFields(i) \/ EndRows(i)

LEMMA EndRowShape ==
  ASSUME TypeOK, NEW i \in Importers, NEW err, EndRow(i, err), ipc[i] = "fields",
         UNCHANGED <<input, gen, spec, result, bookVars, exported>>,
         left' \in [Importers -> Nat], \A j \in Importers : j # i => left'[j] = left[j],
         CollStep
  PROVE  ParseShape(i)
  <1>1. CASE /\ ipc' = [ipc EXCEPT ![i] = "parsed"] /\ ires' = [ires EXCEPT ![i] = "joined"]
             /\ row' = row /\ lost' = lost
    BY <1>1 DEF ParseShape, ParseTypes, TypeOK, ParsePCs, Outcomes
  <1>2. CASE /\ ipc' = [ipc EXCEPT ![i] = "rows"] /\ ires' = ires
             /\ row' = [row EXCEPT ![i] = row[i] + 1]
             /\ lost' = lost \/ lost' = lost \cup {i}
    BY <1>2 DEF ParseShape, ParseTypes, TypeOK, ParsePCs
  <1>3. QED
    BY <1>1, <1>2, EndRowBase

LEMMA ParseAloneShape ==
  ASSUME TypeOK, CollInv, NEW i \in Importers, ParseAlone(i)
  PROVE  ParseShape(i)
  <1>1. CASE BeginParse(i)
    <2>1. CollStep
      BY <1>1, CollUnchanged DEF BeginParse
    <2>2. CASE Parsed(i, "plain")
      BY <1>1, <2>1, <2>2 DEF BeginParse, Parsed, ParseShape, ParseTypes, TypeOK, ParsePCs, Outcomes
    <2>3. CASE ipc' = [ipc EXCEPT ![i] = "rows"] /\ ires' = ires
      BY <1>1, <2>1, <2>3 DEF BeginParse, ParseShape, ParseTypes, TypeOK, ParsePCs
    <2>4. QED
      BY <1>1, <2>2, <2>3 DEF BeginParse
  <1>2. CASE BeginRow(i)
    <2>1. CASE /\ Parsed(i, "joined") /\ UNCHANGED <<row, lost, left, collVars>>
      <3>1. CollStep
        BY <2>1, CollUnchanged
      <3>2. QED
        BY <1>2, <2>1, <3>1 DEF BeginRow, Parsed, ParseShape, ParseTypes, TypeOK, ParsePCs, Outcomes
    <2>2. CASE NextRow(i, TRUE) /\ UNCHANGED <<left, collVars>>
      <3>1. CollStep
        BY <2>2, CollUnchanged
      <3>2. QED
        BY <1>2, <2>2, <3>1 DEF BeginRow, NextRow, ParseShape, ParseTypes, TypeOK, ParsePCs
    <2>3. CASE /\ ipc' = [ipc EXCEPT ![i] = "fields"]
               /\ left' = [left EXCEPT ![i] = input.errs[i][row[i]]]
               /\ count' = [count EXCEPT ![RowOf(i)] = 0]
               /\ kept' = [kept EXCEPT ![RowOf(i)] = 0]
               /\ UNCHANGED <<row, ires, lost>>
      <3>1. CollStep
        BY <2>3, NewRowSteps
      <3>2. input.errs[i][row[i]] \in Nat
        BY <1>2, InputFacts DEF BeginRow, TypeOK
      <3>3. QED
        BY <1>2, <2>3, <3>1, <3>2 DEF BeginRow, ParseShape, ParseTypes, TypeOK, ParsePCs
    <2>4. QED
      BY <1>2, <2>1, <2>2, <2>3 DEF BeginRow
  <1>3. CASE FieldError(i)
    <2>1. CollStep
      BY <1>3, CollectSteps, NodeFacts DEF FieldError, Outcomes
    <2>2. /\ ipc[i] = "fields" /\ UNCHANGED <<input, gen, spec, result, bookVars, exported>>
          /\ left' \in [Importers -> Nat] /\ \A j \in Importers : j # i => left'[j] = left[j]
      BY <1>3 DEF FieldError, TypeOK
    <2>3. CASE EndRow(i, "joined")
      BY <2>1, <2>2, <2>3, EndRowShape
    <2>4. CASE UNCHANGED <<ipc, row, ires, lost>>
      BY <2>1, <2>2, <2>4 DEF ParseShape, ParseTypes, TypeOK
    <2>5. QED
      BY <1>3, <2>3, <2>4 DEF FieldError
  <1>4. CASE DocumentFull(i)
    <2>1. CollStep
      BY <1>4, CollUnchanged DEF DocumentFull
    <2>2. QED
      BY <1>4, <2>1, EndRowShape DEF DocumentFull, TypeOK
  <1>5. CASE EndFields(i)
    <2>1. CollStep
      BY <1>5, CollUnchanged DEF EndFields
    <2>2. QED
      BY <1>5, <2>1, EndRowShape DEF EndFields, TypeOK
  <1>6. CASE EndRows(i)
    <2>1. CollStep
      BY <1>6, CollUnchanged DEF EndRows
    <2>2. JoinIfErrors(i) \in Outcomes
      BY JoinTypes DEF Outcomes
    <2>3. QED
      BY <1>6, <2>1, <2>2 DEF EndRows, Parsed, ParseShape, ParseTypes, TypeOK, ParsePCs
  <1>7. QED
    BY <1>1, <1>2, <1>3, <1>4, <1>5, <1>6 DEF ParseAlone

\* A goroutine of a group ends.
MemberShape(i) ==
  /\ UNCHANGED <<input, gen, spec, result, bookVars, row, left, lost>>
  /\ ipc[i] = "parsed" /\ ipc' = [ipc EXCEPT ![i] = "over"]
  /\ InGroup(BookFor(i), SheetOf(i)) /\ (i # Main[SheetOf(i)] \/ SheetOf(i) \notin Scatter)
  /\ \/ /\ ires[i] = "ok" /\ SheetOf(i) \in Scatter /\ Fails("store", i)
        /\ ires' = [ires EXCEPT ![i] = "plain"] /\ exported' = exported
        /\ count'[BookFor(i)] > 0
     \/ /\ ires[i] = "ok" /\ SheetOf(i) \in Scatter
        /\ exported' = exported \cup {i} /\ ires' = ires
     \/ /\ ires[i] # "ok" \/ SheetOf(i) \notin Scatter
        /\ ires' = ires /\ exported' = exported
        /\ ires[i] = "plain" => count'[BookFor(i)] > 0
  /\ ParseTypes /\ CollStep /\ exported' \subseteq Sheets \cup Importers

LEMMA MemberDoneShape ==
  ASSUME TypeOK, CollInv, NEW i \in Importers, MemberDone(i)
  PROVE  MemberShape(i)
  <1> DEFINE b == BookFor(i)
             s == SheetOf(i)
  <1>1. b \in Books /\ b \in Nodes /\ s \in Sheets /\ b \in Path(b)
    BY ImporterHasSheet, NodeFacts, PathFacts
  <1>2. /\ UNCHANGED <<input, gen, spec, result, bookVars, row, left, lost>>
        /\ ipc[i] = "parsed" /\ ipc' = [ipc EXCEPT ![i] = "over"]
        /\ InGroup(b, s) /\ (i # Main[s] \/ s \notin Scatter)
    BY DEF MemberDone, BookFor
  <1>3. \/ /\ ires[i] = "ok" /\ s \in Scatter /\ Fails("store", i)
           /\ Collect(b, "plain") /\ ires' = [ires EXCEPT ![i] = "plain"] /\ exported' = exported
        \/ /\ ires[i] = "ok" /\ s \in Scatter
           /\ exported' = exported \cup {i} /\ UNCHANGED <<ires, collVars>>
        \/ /\ ires[i] # "ok" \/ s \notin Scatter
           /\ Collect(b, ires[i]) /\ UNCHANGED <<ires, exported>>
    BY DEF MemberDone, BookFor
  <1>4. ires[i] \in Outcomes /\ "plain" \in Outcomes
    BY DEF TypeOK, Outcomes
  <1>5. ParseTypes /\ exported' \subseteq Sheets \cup Importers
    BY <1>2, <1>3 DEF ParseTypes, TypeOK, ParsePCs, Outcomes
  <1> HIDE DEF b, s
  <1>6. CASE /\ ires[i] = "ok" /\ s \in Scatter /\ Fails("store", i)
             /\ Collect(b, "plain") /\ ires' = [ires EXCEPT ![i] = "plain"] /\ exported' = exported
    <2>1. CollStep /\ count'[b] > 0
      BY <1>1, <1>4, <1>6, CollectSteps
    <2>2. QED
      BY <1>2, <1>5, <1>6, <2>1 DEF MemberShape, b, s
  <1>7. CASE /\ ires[i] = "ok" /\ s \in Scatter
             /\ exported' = exported \cup {i} /\ UNCHANGED <<ires, collVars>>
    <2>1. CollStep
      BY <1>7, CollUnchanged
    <2>2. QED
      BY <1>2, <1>5, <1>7, <2>1 DEF MemberShape, b, s
  <1>8. CASE /\ ires[i] # "ok" \/ s \notin Scatter
             /\ Collect(b, ires[i]) /\ UNCHANGED <<ires, exported>>
    <2>1. CollStep /\ (ires[i] = "plain" => count'[b] > 0)
      BY <1>1, <1>4, <1>8, CollectSteps
    <2>2. QED
      BY <1>2, <1>5, <1>8, <2>1 DEF MemberShape, b, s
  <1>9. QED
    BY <1>3, <1>6, <1>7, <1>8

\* A step of a workbook's goroutine: the sheet at hand is given up (stopped or
\* passed), or it is passed with an export, or importers of it are started.
Passed(b) ==
  bpc' = [bpc EXCEPT ![b] = "sheet"] /\ idx' = [idx EXCEPT ![b] = @ + 1] /\ bres' = bres
Ended(b, err) ==
  /\ bpc' = [bpc EXCEPT ![b] = "over"] /\ bres' = [bres EXCEPT ![b] = err] /\ idx' = idx
Moved(b, to) == bpc' = [bpc EXCEPT ![b] = to] /\ idx' = idx /\ bres' = bres

GivenUp(b) ==
  /\ exported' = exported /\ ipc' = ipc
  /\ \/ Passed(b)
     \/ Ended(b, "joined") /\ IsFull(count', b)

BookFrame(b) ==
  /\ UNCHANGED <<input, gen, spec, result, row, left, ires, lost>>
  /\ BookTypes /\ ipc' \in [Importers -> ParsePCs] /\ exported' \subseteq Sheets \cup Importers
  /\ CollStep

OpenShape(b) ==
  /\ bpc[b] = "open" /\ ipc' = ipc /\ exported' = exported
  /\ Moved(b, "sheet") \/ (Ended(b, "plain") /\ count'[Root] > 0)

BeginSheetShape(b) ==
  /\ bpc[b] = "sheet" /\ idx[b] <= Len(SheetsOf[b]) /\ exported' = exported
  /\ \/ ipc' = ipc /\ Ended(b, "plain") /\ count'[Root] > 0
     \/ GivenUp(b) /\ Fails("importers", Current(b)) /\ count'[b] > 0
     \/ /\ Current(b) \in Scatter \/ Extra[Current(b)] = {}
        /\ ipc' = [i \in Importers |-> IF i = Main[Current(b)] THEN "begin" ELSE ipc[i]]
        /\ Moved(b, "main")
     \/ /\ ~(Current(b) \in Scatter \/ Extra[Current(b)] = {})
        /\ ipc' = [i \in Importers |-> IF i \in Readers(Current(b)) THEN "begin" ELSE ipc[i]]
        /\ Moved(b, "group")

MainParsedShape(b) ==
  LET s    == Current(b)
      conf == IF s \in Scatter THEN Main[s] ELSE s
  IN  /\ bpc[b] = "main" /\ ipc[Main[s]] = "parsed"
      /\ \/ /\ GivenUp(b)
            /\ ires[Main[s]] # "ok" \/ Fails("store", conf)
            /\ ires[Main[s]] # "joined" => count'[b] > 0
         \/ /\ ires[Main[s]] = "ok" /\ exported' = exported \cup {conf}
            /\ \/ /\ s \in Scatter
                  /\ ipc' = [j \in Importers |-> IF j \in Extra[s] THEN "begin" ELSE ipc[j]]
                  /\ Moved(b, "group")
               \/ s \notin Scatter /\ ipc' = ipc /\ Passed(b)

GroupWaitShape(b) ==
  LET s == Current(b)
  IN  /\ bpc[b] = "group" /\ ipc' = ipc
      /\ \A i \in IF s \in Scatter THEN Extra[s] ELSE Readers(s) : ipc[i] = "over"
      /\ \/ GivenUp(b) /\ (kept[b] > 0 \/ count'[b] > 0) /\ JoinIfErrors(b) = "joined"
         \/ GivenUp(b) /\ count'[b] > 0 /\ s \notin Scatter
         \/ /\ JoinIfErrors(b) = "ok" /\ Passed(b)
            /\ exported' = IF s \in Scatter THEN exported ELSE exported \cup {s}

FinishShape(b) ==
  /\ bpc[b] = "sheet" /\ idx[b] > Len(SheetsOf[b]) /\ exported' = exported /\ ipc' = ipc
  /\ \E err \in Outcomes : Ended(b, err)

\* A workbook's own error ends it, one of a sheet gives the sheet up.
LEMMA ReturnShape ==
  ASSUME TypeOK, CollInv, NEW b \in Books, NEW err \in Outcomes, Return(b, err)
  PROVE  Ended(b, err) /\ CollStep /\ BookTypes /\ (err = "plain" => count'[Root] > 0)
  BY ReturnBase DEF Return, Ended

LEMMA FailSheetShape ==
  ASSUME TypeOK, CollInv, NEW b \in Books, NEW err \in Outcomes, FailSheet(b, err), ipc' = ipc
  PROVE  GivenUp(b) /\ CollStep /\ BookTypes /\ (err = "plain" => count'[b] > 0)
  BY FailSheetBase DEF NextSheet, GivenUp, Passed, Ended

LEMMA OpenStep ==
  ASSUME TypeOK, CollInv, NEW b \in Books, Open(b)
  PROVE  BookFrame(b) /\ OpenShape(b)
  <1>1. /\ bpc[b] = "open" /\ UNCHANGED <<input, gen, spec, result, impVars, exported>>
    BY DEF Open
  <1>2. CASE Return(b, "plain")
    <2>1. Ended(b, "plain") /\ CollStep /\ BookTypes /\ count'[Root] > 0
      BY <1>2, ReturnShape DEF Outcomes
    <2>2. QED
      BY <1>1, <2>1 DEF BookFrame, OpenShape, impVars, TypeOK
  <1>3. CASE bpc' = [bpc EXCEPT ![b] = "sheet"] /\ UNCHANGED <<idx, bres, collVars>>
    <2>1. CollStep
      BY <1>3, CollUnchanged
    <2>2. BookTypes
      BY <1>3 DEF BookTypes, TypeOK, BookPCs
    <2>3. QED
      BY <1>1, <1>3, <2>1, <2>2 DEF BookFrame, OpenShape, Moved, impVars, TypeOK
  <1>4. QED
    BY <1>2, <1>3 DEF Open

LEMMA FinishStep ==
  ASSUME TypeOK, CollInv, NEW b \in Books, Finish(b)
  PROVE  BookFrame(b) /\ FinishShape(b)
  <1> DEFINE err == IF Fails("sheet not found", b) THEN "plain" ELSE JoinIfErrors(b)
  <1>1. err \in Outcomes
    BY JoinTypes DEF Outcomes
  <1>2. /\ bpc[b] = "sheet" /\ idx[b] > Len(SheetsOf[b]) /\ Return(b, err)
        /\ UNCHANGED <<input, gen, spec, result, impVars, exported>>
    BY DEF Finish
  <1> HIDE DEF err
  <1>3. Ended(b, err) /\ CollStep /\ BookTypes
    BY <1>1, <1>2, ReturnShape
  <1>4. QED
    BY <1>1, <1>2, <1>3 DEF BookFrame, FinishShape, impVars, TypeOK

LEMMA BeginSheetStep ==
  ASSUME TypeOK, CollInv, NEW b \in Books, BeginSheet(b)
  PROVE  BookFrame(b) /\ BeginSheetShape(b)
  <1> DEFINE s == Current(b)
             alone == s \in Scatter \/ Extra[s] = {}
  <1>1. /\ bpc[b] = "sheet" /\ idx[b] <= Len(SheetsOf[b])
        /\ UNCHANGED <<input, gen, spec, result, row, left, ires, lost>>
    BY DEF BeginSheet
  <1>2. \/ Return(b, "plain") /\ UNCHANGED <<ipc, exported>>
        \/ Fails("importers", s) /\ FailSheet(b, "plain") /\ UNCHANGED ipc
        \/ /\ ipc' = [i \in Importers |->
                        IF i = Main[s] \/ (i \in Extra[s] /\ ~alone) THEN "begin" ELSE ipc[i]]
           /\ bpc' = [bpc EXCEPT ![b] = IF alone THEN "main" ELSE "group"]
           /\ UNCHANGED <<idx, bres, collVars, exported>>
    BY DEF BeginSheet
  <1>3. "plain" \in Outcomes
    BY DEF Outcomes
  <1>4. CASE Return(b, "plain") /\ UNCHANGED <<ipc, exported>>
    <2>1. Ended(b, "plain") /\ CollStep /\ BookTypes /\ count'[Root] > 0
      BY <1>3, <1>4, ReturnShape
    <2>2. QED
      BY <1>1, <1>4, <2>1 DEF BookFrame, BeginSheetShape, TypeOK
  <1>5. CASE Fails("importers", s) /\ FailSheet(b, "plain") /\ UNCHANGED ipc
    <2>1. GivenUp(b) /\ CollStep /\ BookTypes /\ count'[b] > 0
      BY <1>3, <1>5, FailSheetShape
    <2>2. exported' = exported
      BY <2>1 DEF GivenUp
    <2>3. QED
      BY <1>1, <1>5, <2>1, <2>2 DEF BookFrame, BeginSheetShape, TypeOK
  <1>6. CASE /\ ipc' = [i \in Importers |->
                          IF i = Main[s] \/ (i \in Extra[s] /\ ~alone) THEN "begin" ELSE ipc[i]]
             /\ bpc' = [bpc EXCEPT ![b] = IF alone THEN "main" ELSE "group"]
             /\ UNCHANGED <<idx, bres, collVars, exported>>
    <2>1. CollStep
      BY <1>6, CollUnchanged
    <2>2. BookTypes /\ ipc' \in [Importers -> ParsePCs]
      BY <1>6 DEF BookTypes, TypeOK, BookPCs, ParsePCs
    <2>3. BookFrame(b)
      BY <1>1, <1>6, <2>1, <2>2 DEF BookFrame, TypeOK
    <2>4. CASE alone
      <3>1. ipc' = [i \in Importers |-> IF i = Main[s] THEN "begin" ELSE ipc[i]]
        BY <1>6, <2>4
      <3>2. Moved(b, "main")
        BY <1>6, <2>4 DEF Moved
      <3>3. QED
        BY <1>1, <1>6, <2>3, <2>4, <3>1, <3>2 DEF BeginSheetShape
    <2>5. CASE ~alone
      <3>1. ipc' = [i \in Importers |-> IF i \in Readers(s) THEN "begin" ELSE ipc[i]]
        BY <1>6, <2>5 DEF Readers
      <3>2. Moved(b, "group")
        BY <1>6, <2>5 DEF Moved
      <3>3. QED
        BY <1>1, <1>6, <2>3, <2>5, <3>1, <3>2 DEF BeginSheetShape
    <2>6. QED
      BY <2>4, <2>5
  <1>7. QED
    BY <1>2, <1>4, <1>5, <1>6

LEMMA PassedTypes ==
  ASSUME TypeOK, NEW b \in Books, Passed(b) \/ \E to \in BookPCs : Moved(b, to)
  PROVE  BookTypes
  <1>1. CASE Passed(b)
    BY <1>1 DEF Passed, BookTypes, TypeOK, BookPCs
  <1>2. CASE \E to \in BookPCs : Moved(b, to)
    BY <1>2 DEF Moved, BookTypes, TypeOK
  <1>3. QED
    BY <1>1, <1>2

LEMMA MainParsedStep ==
  ASSUME TypeOK, CollInv, NEW b \in Books, MainParsed(b), idx[b] <= Len(SheetsOf[b])
  PROVE  BookFrame(b) /\ MainParsedShape(b)
  <1> DEFINE s    == Current(b)
             i    == Main[s]
             conf == IF s \in Scatter THEN i ELSE s
  <1>1. /\ bpc[b] = "main" /\ ipc[i] = "parsed"
        /\ UNCHANGED <<input, gen, spec, result, row, left, ires, lost>>
    BY DEF MainParsed
  <1>2. \/ ires[i] # "ok" /\ FailSheet(b, ires[i]) /\ UNCHANGED ipc
        \/ Fails("store", conf) /\ FailSheet(b, "plain") /\ UNCHANGED ipc
        \/ /\ ires[i] = "ok" /\ exported' = exported \cup {conf} /\ UNCHANGED collVars
           /\ \/ /\ s \in Scatter
                 /\ ipc' = [j \in Importers |-> IF j \in Extra[s] THEN "begin" ELSE ipc[j]]
                 /\ bpc' = [bpc EXCEPT ![b] = "group"]
                 /\ UNCHANGED <<idx, bres>>
              \/ s \notin Scatter /\ NextSheet(b) /\ UNCHANGED ipc
    BY DEF MainParsed
  <1>3. s \in Sheets /\ i \in Importers
    BY CurrentPlace
  <1>4. ires[i] \in Outcomes /\ "plain" \in Outcomes
    BY <1>3 DEF TypeOK, Outcomes
  <1> HIDE DEF s, i, conf
  <1>5. ASSUME NEW err \in Outcomes, FailSheet(b, err), UNCHANGED ipc
        PROVE  GivenUp(b) /\ BookFrame(b) /\ (err = "plain" => count'[b] > 0)
    <2>1. GivenUp(b) /\ CollStep /\ BookTypes /\ (err = "plain" => count'[b] > 0)
      BY <1>5, FailSheetShape
    <2>2. exported' = exported
      BY <2>1 DEF GivenUp
    <2>3. QED
      BY <1>1, <1>5, <2>1, <2>2 DEF BookFrame, TypeOK
  <1>6. CASE ires[i] # "ok" /\ FailSheet(b, ires[i]) /\ UNCHANGED ipc
    <2>1. GivenUp(b) /\ BookFrame(b) /\ (ires[i] = "plain" => count'[b] > 0)
      BY <1>4, <1>5, <1>6
    <2>2. ires[i] # "joined" => count'[b] > 0
      BY <1>4, <1>6, <2>1 DEF Outcomes
    <2>3. QED
      BY <1>1, <1>6, <2>1, <2>2 DEF MainParsedShape, s, i, conf
  <1>7. CASE Fails("store", conf) /\ FailSheet(b, "plain") /\ UNCHANGED ipc
    <2>1. GivenUp(b) /\ BookFrame(b) /\ count'[b] > 0
      BY <1>4, <1>5, <1>7
    <2>2. QED
      BY <1>1, <1>7, <2>1 DEF MainParsedShape, s, i, conf
  <1>8. CASE /\ ires[i] = "ok" /\ exported' = exported \cup {conf} /\ UNCHANGED collVars
             /\ \/ /\ s \in Scatter
                   /\ ipc' = [j \in Importers |-> IF j \in Extra[s] THEN "begin" ELSE ipc[j]]
                   /\ bpc' = [bpc EXCEPT ![b] = "group"]
                   /\ UNCHANGED <<idx, bres>>
                \/ s \notin Scatter /\ NextSheet(b) /\ UNCHANGED ipc
    <2>1. CollStep
      BY <1>8, CollUnchanged
    <2>2. exported' \subseteq Sheets \cup Importers
      BY <1>3, <1>8 DEF TypeOK, conf
    <2>3. ipc' \in [Importers -> ParsePCs]
      BY <1>8 DEF TypeOK, ParsePCs
    <2>4. \/ s \in Scatter /\ Moved(b, "group")
          \/ s \notin Scatter /\ Passed(b)
      BY <1>8 DEF Moved, Passed, NextSheet
    <2>5. BookTypes
      BY <2>4, PassedTypes DEF BookPCs
    <2>6. BookFrame(b)
      BY <1>1, <2>1, <2>2, <2>3, <2>5 DEF BookFrame
    <2>7. MainParsedShape(b)
      BY <1>1, <1>8, <2>4 DEF MainParsedShape, s, i, conf
    <2>8. QED
      BY <2>6, <2>7
  <1>9. QED
    BY <1>2, <1>6, <1>7, <1>8

LEMMA GroupWaitStep ==
  ASSUME TypeOK, CollInv, NEW b \in Books, GroupWait(b), idx[b] <= Len(SheetsOf[b])
  PROVE  BookFrame(b) /\ GroupWaitShape(b)
  <1> DEFINE s == Current(b)
  <1>1. /\ bpc[b] = "group" /\ \A i \in IF s \in Scatter THEN Extra[s] ELSE Readers(s) : ipc[i] = "over"
        /\ UNCHANGED <<input, gen, spec, result, impVars>>
    BY DEF GroupWait
  <1>2. \/ JoinIfErrors(b) = "joined" /\ FailSheet(b, "joined")
        \/ s \notin Scatter /\ FailSheet(b, "plain")
        \/ /\ JoinIfErrors(b) = "ok" /\ NextSheet(b) /\ UNCHANGED collVars
           /\ exported' = IF s \in Scatter THEN exported ELSE exported \cup {s}
    BY DEF GroupWait
  <1>3. s \in Sheets
    BY CurrentPlace
  <1>4. "plain" \in Outcomes /\ "joined" \in Outcomes
    BY DEF Outcomes
  <1>5. ipc' = ipc /\ UNCHANGED <<row, left, ires, lost>>
    BY <1>1 DEF impVars
  <1> HIDE DEF s
  <1>6. ASSUME NEW err \in Outcomes, FailSheet(b, err)
        PROVE  GivenUp(b) /\ BookFrame(b) /\ (err = "plain" => count'[b] > 0)
    <2>1. GivenUp(b) /\ CollStep /\ BookTypes /\ (err = "plain" => count'[b] > 0)
      BY <1>5, <1>6, FailSheetShape
    <2>2. exported' = exported
      BY <2>1 DEF GivenUp
    <2>3. QED
      BY <1>1, <1>5, <2>1, <2>2 DEF BookFrame, TypeOK
  <1>7. CASE JoinIfErrors(b) = "joined" /\ FailSheet(b, "joined")
    <2>1. kept[b] > 0
      BY <1>7 DEF JoinIfErrors, Join
    <2>2. QED
      BY <1>1, <1>4, <1>5, <1>6, <1>7, <2>1 DEF GroupWaitShape, s
  <1>8. CASE s \notin Scatter /\ FailSheet(b, "plain")
    BY <1>1, <1>4, <1>5, <1>6, <1>8 DEF GroupWaitShape, s
  <1>9. CASE /\ JoinIfErrors(b) = "ok" /\ NextSheet(b) /\ UNCHANGED collVars
             /\ exported' = IF s \in Scatter THEN exported ELSE exported \cup {s}
    <2>1. CollStep
      BY <1>9, CollUnchanged
    <2>2. Passed(b)
      BY <1>9 DEF NextSheet, Passed
    <2>3. BookTypes
      BY <2>2, PassedTypes
    <2>4. exported' \subseteq Sheets \cup Importers
      BY <1>3, <1>9 DEF TypeOK
    <2>5. BookFrame(b)
      BY <1>1, <1>5, <2>1, <2>3, <2>4 DEF BookFrame, TypeOK
    <2>6. GroupWaitShape(b)
      BY <1>1, <1>5, <1>9, <2>2 DEF GroupWaitShape, s
    <2>7. QED
      BY <2>5, <2>6
  <1>10. QED
    BY <1>2, <1>7, <1>8, <1>9

BookShape(b) ==
  BookFrame(b) /\ (\/ OpenShape(b) \/ BeginSheetShape(b) \/ MainParsedShape(b)
                   \/ GroupWaitShape(b) \/ FinishShape(b))

LEMMA BookStepShape ==
  ASSUME TypeOK, CollInv, StageInv, NEW b \in Books, BookStep(b)
  PROVE  BookShape(b)
  <1>1. bpc[b] \in {"main", "group"} => idx[b] <= Len(SheetsOf[b])
    BY DEF StageInv, StageOf
  <1>2. MainParsed(b) \/ GroupWait(b) => idx[b] <= Len(SheetsOf[b])
    BY <1>1 DEF MainParsed, GroupWait
  <1>3. QED
    BY <1>2, OpenStep, BeginSheetStep, MainParsedStep, GroupWaitStep, FinishStep DEF BookStep, BookShape

\* Launch, and the end of the generator.
LaunchShape ==
  /\ gen = "launch" /\ UNCHANGED <<input, idx, bres, impVars, collVars, exported>>
  /\ \/ /\ spec <= Len(Specs) /\ spec' = spec + 1 /\ gen' = gen /\ result' = result
        /\ bpc' = [b \in Books |-> IF b \in Specs[spec] THEN "open" ELSE bpc[b]]
     \/ gen' = "done" /\ result' = "plain" /\ spec' = spec /\ bpc' = bpc
     \/ gen' = "wait" /\ UNCHANGED <<spec, result, bpc>>

WaitShape ==
  /\ gen = "wait" /\ gen' = "done" /\ \A b \in Books : bpc[b] \in {"off", "over"}
  /\ result' = JoinIfErrors(Root)
  /\ UNCHANGED <<input, spec, bookVars, impVars, collVars, exported>>

\* Every step has one of these shapes.
LEMMA StepShapes ==
  ASSUME TypeOK, CollInv, StageInv, [Next]_vars
  PROVE  \/ LaunchShape \/ WaitShape
         \/ \E b \in Books : BookShape(b)
         \/ \E i \in Importers : ParseShape(i) /\ ParseAlone(i)
         \/ \E i \in Importers : MemberShape(i)
         \/ UNCHANGED vars
  <1>1. CASE Launch
    BY <1>1 DEF Launch, LaunchShape
  <1>2. CASE WaitAll
    BY <1>2 DEF WaitAll, WaitShape
  <1>3. ASSUME NEW b \in Books, BookStep(b) PROVE BookShape(b)
    BY <1>3, BookStepShape
  <1>4. ASSUME NEW i \in Importers, ParseStep(i)
        PROVE  (ParseShape(i) /\ ParseAlone(i)) \/ MemberShape(i)
    BY <1>4, ParseAloneShape, MemberDoneShape DEF ParseStep, ParseAlone
  <1>5. QED
    BY <1>1, <1>2, <1>3, <1>4 DEF Next

LEMMA BaseStep ==
  ASSUME TypeOK, CollInv, StageInv, [Next]_vars
  PROVE  TypeOK' /\ CollStep
  <1>1. CASE LaunchShape
    <2>1. CollStep
      BY <1>1, CollUnchanged DEF LaunchShape
    <2>2. bpc' \in [Books -> BookPCs]
      BY <1>1 DEF LaunchShape, TypeOK, BookPCs
    <2>3. QED
      BY <1>1, <2>1, <2>2 DEF LaunchShape, TypeOK, impVars, collVars, Outcomes
  <1>2. CASE WaitShape
    <2>1. CollStep
      BY <1>2, CollUnchanged DEF WaitShape
    <2>2. result' \in Outcomes
      BY <1>2, JoinTypes DEF WaitShape, Outcomes
    <2>3. QED
      BY <1>2, <2>1, <2>2 DEF WaitShape, TypeOK, bookVars, impVars, collVars
  <1>3. ASSUME NEW b \in Books, BookShape(b) PROVE TypeOK' /\ CollStep
    <2>1. BookFrame(b)
      BY <1>3 DEF BookShape
    <2>2. QED
      BY <2>1 DEF BookFrame, BookTypes, CollStep, TypeOK
  <1>4. ASSUME NEW i \in Importers, ParseShape(i) PROVE TypeOK' /\ CollStep
    BY <1>4 DEF ParseShape, ParseTypes, CollStep, TypeOK, bookVars
  <1>5. ASSUME NEW i \in Importers, MemberShape(i) PROVE TypeOK' /\ CollStep
    BY <1>5 DEF MemberShape, ParseTypes, CollStep, TypeOK, bookVars
  <1>6. CASE UNCHANGED vars
    <2>1. CollStep
      BY <1>6, CollUnchanged DEF vars, collVars
    <2>2. QED
      BY <1>6, <2>1 DEF vars, TypeOK
  <1>7. QED
    BY <1>1, <1>2, <1>3, <1>4, <1>5, <1>6, StepShapes
-----------------------------------------------------------------------------
(* The invariant holds initially and every step keeps each of its parts.    *)

LEMMA InitIInv == Init => IInv
  <1> SUFFICES ASSUME Init PROVE IInv
    OBVIOUS
  <1>1. \A n \in Nodes : count[n] = 0 /\ kept[n] = 0
    BY DEF Init
  <1>2. TypeOK
    BY DEF Init, TypeOK, Outcomes, BookPCs, ParsePCs
  <1>3. CollInv
    BY <1>1, NodeFacts, ImporterHasSheet DEF CollInv
  <1>4. LaunchInv /\ ParseInv /\ ExportInv /\ DoneInv
    <2>1. LaunchInv
      BY InputFacts, <1>2 DEF Init, LaunchInv
    <2>2. ParseInv
      BY DEF Init, ParseInv, ParseOf
    <2>3. QED
      BY <2>1, <2>2 DEF Init, ExportInv, DoneInv
  <1>5. StageInv
    <2>1. ASSUME NEW b \in Books, NEW k \in DOMAIN SheetsOf[b], NEW i \in Readers(SheetsOf[b][k])
          PROVE  ipc[i] = "off"
      BY SheetPlace, ImporterPlace DEF Init
    <2>2. QED
      BY <2>1 DEF Init, StageInv, StageOf
  <1>6. ASSUME NEW b \in Books, NEW k \in DOMAIN SheetsOf[b] PROVE ~(k < idx[b])
    BY StructureAssumption DEF Init
  <1>7. MissInv
    BY <1>6 DEF Init, MissInv, MissOf
  <1>8. CleanInv
    BY <1>1, <1>6, NodeFacts DEF Init, CleanInv, CleanParse, CleanOf
  <1>9. QED
    BY <1>2, <1>3, <1>4, <1>5, <1>7, <1>8 DEF IInv, BaseInv

\* The importers of a place.
LEMMA ReaderPlace ==
  ASSUME NEW b \in Books, NEW k \in DOMAIN SheetsOf[b], NEW i \in Readers(SheetsOf[b][k])
  PROVE  i \in Importers /\ SheetOf(i) = SheetsOf[b][k] /\ BookFor(i) = b
  BY SheetPlace, ImporterPlace DEF BookFor

LEMMA PlaceFacts ==
  ASSUME NEW b \in Books
  PROVE  /\ DOMAIN SheetsOf[b] = 1..Len(SheetsOf[b]) /\ Len(SheetsOf[b]) \in Nat
         /\ \A k, l \in DOMAIN SheetsOf[b] : SheetsOf[b][k] = SheetsOf[b][l] => k = l
  BY StructureAssumption

LEMMA LaunchStep ==
  ASSUME IInv, [Next]_vars PROVE LaunchInv'
  <1>1. TypeOK /\ CollInv /\ StageInv /\ LaunchInv
    BY DEF IInv, BaseInv
  <1>2. CASE LaunchShape
    <2>1. SUFFICES ASSUME gen' = "launch", NEW l \in DOMAIN Specs, l >= spec', NEW b \in Specs[l]
                   PROVE  bpc'[b] = "off"
      BY <1>2 DEF LaunchShape, LaunchInv, Specs
    <2>2. /\ spec <= Len(Specs) /\ spec' = spec + 1 /\ gen = "launch"
          /\ bpc' = [a \in Books |-> IF a \in Specs[spec] THEN "open" ELSE bpc[a]]
      BY <1>2, <2>1 DEF LaunchShape
    <2>3. spec \in DOMAIN Specs /\ spec # l /\ l >= spec /\ b \in Books
      BY <1>1, <2>1, <2>2, InputFacts DEF TypeOK
    <2>4. b \notin Specs[spec]
      BY <1>1, <2>3, InputFacts
    <2>5. QED
      BY <1>1, <2>2, <2>3, <2>4 DEF LaunchInv
  <1>3. CASE WaitShape
    BY <1>3 DEF WaitShape, LaunchInv
  <1>4. ASSUME NEW b \in Books, BookShape(b) PROVE LaunchInv'
    <2>1. UNCHANGED <<input, gen, spec>> /\ bpc[b] # "off" /\ \A c \in Books \ {b} : bpc'[c] = bpc[c]
      <3>1. UNCHANGED <<input, gen, spec>>
        BY <1>4 DEF BookShape, BookFrame
      <3>2. bpc[b] # "off"
        BY <1>4 DEF BookShape, OpenShape, BeginSheetShape, MainParsedShape, GroupWaitShape, FinishShape
      <3>3. \/ Passed(b) \/ \E err \in Outcomes : Ended(b, err)
            \/ \E to \in BookPCs : Moved(b, to)
        BY <1>4 DEF BookShape, OpenShape, BeginSheetShape, MainParsedShape, GroupWaitShape,
                    FinishShape, GivenUp, BookPCs, Outcomes
      <3>4. \A c \in Books \ {b} : bpc'[c] = bpc[c]
        BY <1>1, <3>3 DEF Passed, Ended, Moved, TypeOK
      <3>5. QED
        BY <3>1, <3>2, <3>4
    <2>2. QED
      BY <1>1, <2>1, InputFacts DEF LaunchInv, Specs
  <1>5. CASE \/ \E i \in Importers : ParseShape(i) \/ MemberShape(i)
             \/ UNCHANGED vars
    BY <1>1, <1>5 DEF ParseShape, MemberShape, vars, LaunchInv, Specs, bookVars
  <1>6. QED
    BY <1>1, <1>2, <1>3, <1>4, <1>5, StepShapes

\* What a workbook's step leaves alone: the other workbooks and their importers.
LEMMA BookStepFrame ==
  ASSUME TypeOK, NEW b \in Books, BookShape(b), idx[b] <= Len(SheetsOf[b]) \/ ipc' = ipc
  PROVE  /\ UNCHANGED <<input, gen, spec, result, row, left, ires, lost>>
         /\ bpc[b] \notin {"off", "over"}
         /\ \A c \in Books \ {b} : bpc'[c] = bpc[c] /\ idx'[c] = idx[c] /\ bres'[c] = bres[c]
         /\ \A i \in Importers : BookFor(i) # b => ipc'[i] = ipc[i]
         /\ \A i \in Importers : ipc'[i] # ipc[i] => ipc'[i] = "begin"
  <1>1. UNCHANGED <<input, gen, spec, result, row, left, ires, lost>>
    BY DEF BookShape, BookFrame
  <1>2. bpc[b] \notin {"off", "over"}
    BY DEF BookShape, OpenShape, BeginSheetShape, MainParsedShape, GroupWaitShape, FinishShape
  <1>3. \/ Passed(b) \/ \E err \in Outcomes : Ended(b, err)
        \/ \E to \in BookPCs : Moved(b, to)
    BY DEF BookShape, OpenShape, BeginSheetShape, MainParsedShape, GroupWaitShape,
           FinishShape, GivenUp, BookPCs, Outcomes
  <1>4. \A c \in Books \ {b} : bpc'[c] = bpc[c] /\ idx'[c] = idx[c] /\ bres'[c] = bres[c]
    BY <1>3 DEF Passed, Ended, Moved, TypeOK
  <1>5. \/ ipc' = ipc
        \/ \E I \in SUBSET Readers(Current(b)) :
             ipc' = [i \in Importers |-> IF i \in I THEN "begin" ELSE ipc[i]]
    <2>1. CASE OpenShape(b) \/ GroupWaitShape(b) \/ FinishShape(b)
      BY <2>1 DEF OpenShape, GroupWaitShape, FinishShape
    <2>2. CASE BeginSheetShape(b)
      <3>1. CASE ipc' = [i \in Importers |-> IF i = Main[Current(b)] THEN "begin" ELSE ipc[i]]
        <4>1. /\ {Main[Current(b)]} \in SUBSET Readers(Current(b))
              /\ ipc' = [i \in Importers |-> IF i \in {Main[Current(b)]} THEN "begin" ELSE ipc[i]]
          BY <3>1 DEF Readers
        <4>2. QED
          BY <4>1
      <3>2. QED
        BY <2>2, <3>1 DEF BeginSheetShape, GivenUp
    <2>3. CASE MainParsedShape(b)
      BY <2>3 DEF MainParsedShape, GivenUp, Readers
    <2>4. QED
      BY <2>1, <2>2, <2>3 DEF BookShape
  <1>6. CASE ipc' = ipc
    BY <1>1, <1>2, <1>4, <1>6
  <1>7. ASSUME NEW I \in SUBSET Readers(Current(b)), idx[b] <= Len(SheetsOf[b]),
               ipc' = [i \in Importers |-> IF i \in I THEN "begin" ELSE ipc[i]]
        PROVE  /\ \A i \in Importers : BookFor(i) # b => ipc'[i] = ipc[i]
               /\ \A i \in Importers : ipc'[i] # ipc[i] => ipc'[i] = "begin"
    BY <1>7, CurrentPlace
  <1>8. QED
    BY <1>1, <1>2, <1>4, <1>5, <1>6, <1>7

\* A workbook is past its last sheet only when it starts no importer.
LEMMA BookStepPlace ==
  ASSUME TypeOK, StageInv, NEW b \in Books, BookShape(b)
  PROVE  idx[b] <= Len(SheetsOf[b]) \/ ipc' = ipc
  <1>1. bpc[b] \in {"main", "group"} => idx[b] <= Len(SheetsOf[b])
    BY DEF StageInv, StageOf
  <1>2. QED
    BY <1>1 DEF BookShape, OpenShape, BeginSheetShape, MainParsedShape, GroupWaitShape, FinishShape

LEMMA StageStays ==
  ASSUME TypeOK, NEW c \in Books, StageOf(c), bpc'[c] = bpc[c], idx'[c] = idx[c], input' = input,
         \A i \in Importers : BookFor(i) = c => ipc'[i] = ipc[i]
  PROVE  StageOf(c)'
  <1>1. \A k \in DOMAIN SheetsOf[c] : \A i \in Readers(SheetsOf[c][k]) : ipc'[i] = ipc[i]
    BY ReaderPlace
  <1>2. Current(c)' = Current(c) /\ Scatter' = Scatter
    BY DEF Current, Scatter
  <1>3. bpc[c] = "group" => ipc'[Main[Current(c)]] = ipc[Main[Current(c)]]
    BY <1>1, CurrentPlace DEF StageOf, Current
  <1>4. QED
    BY <1>1, <1>2, <1>3 DEF StageOf

\* The parts of StageOf after a step.
PlaceAfter(b, k, i) ==
  /\ idx'[b] < k => ipc'[i] = "off"
  /\ idx'[b] = k /\ bpc'[b] \in {"off", "open", "sheet"} => ipc'[i] = "off"
  /\ idx'[b] = k /\ bpc'[b] = "main" /\ i # Main[SheetsOf[b][k]] => ipc'[i] = "off"
  /\ ipc'[i] \in {"begin", "rows", "fields"} => idx'[b] = k /\ bpc'[b] \in {"main", "group"}

LEMMA StageMade ==
  ASSUME NEW b \in Books,
         bpc'[b] \in {"main", "group"} => idx'[b] <= Len(SheetsOf[b]),
         bpc'[b] = "main" => Current(b)' \in Scatter' \/ Extra[Current(b)'] = {},
         bpc'[b] = "group" => Current(b)' \in Scatter' \/ Extra[Current(b)'] # {},
         bpc'[b] = "group" /\ Current(b)' \in Scatter' => ipc'[Main[Current(b)']] = "parsed",
         \A k \in DOMAIN SheetsOf[b] : \A i \in Readers(SheetsOf[b][k]) : PlaceAfter(b, k, i)
  PROVE  StageOf(b)'
  BY DEF StageOf, PlaceAfter

LEMMA StageStep ==
  ASSUME IInv, [Next]_vars PROVE StageInv'
  <1>1. TypeOK /\ CollInv /\ StageInv /\ LaunchInv /\ TypeOK'
    BY BaseStep DEF IInv, BaseInv
  <1>2. CASE LaunchShape
    <2>1. CASE /\ spec <= Len(Specs)
               /\ bpc' = [b \in Books |-> IF b \in Specs[spec] THEN "open" ELSE bpc[b]]
      <3>1. ASSUME NEW c \in Books, c \in Specs[spec] PROVE StageOf(c)'
        <4>1. spec \in DOMAIN Specs /\ spec >= spec
          BY <1>1, <2>1, InputFacts DEF TypeOK
        <4>2. bpc[c] = "off"
          BY <1>1, <1>2, <3>1, <4>1 DEF LaunchInv, LaunchShape
        <4>3. bpc'[c] = "open" /\ idx' = idx /\ ipc' = ipc /\ input' = input
          BY <1>2, <2>1, <3>1 DEF LaunchShape, impVars
        <4>4. QED
          BY <1>1, <4>2, <4>3 DEF StageInv, StageOf
      <3>2. ASSUME NEW c \in Books, c \notin Specs[spec] PROVE StageOf(c)'
        BY <1>1, <1>2, <2>1, <3>2, StageStays DEF LaunchShape, impVars, StageInv
      <3>3. QED
        BY <3>1, <3>2 DEF StageInv
    <2>2. CASE bpc' = bpc
      BY <1>1, <1>2, <2>2, StageStays DEF LaunchShape, impVars, StageInv
    <2>3. QED
      BY <1>2, <2>1, <2>2 DEF LaunchShape
  <1>3. CASE WaitShape \/ UNCHANGED vars
    BY <1>1, <1>3, StageStays DEF WaitShape, bookVars, impVars, vars, StageInv
  <1>4. ASSUME NEW b \in Books, BookShape(b) PROVE StageInv'
    <2>1. StageOf(b) /\ input' = input /\ Scatter' = Scatter
      BY <1>1, <1>4 DEF StageInv, BookShape, BookFrame, Scatter
    <2>2. ASSUME NEW c \in Books \ {b} PROVE StageOf(c)'
      <3>1. \A i \in Importers : BookFor(i) = c => ipc'[i] = ipc[i]
        BY <1>1, <1>4, BookStepFrame, BookStepPlace
      <3>2. QED
        BY <1>1, <1>4, <2>1, <3>1, BookStepFrame, BookStepPlace, StageStays DEF StageInv
    <2>. SUFFICES StageOf(b)'
      BY <2>2 DEF StageInv
    <2>3. CASE Passed(b) /\ ipc' = ipc /\ bpc[b] \in {"sheet", "main", "group"}
               /\ (bpc[b] = "sheet" => idx[b] <= Len(SheetsOf[b]))
               /\ (bpc[b] = "main" => ipc[Main[Current(b)]] = "parsed")
               /\ (bpc[b] = "group" /\ Current(b) \notin Scatter =>
                     \A i \in Readers(Current(b)) : ipc[i] = "over")
               /\ (bpc[b] = "group" /\ Current(b) \in Scatter =>
                     \A i \in Extra[Current(b)] : ipc[i] = "over")
      <3>1. bpc'[b] = "sheet" /\ idx'[b] = idx[b] + 1
        BY <1>1, <2>3 DEF Passed, TypeOK
      <3>2. ASSUME NEW k \in DOMAIN SheetsOf[b], NEW i \in Readers(SheetsOf[b][k])
            PROVE  PlaceAfter(b, k, i)
        <4>1. k \in Nat /\ idx[b] \in Nat
          BY <1>1, PlaceFacts DEF TypeOK
        <4>2. idx[b] < k => ipc[i] = "off"
          BY <2>1 DEF StageOf
        <4>3. ASSUME ipc[i] \in {"begin", "rows", "fields"} PROVE FALSE
          <5>1. idx[b] = k /\ bpc[b] \in {"main", "group"}
            BY <2>1, <4>3 DEF StageOf
          <5>2. SheetsOf[b][k] = Current(b)
            BY <5>1 DEF Current
          <5>3. CASE bpc[b] = "main"
            BY <2>1, <2>3, <4>3, <5>1, <5>2, <5>3 DEF StageOf
          <5>4. CASE bpc[b] = "group" /\ Current(b) \notin Scatter
            BY <2>3, <4>3, <5>2, <5>4
          <5>5. CASE bpc[b] = "group" /\ Current(b) \in Scatter
            BY <2>1, <2>3, <4>3, <5>2, <5>5 DEF StageOf, Readers
          <5>6. QED
            BY <5>1, <5>3, <5>4, <5>5
        <4>4. QED
          BY <2>3, <3>1, <4>1, <4>2, <4>3 DEF PlaceAfter
      <3>3. QED
        BY <3>1, <3>2, StageMade
    <2>4. CASE /\ \E err \in Outcomes : Ended(b, err)
               /\ ipc' = ipc /\ bpc[b] \in {"open", "sheet", "main", "group"}
               /\ (bpc[b] = "main" => ipc[Main[Current(b)]] = "parsed")
               /\ (bpc[b] = "group" /\ Current(b) \notin Scatter =>
                     \A i \in Readers(Current(b)) : ipc[i] = "over")
               /\ (bpc[b] = "group" /\ Current(b) \in Scatter =>
                     \A i \in Extra[Current(b)] : ipc[i] = "over")
      <3>1. bpc'[b] = "over" /\ idx'[b] = idx[b]
        BY <1>1, <2>4 DEF Ended, TypeOK
      <3>2. ASSUME NEW k \in DOMAIN SheetsOf[b], NEW i \in Readers(SheetsOf[b][k])
            PROVE  PlaceAfter(b, k, i)
        <4>1. ASSUME ipc[i] \in {"begin", "rows", "fields"} PROVE FALSE
          <5>1. idx[b] = k /\ bpc[b] \in {"main", "group"}
            BY <2>1, <4>1 DEF StageOf
          <5>2. SheetsOf[b][k] = Current(b)
            BY <5>1 DEF Current
          <5>3. CASE bpc[b] = "main"
            BY <2>1, <2>4, <4>1, <5>1, <5>2, <5>3 DEF StageOf
          <5>4. CASE bpc[b] = "group" /\ Current(b) \notin Scatter
            BY <2>4, <4>1, <5>2, <5>4
          <5>5. CASE bpc[b] = "group" /\ Current(b) \in Scatter
            BY <2>1, <2>4, <4>1, <5>2, <5>5 DEF StageOf, Readers
          <5>6. QED
            BY <5>1, <5>3, <5>4, <5>5
        <4>2. idx[b] < k => ipc[i] = "off"
          BY <2>1 DEF StageOf
        <4>3. QED
          BY <2>4, <3>1, <4>1, <4>2 DEF PlaceAfter
      <3>3. QED
        BY <3>1, <3>2, StageMade
    <2>5. CASE OpenShape(b)
      <3>1. CASE Moved(b, "sheet")
        <4>1. bpc'[b] = "sheet" /\ idx' = idx /\ ipc' = ipc /\ bpc[b] = "open"
          BY <1>1, <2>5, <3>1 DEF OpenShape, Moved, TypeOK
        <4>2. ASSUME NEW k \in DOMAIN SheetsOf[b], NEW i \in Readers(SheetsOf[b][k])
              PROVE  PlaceAfter(b, k, i)
          BY <2>1, <4>1 DEF StageOf, PlaceAfter
        <4>3. QED
          BY <4>1, <4>2, StageMade
      <3>2. QED
        BY <2>4, <2>5, <3>1 DEF OpenShape, Outcomes
    <2>6. CASE BeginSheetShape(b)
      <3>1. CASE GivenUp(b)
        BY <2>3, <2>4, <2>6, <3>1 DEF GivenUp, BeginSheetShape, Outcomes
      <3>2. CASE ipc' = ipc /\ Ended(b, "plain")
        BY <2>4, <2>6, <3>2 DEF BeginSheetShape, Outcomes
      <3>3. ASSUME NEW to \in {"main", "group"}, Moved(b, to), NEW I \in SUBSET Importers,
                   ipc' = [i \in Importers |-> IF i \in I THEN "begin" ELSE ipc[i]],
                   \/ to = "main" /\ I = {Main[Current(b)]} /\ (Current(b) \in Scatter \/ Extra[Current(b)] = {})
                   \/ to = "group" /\ I = Readers(Current(b)) /\ Current(b) \notin Scatter /\ Extra[Current(b)] # {}
            PROVE  StageOf(b)'
        <4>1. bpc'[b] = to /\ idx'[b] = idx[b] /\ Current(b)' = Current(b)
          BY <1>1, <3>3 DEF Moved, TypeOK, Current
        <4>2. /\ idx[b] \in DOMAIN SheetsOf[b] /\ idx[b] <= Len(SheetsOf[b])
              /\ Main[Current(b)] \in Readers(Current(b))
              /\ I \subseteq Readers(Current(b))
          BY <1>1, <2>6, <3>3, CurrentPlace DEF BeginSheetShape
        <4>3. ASSUME NEW k \in DOMAIN SheetsOf[b], NEW i \in Readers(SheetsOf[b][k])
              PROVE  PlaceAfter(b, k, i)
          <5>1. /\ idx[b] < k => ipc[i] = "off"
                /\ idx[b] = k => ipc[i] = "off"
                /\ ipc[i] \notin {"begin", "rows", "fields"}
            BY <2>1, <2>6 DEF StageOf, BeginSheetShape
          <5>2. i \in Importers /\ SheetOf(i) = SheetsOf[b][k]
            BY ReaderPlace
          <5>3. i \in I => idx[b] = k
            BY <4>2, <5>2, ReaderPlace, PlaceFacts DEF Current
          <5>4. ipc'[i] = IF i \in I THEN "begin" ELSE ipc[i]
            BY <3>3, <5>2
          <5>5. k \in Nat /\ idx[b] \in Nat
            BY <1>1, PlaceFacts DEF TypeOK
          <5>6. CASE i \in I
            BY <3>3, <4>1, <5>3, <5>4, <5>5, <5>6 DEF Current, PlaceAfter
          <5>7. CASE i \notin I
            BY <3>3, <4>1, <5>1, <5>4, <5>7 DEF PlaceAfter
          <5>8. QED
            BY <5>6, <5>7
        <4>4. to = "group" => Current(b)' \notin Scatter'
          BY <2>1, <3>3, <4>1
        <4>5. QED
          BY <2>1, <3>3, <4>1, <4>2, <4>3, <4>4, StageMade
      <3>4. CASE /\ Current(b) \in Scatter \/ Extra[Current(b)] = {}
                 /\ ipc' = [i \in Importers |-> IF i = Main[Current(b)] THEN "begin" ELSE ipc[i]]
                 /\ Moved(b, "main")
        <4>1. {Main[Current(b)]} \in SUBSET Importers
          BY <1>1, <2>6, CurrentPlace DEF BeginSheetShape
        <4>2. ipc' = [i \in Importers |-> IF i \in {Main[Current(b)]} THEN "begin" ELSE ipc[i]]
          BY <3>4
        <4>3. QED
          BY <3>3, <3>4, <4>1, <4>2
      <3>5. CASE /\ ~(Current(b) \in Scatter \/ Extra[Current(b)] = {})
                 /\ ipc' = [i \in Importers |-> IF i \in Readers(Current(b)) THEN "begin" ELSE ipc[i]]
                 /\ Moved(b, "group")
        <4>1. Readers(Current(b)) \in SUBSET Importers
          BY <1>1, <2>6, CurrentPlace DEF BeginSheetShape, Readers
        <4>2. QED
          BY <3>3, <3>5, <4>1
      <3>6. QED
        BY <2>6, <3>1, <3>2, <3>4, <3>5 DEF BeginSheetShape
    <2>7. CASE MainParsedShape(b)
      <3>1. CASE GivenUp(b) \/ (ipc' = ipc /\ Passed(b))
        BY <2>3, <2>4, <2>7, <3>1 DEF GivenUp, MainParsedShape, Outcomes
      <3>2. CASE /\ Current(b) \in Scatter
                 /\ ipc' = [j \in Importers |-> IF j \in Extra[Current(b)] THEN "begin" ELSE ipc[j]]
                 /\ Moved(b, "group")
        <4>1. bpc'[b] = "group" /\ idx'[b] = idx[b] /\ Current(b)' = Current(b)
          BY <1>1, <3>2 DEF Moved, TypeOK, Current
        <4>2. idx[b] <= Len(SheetsOf[b]) /\ bpc[b] = "main" /\ ipc[Main[Current(b)]] = "parsed"
          BY <2>1, <2>7 DEF StageOf, MainParsedShape
        <4>3. /\ idx[b] \in DOMAIN SheetsOf[b] /\ Main[Current(b)] \in Importers
              /\ Main[Current(b)] \notin Extra[Current(b)]
              /\ Extra[Current(b)] \subseteq Readers(Current(b))
          BY <1>1, <4>2, CurrentPlace
        <4>4. ipc'[Main[Current(b)]] = "parsed"
          BY <3>2, <4>2, <4>3
        <4>5. ASSUME NEW k \in DOMAIN SheetsOf[b], NEW i \in Readers(SheetsOf[b][k])
              PROVE  PlaceAfter(b, k, i)
          <5>1. /\ idx[b] < k => ipc[i] = "off"
                /\ ipc[i] \in {"begin", "rows", "fields"} => idx[b] = k
            BY <2>1 DEF StageOf
          <5>2. i \in Importers /\ SheetOf(i) = SheetsOf[b][k]
            BY ReaderPlace
          <5>3. i \in Extra[Current(b)] => idx[b] = k
            BY <4>3, <5>2, ReaderPlace, PlaceFacts DEF Current
          <5>4. ipc'[i] = IF i \in Extra[Current(b)] THEN "begin" ELSE ipc[i]
            BY <3>2, <5>2
          <5>5. k \in Nat /\ idx[b] \in Nat
            BY <1>1, PlaceFacts DEF TypeOK
          <5>6. QED
            BY <4>1, <5>1, <5>3, <5>4, <5>5 DEF PlaceAfter
        <4>6. QED
          BY <2>1, <3>2, <4>1, <4>2, <4>4, <4>5, StageMade
      <3>3. QED
        BY <2>7, <3>1, <3>2 DEF MainParsedShape
    <2>8. CASE GroupWaitShape(b)
      BY <2>3, <2>4, <2>8 DEF GivenUp, GroupWaitShape, Outcomes
    <2>9. CASE FinishShape(b)
      BY <2>4, <2>9 DEF FinishShape
    <2>10. QED
      BY <1>4, <2>5, <2>6, <2>7, <2>8, <2>9 DEF BookShape
  <1>5. ASSUME NEW i \in Importers, ParseShape(i) PROVE StageInv'
    <2>1. ASSUME NEW c \in Books PROVE StageOf(c)'
      <3>1. /\ bpc' = bpc /\ idx' = idx /\ Current(c)' = Current(c) /\ Scatter' = Scatter
            /\ ipc[i] \in {"begin", "rows", "fields"} /\ ipc'[i] \in {"rows", "fields", "parsed"}
            /\ \A j \in Importers : j # i => ipc'[j] = ipc[j]
        BY <1>5 DEF ParseShape, bookVars, Current, Scatter
      <3>2. StageOf(c)
        BY <1>1 DEF StageInv
      <3>3. bpc[c] = "group" => idx[c] <= Len(SheetsOf[c])
        BY <3>2 DEF StageOf
      <3>4. bpc[c] = "group" => Main[Current(c)] \in Importers
        BY <1>1, <3>3, CurrentPlace
      <3>5. bpc[c] = "group" /\ Current(c) \in Scatter => ipc'[Main[Current(c)]] = "parsed"
        BY <3>1, <3>2, <3>4 DEF StageOf
      <3>6. ASSUME NEW k \in DOMAIN SheetsOf[c], NEW j \in Readers(SheetsOf[c][k])
            PROVE  /\ idx[c] < k => ipc'[j] = "off"
                   /\ idx[c] = k /\ bpc[c] \in {"off", "open", "sheet"} => ipc'[j] = "off"
                   /\ idx[c] = k /\ bpc[c] = "main" /\ j # Main[SheetsOf[c][k]] => ipc'[j] = "off"
                   /\ ipc'[j] \in {"begin", "rows", "fields"} =>
                        idx[c] = k /\ bpc[c] \in {"main", "group"}
        <4>1. j \in Importers
          BY ReaderPlace
        <4>2. QED
          BY <3>1, <3>2, <4>1 DEF StageOf
      <3>7. QED
        BY <3>1, <3>2, <3>5, <3>6 DEF StageOf
    <2>2. QED
      BY <2>1 DEF StageInv
  <1>6. ASSUME NEW i \in Importers, MemberShape(i) PROVE StageInv'
    <2>1. ASSUME NEW c \in Books PROVE StageOf(c)'
      <3>1. /\ bpc' = bpc /\ idx' = idx /\ Current(c)' = Current(c) /\ Scatter' = Scatter
            /\ ipc[i] = "parsed" /\ ipc' = [ipc EXCEPT ![i] = "over"]
            /\ i # Main[SheetOf(i)] \/ SheetOf(i) \notin Scatter
        BY <1>6 DEF MemberShape, bookVars, Current, Scatter
      <3>2. StageOf(c)
        BY <1>1 DEF StageInv
      <3>3. bpc[c] = "group" => idx[c] <= Len(SheetsOf[c])
        BY <3>2 DEF StageOf
      <3>4. bpc[c] = "group" =>
              Main[Current(c)] \in Importers /\ SheetOf(Main[Current(c)]) = Current(c)
        BY <1>1, <3>3, CurrentPlace
      <3>5. bpc[c] = "group" /\ Current(c) \in Scatter => ipc'[Main[Current(c)]] = "parsed"
        BY <1>1, <3>1, <3>2, <3>4 DEF StageOf, TypeOK
      <3>6. ASSUME NEW k \in DOMAIN SheetsOf[c], NEW j \in Readers(SheetsOf[c][k])
            PROVE  /\ idx[c] < k => ipc'[j] = "off"
                   /\ idx[c] = k /\ bpc[c] \in {"off", "open", "sheet"} => ipc'[j] = "off"
                   /\ idx[c] = k /\ bpc[c] = "main" /\ j # Main[SheetsOf[c][k]] => ipc'[j] = "off"
                   /\ ipc'[j] \in {"begin", "rows", "fields"} =>
                        idx[c] = k /\ bpc[c] \in {"main", "group"}
        <4>1. j \in Importers
          BY ReaderPlace
        <4>2. ipc'[j] = IF j = i THEN "over" ELSE ipc[j]
          BY <1>1, <3>1, <4>1 DEF TypeOK
        <4>3. QED
          BY <3>1, <3>2, <4>2 DEF StageOf
      <3>7. QED
        BY <3>1, <3>2, <3>5, <3>6 DEF StageOf
    <2>2. QED
      BY <2>1 DEF StageInv
  <1>7. QED
    BY <1>1, <1>2, <1>3, <1>4, <1>5, <1>6, StepShapes

\* An importer is started once.
LEMMA StartedOnce ==
  ASSUME TypeOK, StageInv, NEW b \in Books, BookShape(b), NEW i \in Importers, ipc'[i] # ipc[i]
  PROVE  ipc[i] = "off" /\ ipc'[i] = "begin"
  <1>1. idx[b] <= Len(SheetsOf[b])
    BY BookStepPlace
  <1>2. ipc'[i] = "begin" /\ BookFor(i) = b
    BY <1>1, BookStepFrame
  <1>3. idx[b] \in DOMAIN SheetsOf[b] /\ Current(b) = SheetsOf[b][idx[b]]
    BY <1>1, CurrentPlace DEF Current
  <1>4. Main[Current(b)] \notin Extra[Current(b)]
    BY <1>1, CurrentPlace
  <1>5. CASE BeginSheetShape(b)
    <2>1. bpc[b] = "sheet" /\ i \in Readers(Current(b))
      BY <1>5 DEF BeginSheetShape, GivenUp, Readers
    <2>2. QED
      BY <1>2, <1>3, <2>1 DEF StageInv, StageOf
  <1>6. CASE MainParsedShape(b)
    <2>1. bpc[b] = "main" /\ i \in Extra[Current(b)]
      BY <1>6 DEF MainParsedShape, GivenUp
    <2>2. i \in Readers(Current(b)) /\ i # Main[Current(b)]
      BY <1>4, <2>1 DEF Readers
    <2>3. QED
      BY <1>2, <1>3, <2>1, <2>2 DEF StageInv, StageOf
  <1>7. QED
    BY <1>5, <1>6 DEF BookShape, OpenShape, GroupWaitShape, FinishShape

\* Collectors only grow, as far as ParseOf and MissOf look at them.
LEMMA Growth ==
  ASSUME TypeOK, CollStep
  PROVE  /\ \A i \in Importers : /\ count[i] > 0 => count'[i] > 0
                                 /\ kept[BookFor(i)] > 0 => kept'[BookFor(i)] > 0
                                 /\ count[BookFor(i)] > 0 => count'[BookFor(i)] > 0
                                 /\ Full(BookFor(i)) => Full(BookFor(i))'
         /\ \A b \in Books : /\ Bad(b) => Bad(b)'
                             /\ Full(b) => Full(b)'
         /\ kept[Root] > 0 => kept'[Root] > 0
  <1>1. \A n \in {Root} \cup Books \cup Importers :
          /\ count[n] \in Nat /\ count'[n] \in Nat /\ kept[n] \in Nat /\ kept'[n] \in Nat
          /\ count[n] <= count'[n] /\ kept[n] <= kept'[n]
    BY NodeFacts DEF CollStep, Grown, TypeOK
  <1>2. \A b \in Books : Full(b) => Full(b)'
    BY <1>1, LimitFacts DEF Full
  <1>3. \A b \in Books : Bad(b) => Bad(b)'
    BY <1>1, LimitFacts DEF Bad
  <1>4. \A i \in Importers : BookFor(i) \in Books
    BY ImporterHasSheet
  <1>5. QED
    BY <1>1, <1>2, <1>3, <1>4

LEMMA ParseStays ==
  ASSUME TypeOK, CollStep, NEW i \in Importers, ParseOf(i), input' = input,
         ipc'[i] = ipc[i] \/ (ipc[i] = "off" /\ ipc'[i] = "begin"),
         row'[i] = row[i], left'[i] = left[i], ires'[i] = ires[i], i \in lost' <=> i \in lost
  PROVE  ParseOf(i)'
  <1>1. /\ count[i] > 0 => count'[i] > 0
        /\ kept[BookFor(i)] > 0 => kept'[BookFor(i)] > 0
        /\ count[BookFor(i)] > 0 => count'[BookFor(i)] > 0
        /\ Full(BookFor(i)) => Full(BookFor(i))'
    BY Growth
  <1>2. QED
    BY <1>1 DEF ParseOf

\* A full collector of an importer has an error, or its workbook is full.
LEMMA FullImporter ==
  ASSUME TypeOK, NEW i \in Importers, IsFull(count, i)
  PROVE  count[i] > 0 \/ Full(BookFor(i))
  <1>1. Full(BookFor(i)) \/ count[i] >= MaxErrorsPerSheet
    BY FullFacts
  <1>2. count[i] \in Nat
    BY NodeFacts DEF TypeOK
  <1>3. QED
    BY <1>1, <1>2, LimitFacts

\* What an importer stores, its workbook stores.
LEMMA KeptAbove ==
  ASSUME TypeOK, CollInv, NEW i \in Importers, kept[i] > 0 \/ kept[RowOf(i)] > 0
  PROVE  kept[BookFor(i)] > 0
  <1>1. /\ kept[RowOf(i)] \in Nat /\ kept[i] \in Nat /\ kept[BookFor(i)] \in Nat
        /\ kept[RowOf(i)] <= kept[i] /\ kept[i] <= kept[BookFor(i)]
    BY NodeFacts, ImporterHasSheet DEF TypeOK, CollInv
  <1>2. QED
    BY <1>1

\* The end of a row keeps ParseOf if the row's failures have been counted and the
\* error it returned is stored.
LEMMA EndRowParse ==
  ASSUME TypeOK, CollInv, CollStep, NEW i \in Importers, ParseOf(i), NEW err, EndRow(i, err),
         ipc[i] = "fields", input' = input,
         err = "joined" => kept'[BookFor(i)] > 0,
         input.errs[i][row[i]] > 0 => count'[i] > 0 \/ Full(BookFor(i))'
  PROVE  ParseOf(i)'
  <1>1. /\ count[i] > 0 => count'[i] > 0
        /\ Full(BookFor(i)) => Full(BookFor(i))'
    BY Growth
  <1>2. ires[i] = "ok"
    BY DEF ParseOf
  <1>3. CASE /\ ipc' = [ipc EXCEPT ![i] = "parsed"] /\ ires' = [ires EXCEPT ![i] = "joined"]
             /\ row' = row /\ lost' = lost /\ err = "joined"
    <2>1. ipc'[i] = "parsed" /\ ires'[i] = "joined"
      BY <1>3 DEF TypeOK
    <2>2. QED
      BY <1>1, <1>3, <2>1 DEF ParseOf
  <1>4. CASE /\ ipc' = [ipc EXCEPT ![i] = "rows"] /\ ires' = ires
             /\ lost' = IF input.errs[i][row[i]] > 0 THEN lost \cup {i} ELSE lost
    <2>1. ipc'[i] = "rows" /\ ires'[i] = "ok"
      BY <1>2, <1>4 DEF TypeOK
    <2>2. i \in lost' => count'[i] > 0 \/ Full(BookFor(i))'
      BY <1>1, <1>4 DEF ParseOf
    <2>3. QED
      BY <2>1, <2>2 DEF ParseOf
  <1>5. QED
    BY <1>3, <1>4, EndRowBase

LEMMA ParseAloneKeeps ==
  ASSUME TypeOK, CollInv, NEW i \in Importers, ParseOf(i), ParseShape(i), ParseAlone(i), CollInv', TypeOK'
  PROVE  ParseOf(i)'
  <1>0. CollStep /\ input' = input
    BY DEF ParseShape
  <1>1. /\ count[i] > 0 => count'[i] > 0
        /\ kept[BookFor(i)] > 0 => kept'[BookFor(i)] > 0
        /\ Full(BookFor(i)) => Full(BookFor(i))'
    BY <1>0, Growth
  <1>2. ires[i] = "ok"
    BY DEF ParseOf, ParseShape
  <1>3. row[i] \in Nat /\ count[i] \in Nat /\ kept[i] \in Nat /\ left[i] \in Nat
    BY NodeFacts DEF TypeOK
  <1>4. CASE BeginParse(i)
    <2>1. i \notin lost /\ lost' = lost
      BY <1>4 DEF BeginParse, ParseOf
    <2>2. \/ ipc'[i] = "parsed" /\ ires'[i] = "plain"
          \/ ipc'[i] = "rows" /\ ires'[i] = "ok"
      BY <1>2, <1>4 DEF BeginParse, Parsed, TypeOK
    <2>3. QED
      BY <2>1, <2>2 DEF ParseOf
  <1>5. CASE BeginRow(i)
    <2>1. CASE IsFull(count, i) /\ Join(kept, i) = "joined" /\ Parsed(i, "joined") /\ UNCHANGED <<row, lost>>
      <3>1. kept[BookFor(i)] > 0
        BY <2>1, KeptAbove DEF Join
      <3>2. ipc'[i] = "parsed" /\ ires'[i] = "joined" /\ lost' = lost
        BY <2>1 DEF Parsed, TypeOK
      <3>3. QED
        BY <1>1, <3>1, <3>2 DEF ParseOf
    <2>2. CASE IsFull(count, i) /\ NextRow(i, TRUE)
      <3>1. count[i] > 0 \/ Full(BookFor(i))
        BY <2>2, FullImporter
      <3>2. ipc'[i] = "rows" /\ ires'[i] = "ok"
        BY <1>2, <2>2 DEF NextRow, TypeOK
      <3>3. QED
        BY <1>1, <3>1, <3>2 DEF ParseOf
    <2>3. CASE /\ ipc' = [ipc EXCEPT ![i] = "fields"]
               /\ left' = [left EXCEPT ![i] = input.errs[i][row[i]]]
               /\ UNCHANGED <<row, ires, lost>>
      <3>1. row[i] \in 1..Len(input.errs[i])
        BY <1>3, <1>5, InputFacts DEF BeginRow, TypeOK
      <3>2. input.errs[i][row[i]] \in Nat
        BY <3>1, InputFacts
      <3>3. /\ ipc'[i] = "fields" /\ ires'[i] = "ok" /\ row'[i] = row[i] /\ lost' = lost
            /\ left'[i] = input.errs[i][row[i]] /\ ipc[i] = "rows" /\ row[i] <= Len(input.errs[i])
        BY <1>2, <1>5, <2>3 DEF BeginRow, TypeOK
      <3>4. QED
        BY <1>0, <1>1, <3>2, <3>3 DEF ParseOf
    <2>4. QED
      BY <1>5, <2>1, <2>2, <2>3 DEF BeginRow
  <1>6. CASE FieldError(i)
    <2>1. ipc[i] = "fields" /\ left[i] > 0 /\ left'[i] = left[i] - 1
      BY <1>6 DEF FieldError, TypeOK
    <2>2. count'[i] > 0
      <3>1. Collect(RowOf(i), "plain")
        BY <1>6 DEF FieldError
      <3>2. "plain" \in Outcomes /\ RowOf(i) \in Nodes /\ i \in Path(RowOf(i))
        BY NodeFacts, PathFacts DEF Outcomes
      <3>3. QED
        BY <3>1, <3>2, CollectSteps
    <2>3. CASE CollectReturns(RowOf(i)) = "joined" /\ EndRow(i, "joined")
      <3>1. kept'[RowOf(i)] > 0
        BY <2>3 DEF CollectReturns, Join
      <3>2. kept'[RowOf(i)] \in Nat /\ kept'[i] \in Nat /\ kept'[BookFor(i)] \in Nat
        BY <1>0, NodeFacts, ImporterHasSheet DEF CollStep
      <3>3. kept'[BookFor(i)] > 0
        BY <3>1, <3>2, ImporterHasSheet DEF CollInv
      <3>4. QED
        BY <1>0, <2>1, <2>2, <2>3, <3>3, EndRowParse
    <2>4. CASE UNCHANGED <<ipc, row, ires, lost>>
      <3>1. /\ row[i] <= Len(input.errs[i]) /\ left[i] <= input.errs[i][row[i]]
        BY <2>1 DEF ParseOf
      <3>2. input.errs[i][row[i]] \in Nat
        BY <1>3, <3>1, InputFacts DEF TypeOK
      <3>3. left'[i] <= input.errs[i][row[i]]
        BY <1>3, <2>1, <3>1, <3>2
      <3>4. /\ ipc'[i] = "fields" /\ ires'[i] = "ok" /\ row'[i] = row[i] /\ lost' = lost
        BY <1>2, <2>1, <2>4
      <3>5. QED
        BY <1>0, <1>1, <2>2, <3>1, <3>3, <3>4 DEF ParseOf
    <2>5. QED
      BY <1>6, <2>3, <2>4 DEF FieldError
  <1>7. CASE DocumentFull(i)
    <2>1. /\ ipc[i] = "fields" /\ EndRow(i, Join(kept, i)) /\ IsFull(count, i) /\ kept' = kept
      BY <1>7 DEF DocumentFull, collVars
    <2>2. count'[i] > 0 \/ Full(BookFor(i))'
      BY <1>1, <2>1, FullImporter
    <2>3. Join(kept, i) = "joined" => kept'[BookFor(i)] > 0
      BY <2>1, KeptAbove DEF Join
    <2>4. QED
      BY <1>0, <2>1, <2>2, <2>3, EndRowParse
  <1>8. CASE EndFields(i)
    <2>1. /\ ipc[i] = "fields" /\ left[i] = 0 /\ EndRow(i, JoinIfErrors(RowOf(i)))
          /\ kept' = kept /\ count' = count
      BY <1>8 DEF EndFields, collVars
    <2>2. input.errs[i][row[i]] > 0 => count'[i] > 0
      BY <2>1 DEF ParseOf
    <2>3. JoinIfErrors(RowOf(i)) = "joined" => kept'[BookFor(i)] > 0
      BY <2>1, KeptAbove DEF JoinIfErrors, Join
    <2>4. QED
      BY <1>0, <2>1, <2>2, <2>3, EndRowParse
  <1>9. CASE EndRows(i)
    <2>1. ipc'[i] = "parsed" /\ ires'[i] = JoinIfErrors(i) /\ lost' = lost /\ count' = count /\ kept' = kept
      BY <1>9 DEF EndRows, Parsed, TypeOK, collVars
    <2>2. JoinIfErrors(i) = "joined" => kept'[BookFor(i)] > 0
      BY <2>1, KeptAbove DEF JoinIfErrors, Join
    <2>3. JoinIfErrors(i) = "ok" => ~(count[i] > 0 /\ kept[i] > 0)
      BY DEF JoinIfErrors, HasErrors, Join
    <2>4. i \in lost /\ JoinIfErrors(i) = "ok" => Full(BookFor(i))
      BY <2>3 DEF ParseOf, CollInv
    <2>5. JoinIfErrors(i) \in {"ok", "joined"}
      BY JoinTypes
    <2>6. QED
      BY <1>1, <2>1, <2>2, <2>4, <2>5 DEF ParseOf
  <1>10. QED
    BY <1>4, <1>5, <1>6, <1>7, <1>8, <1>9 DEF ParseAlone

LEMMA ParseInvStep ==
  ASSUME IInv, [Next]_vars PROVE ParseInv'
  <1>1. TypeOK /\ CollInv /\ StageInv /\ ParseInv /\ TypeOK' /\ CollInv' /\ CollStep
    BY BaseStep DEF IInv, BaseInv, CollStep
  <1>2. CASE LaunchShape \/ WaitShape \/ UNCHANGED vars
    <2>1. UNCHANGED <<input, ipc, row, left, ires, lost>>
      BY <1>2 DEF LaunchShape, WaitShape, vars, impVars
    <2>2. QED
      BY <1>1, <2>1, ParseStays DEF ParseInv
  <1>3. ASSUME NEW b \in Books, BookShape(b) PROVE ParseInv'
    <2>1. UNCHANGED <<input, row, left, ires, lost>>
      BY <1>1, <1>3, BookStepFrame, BookStepPlace
    <2>2. ASSUME NEW i \in Importers PROVE ParseOf(i)'
      <3>1. ipc'[i] = ipc[i] \/ (ipc[i] = "off" /\ ipc'[i] = "begin")
        BY <1>1, <1>3, StartedOnce
      <3>2. QED
        BY <1>1, <2>1, <3>1, ParseStays DEF ParseInv
    <2>3. QED
      BY <2>2 DEF ParseInv
  <1>4. ASSUME NEW i \in Importers, ParseShape(i), ParseAlone(i) PROVE ParseInv'
    <2>1. ASSUME NEW j \in Importers, j # i PROVE ParseOf(j)'
      BY <1>1, <1>4, <2>1, ParseStays DEF ParseShape, ParseInv
    <2>2. ParseOf(i)'
      BY <1>1, <1>4, ParseAloneKeeps DEF ParseInv
    <2>3. QED
      BY <2>1, <2>2 DEF ParseInv
  <1>5. ASSUME NEW i \in Importers, MemberShape(i) PROVE ParseInv'
    <2>1. ASSUME NEW j \in Importers, j # i PROVE ParseOf(j)'
      <3>1. UNCHANGED <<input, row, left, lost>> /\ ipc'[j] = ipc[j] /\ ires'[j] = ires[j]
        BY <1>1, <1>5, <2>1 DEF MemberShape, TypeOK
      <3>2. QED
        BY <1>1, <3>1, ParseStays DEF ParseInv
    <2>2. ParseOf(i)'
      <3>1. ipc[i] = "parsed" /\ ipc'[i] = "over" /\ lost' = lost
        BY <1>1, <1>5 DEF MemberShape, TypeOK
      <3>2. \/ ires'[i] = "plain" /\ count'[BookFor(i)] > 0
            \/ ires'[i] = ires[i] /\ ires[i] # "plain"
            \/ ires'[i] = ires[i] /\ count'[BookFor(i)] > 0
        BY <1>1, <1>5 DEF MemberShape, TypeOK
      <3>3. ParseOf(i)
        BY <1>1 DEF ParseInv
      <3>4. /\ count[i] > 0 => count'[i] > 0
            /\ kept[BookFor(i)] > 0 => kept'[BookFor(i)] > 0
            /\ Full(BookFor(i)) => Full(BookFor(i))'
        BY <1>1, Growth
      <3>5. QED
        BY <3>1, <3>2, <3>3, <3>4 DEF ParseOf
    <2>3. QED
      BY <2>1, <2>2 DEF ParseInv
  <1>6. QED
    BY <1>1, <1>2, <1>3, <1>4, <1>5, StepShapes

\* A parse that is over does not change, except by the end of its goroutine.
LEMMA ExportStays ==
  ASSUME TypeOK, CollStep, NEW conf, ExportOf(conf), input' = input,
         \A i \in Importers : i \in Contents(conf) /\ ipc[i] \in {"parsed", "over"} =>
           /\ ires'[i] = ires[i]
           /\ ipc'[i] = ipc[i] \/ (conf \in Sheets /\ ipc'[i] = "over")
  PROVE  ExportOf(conf)'
  <1>1. Scatter' = Scatter
    BY DEF Scatter
  <1>2. CASE conf \in Sheets \ Scatter
    <2>1. \A i \in Readers(conf) : /\ i \in Importers /\ i \in Contents(conf)
                                   /\ Full(BookFor(i)) => Full(BookFor(i))'
      BY <1>2, ImporterPlace, Growth DEF Contents
    <2>2. conf \notin Importers
      BY <1>2, NamesAssumption
    <2>3. \A i \in Readers(conf) : ipc[i] \in {"parsed", "over"} /\ (ires[i] = "ok" \/ Full(BookFor(i)))
      BY <2>2 DEF ExportOf
    <2>4. \A i \in Readers(conf) :
            ipc'[i] \in {"parsed", "over"} /\ (ires'[i] = "ok" \/ Full(BookFor(i))')
      BY <2>1, <2>3
    <2>5. QED
      BY <1>1, <1>2, <2>4 DEF ExportOf
  <1>3. CASE conf \notin Sheets \ Scatter
    <2>1. /\ conf \in Importers /\ SheetOf(conf) \in Scatter /\ ires[conf] = "ok"
          /\ ipc[conf] = "over" \/ (ipc[conf] = "parsed" /\ conf = Main[SheetOf(conf)])
      BY <1>3 DEF ExportOf
    <2>2. conf \notin Sheets /\ conf \in Contents(conf)
      BY <2>1, NamesAssumption DEF Contents
    <2>3. QED
      BY <1>1, <2>1, <2>2 DEF ExportOf
  <1>4. QED
    BY <1>2, <1>3

LEMMA ExportStep ==
  ASSUME IInv, [Next]_vars PROVE ExportInv'
  <1>1. /\ TypeOK /\ CollInv /\ StageInv /\ ParseInv /\ ExportInv
        /\ TypeOK' /\ CollInv' /\ CollStep
    BY BaseStep DEF IInv, BaseInv, CollStep
  <1>2. CASE LaunchShape \/ WaitShape \/ UNCHANGED vars
    <2>1. UNCHANGED <<input, exported, ipc, ires>>
      BY <1>2 DEF LaunchShape, WaitShape, vars, impVars
    <2>2. QED
      BY <1>1, <2>1, ExportStays DEF ExportInv
  <1>3. ASSUME NEW b \in Books, BookShape(b) PROVE ExportInv'
    <2>1. UNCHANGED <<input, ires>> /\ Scatter' = Scatter
      BY <1>3 DEF BookShape, BookFrame, Scatter
    <2>2. ASSUME NEW conf \in exported PROVE ExportOf(conf)'
      <3>1. \A i \in Importers : ipc[i] \in {"parsed", "over"} => ipc'[i] = ipc[i]
        BY <1>1, <1>3, StartedOnce
      <3>2. QED
        BY <1>1, <2>1, <3>1, ExportStays DEF ExportInv
    <2>3. ASSUME MainParsedShape(b), NEW conf \in exported', conf \notin exported
          PROVE  ExportOf(conf)'
      <3>1. idx[b] <= Len(SheetsOf[b])
        BY <1>1, <2>3 DEF MainParsedShape, StageInv, StageOf
      <3>2. /\ Current(b) \in Sheets /\ Main[Current(b)] \in Importers
            /\ SheetOf(Main[Current(b)]) = Current(b)
        BY <1>1, <3>1, CurrentPlace
      <3>3. /\ conf = IF Current(b) \in Scatter THEN Main[Current(b)] ELSE Current(b)
            /\ ires[Main[Current(b)]] = "ok" /\ ipc[Main[Current(b)]] = "parsed" /\ bpc[b] = "main"
        BY <2>3 DEF MainParsedShape, GivenUp
      <3>4. ipc'[Main[Current(b)]] = "parsed" /\ ires'[Main[Current(b)]] = "ok"
        BY <1>1, <1>3, <2>1, <3>2, <3>3, StartedOnce
      <3>5. CASE Current(b) \in Scatter
        BY <2>1, <3>2, <3>3, <3>4, <3>5 DEF ExportOf
      <3>6. CASE Current(b) \notin Scatter
        <4>1. Extra[Current(b)] = {}
          BY <1>1, <3>3, <3>6 DEF StageInv, StageOf
        <4>2. \A i \in Readers(conf) : i = Main[Current(b)]
          BY <3>3, <3>6, <4>1 DEF Readers
        <4>3. QED
          BY <2>1, <3>2, <3>3, <3>4, <3>6, <4>2 DEF ExportOf
      <3>7. QED
        BY <3>5, <3>6
    <2>4. ASSUME GroupWaitShape(b), NEW conf \in exported', conf \notin exported
          PROVE  ExportOf(conf)'
      <3>1. idx[b] <= Len(SheetsOf[b])
        BY <1>1, <2>4 DEF GroupWaitShape, StageInv, StageOf
      <3>2. /\ conf = Current(b) /\ Current(b) \notin Scatter /\ JoinIfErrors(b) = "ok" /\ ipc' = ipc
            /\ \A i \in Readers(Current(b)) : ipc[i] = "over"
        BY <2>4 DEF GroupWaitShape, GivenUp
      <3>3. conf \in Sheets /\ \A i \in Readers(conf) : i \in Importers /\ BookFor(i) = b
        BY <1>1, <3>1, <3>2, CurrentPlace, ImporterPlace
      <3>4. count[b] \in Nat /\ kept[b] \in Nat
        BY <1>1, NodeFacts DEF TypeOK
      <3>5. count[b] > 0 => kept[b] = 0
        BY <3>2, <3>4 DEF JoinIfErrors, HasErrors, Join
      <3>6. kept[b] = 0
        BY <1>1, <3>4, <3>5, NodeFacts DEF CollInv
      <3>7. count[b] > 0 => Full(b)
        BY <1>1, <3>6 DEF CollInv, Full
      <3>8. ASSUME NEW i \in Readers(conf) PROVE ires[i] = "ok" \/ Full(BookFor(i))
        <4>1. ires[i] \in {"ok", "plain", "joined"} /\ ParseOf(i) /\ ipc[i] = "over"
          BY <1>1, <3>2, <3>3 DEF TypeOK, Outcomes, ParseInv
        <4>2. QED
          BY <3>3, <3>4, <3>6, <3>7, <4>1 DEF ParseOf
      <3>9. Full(b) => Full(b)'
        BY <1>1, Growth
      <3>10. QED
        BY <2>1, <3>2, <3>3, <3>8, <3>9 DEF ExportOf
    <2>5. exported' = exported \/ MainParsedShape(b) \/ GroupWaitShape(b)
      BY <1>3 DEF BookShape, OpenShape, BeginSheetShape, FinishShape
    <2>6. QED
      BY <2>2, <2>3, <2>4, <2>5 DEF ExportInv
  <1>4. ASSUME NEW i \in Importers, ParseShape(i) PROVE ExportInv'
    BY <1>1, <1>4, ExportStays DEF ParseShape, ExportInv
  <1>5. ASSUME NEW i \in Importers, MemberShape(i) PROVE ExportInv'
    <2>1. /\ input' = input /\ ipc[i] = "parsed" /\ ipc' = [ipc EXCEPT ![i] = "over"]
          /\ Scatter' = Scatter
          /\ i # Main[SheetOf(i)] \/ SheetOf(i) \notin Scatter
      BY <1>5 DEF MemberShape, Scatter
    <2>2. /\ \A j \in Importers : j # i => ires'[j] = ires[j] /\ ipc'[j] = ipc[j]
          /\ ipc'[i] = "over"
          /\ SheetOf(i) \notin Scatter => ires' = ires
      BY <1>1, <1>5, <2>1 DEF MemberShape, TypeOK
    <2>3. ASSUME NEW conf \in exported PROVE ExportOf(conf)'
      <3>1. ExportOf(conf)
        BY <1>1 DEF ExportInv
      <3>2. CASE conf \in Sheets \ Scatter
        <4>1. i \in Contents(conf) => SheetOf(i) = conf
          BY <3>2, ImporterPlace DEF Contents
        <4>2. QED
          BY <1>1, <2>1, <2>2, <3>1, <3>2, <4>1, ExportStays
      <3>3. CASE conf \notin Sheets \ Scatter
        <4>1. conf \in Importers /\ conf # i
          BY <2>1, <3>1, <3>3 DEF ExportOf
        <4>2. conf \notin Sheets
          BY <4>1, NamesAssumption
        <4>3. i \notin Contents(conf)
          BY <4>1, <4>2 DEF Contents
        <4>4. QED
          BY <1>1, <2>1, <2>2, <3>1, <4>3, ExportStays
      <3>4. QED
        BY <3>2, <3>3
    <2>4. ASSUME i \in exported', i \notin exported PROVE ExportOf(i)'
      <3>1. ires[i] = "ok" /\ SheetOf(i) \in Scatter /\ ires' = ires
        BY <1>5, <2>4 DEF MemberShape
      <3>2. QED
        BY <2>1, <2>2, <3>1 DEF ExportOf
    <2>5. exported' \subseteq exported \cup {i}
      BY <1>5 DEF MemberShape
    <2>6. QED
      BY <2>3, <2>4, <2>5 DEF ExportInv
  <1>6. QED
    BY <1>1, <1>2, <1>3, <1>4, <1>5, StepShapes

\* What MissOf and CleanOf say of a workbook whose goroutine does not step.
LEMMA OutcomeStays ==
  ASSUME TypeOK, CollStep, NEW c \in Books, MissOf(c), CleanOf(c), input' = input,
         idx'[c] = idx[c], bres'[c] = bres[c], exported \subseteq exported',
         bpc'[c] = bpc[c] \/ bpc'[c] \notin {"over", "group"},
         bpc'[c] = "group" /\ Current(c) \in Scatter =>
           \A i \in Extra[Current(c)] : ipc'[i] = "over" => ipc[i] = "over" \/ i \in exported' \/ Bad(c)'
  PROVE  MissOf(c)' /\ CleanOf(c)'
  <1>1. /\ Scatter' = Scatter /\ Current(c)' = Current(c)
        /\ \A s : ConfsOf(s)' = ConfsOf(s) /\ (Clean(s)' <=> Clean(s))
    BY DEF Scatter, Current, ConfsOf, Clean
  <1>2. /\ Bad(c) => Bad(c)'
        /\ Full(c) => Full(c)'
        /\ kept[Root] > 0 => kept'[Root] > 0
    BY Growth
  <1>3. \A k \in DOMAIN SheetsOf[c] : k < idx'[c] =>
          \A conf \in ConfsOf(SheetsOf[c][k])' : conf \in exported' \/ Bad(c)'
    BY <1>1, <1>2 DEF MissOf
  <1>4. bpc'[c] = "over" /\ idx'[c] <= Len(SheetsOf[c]) =>
          /\ Bad(c)' \/ (bres'[c] = "plain" /\ kept'[Root] > 0)
          /\ Full(c)' \/ bres'[c] = "plain"
    BY <1>2 DEF MissOf, CleanOf
  <1>5. bpc'[c] = "group" /\ Current(c)' \in Scatter' =>
          /\ Main[Current(c)'] \in exported'
          /\ \A i \in Extra[Current(c)'] : ipc'[i] = "over" => i \in exported' \/ Bad(c)'
    BY <1>1, <1>2 DEF MissOf
  <1>6. MissOf(c)'
    BY <1>3, <1>4, <1>5 DEF MissOf
  <1>7. CleanOf(c)'
    BY <1>1, <1>4 DEF CleanOf
  <1>8. QED
    BY <1>6, <1>7

\* ... and of one that goes on to its next sheet,
LEMMA OutcomePassed ==
  ASSUME TypeOK, CollStep, NEW b \in Books, MissOf(b), CleanOf(b), input' = input, Passed(b),
         exported \subseteq exported',
         \A conf \in ConfsOf(Current(b)) : conf \in exported' \/ Bad(b)',
         Clean(Current(b)) /\ Extra[Current(b)] = {} =>
           Current(b) \in exported' \/ Main[Current(b)] \in exported'
  PROVE  MissOf(b)' /\ CleanOf(b)'
  <1>1. Scatter' = Scatter /\ \A s : ConfsOf(s)' = ConfsOf(s) /\ (Clean(s)' <=> Clean(s))
    BY DEF Scatter, ConfsOf, Clean
  <1>2. Bad(b) => Bad(b)'
    BY Growth
  <1>3. bpc'[b] = "sheet" /\ idx'[b] = idx[b] + 1
    BY DEF Passed, TypeOK
  <1>4. \A k \in DOMAIN SheetsOf[b] : k < idx'[b] => k < idx[b] \/ SheetsOf[b][k] = Current(b)
    BY <1>3, PlaceFacts DEF Current, TypeOK
  <1>5. \A k \in DOMAIN SheetsOf[b] : k < idx'[b] =>
          \A conf \in ConfsOf(SheetsOf[b][k]) : conf \in exported' \/ Bad(b)'
    BY <1>2, <1>4 DEF MissOf
  <1>6. MissOf(b)'
    BY <1>1, <1>3, <1>5 DEF MissOf
  <1>7. \A k \in DOMAIN SheetsOf[b] :
          k < idx'[b] /\ Clean(SheetsOf[b][k]) /\ Extra[SheetsOf[b][k]] = {} =>
            SheetsOf[b][k] \in exported' \/ Main[SheetsOf[b][k]] \in exported'
    BY <1>4 DEF CleanOf
  <1>8. CleanOf(b)'
    BY <1>1, <1>3, <1>7 DEF CleanOf
  <1>9. QED
    BY <1>6, <1>8

\* ... and of one that returns.
LEMMA OutcomeEnded ==
  ASSUME TypeOK, CollStep, NEW b \in Books, MissOf(b), CleanOf(b), input' = input,
         NEW err, Ended(b, err), exported \subseteq exported',
         \/ idx[b] > Len(SheetsOf[b])
         \/ /\ Bad(b)' \/ (err = "plain" /\ kept'[Root] > 0)
            /\ Full(b)' \/ err = "plain"
  PROVE  MissOf(b)' /\ CleanOf(b)'
  <1>1. Scatter' = Scatter /\ \A s : ConfsOf(s)' = ConfsOf(s) /\ (Clean(s)' <=> Clean(s))
    BY DEF Scatter, ConfsOf, Clean
  <1>2. Bad(b) => Bad(b)'
    BY Growth
  <1>3. bpc'[b] = "over" /\ idx'[b] = idx[b] /\ bres'[b] = err
    BY DEF Ended, TypeOK
  <1>4. idx[b] > Len(SheetsOf[b]) => ~(idx[b] <= Len(SheetsOf[b]))
    BY PlaceFacts DEF TypeOK
  <1>5. \A k \in DOMAIN SheetsOf[b] : k < idx'[b] =>
          \A conf \in ConfsOf(SheetsOf[b][k]) : conf \in exported' \/ Bad(b)'
    BY <1>2, <1>3 DEF MissOf
  <1>6. MissOf(b)'
    BY <1>1, <1>3, <1>4, <1>5 DEF MissOf
  <1>7. CleanOf(b)'
    BY <1>1, <1>3, <1>4 DEF CleanOf
  <1>8. QED
    BY <1>6, <1>7

\* An error that a workbook counts is in the report, or a budget is used up.
LEMMA CountedIsBad ==
  ASSUME CollInv', CollStep, NEW b \in Books
  PROVE  count'[b] > 0 => Bad(b)'
  BY NodeFacts DEF CollInv, Bad

\* A given-up sheet is accounted for by the workbook's errors.
LEMMA OutcomeGivenUp ==
  ASSUME TypeOK, CollStep, NEW b \in Books, MissOf(b), CleanOf(b), input' = input, GivenUp(b),
         Bad(b)',
         Clean(Current(b)) /\ Extra[Current(b)] = {} => Main[Current(b)] \in exported
  PROVE  MissOf(b)' /\ CleanOf(b)'
  <1>1. exported' = exported
    BY DEF GivenUp
  <1>2. CASE Passed(b)
    BY <1>1, <1>2, OutcomePassed
  <1>3. CASE Ended(b, "joined") /\ IsFull(count', b)
    <2>1. Full(b)'
      BY <1>3, PathFacts, LimitsOfNodes DEF IsFull, Full
    <2>2. QED
      BY <1>1, <1>3, <2>1, OutcomeEnded
  <1>4. QED
    BY <1>2, <1>3 DEF GivenUp

LEMMA CleanReaders ==
  ASSUME TypeOK, NEW s \in Sheets, Clean(s)
  PROVE  /\ \A w : ~Fails(w, s) /\ ~Fails(w, Main[s])
         /\ CleanImporter(Main[s])
  <1>1. Main[s] \in Readers(s)
    BY DEF Readers
  <1>2. \A f \in input.faults : f[2] # s /\ f[2] # Main[s]
    BY <1>1 DEF Clean
  <1>3. \A w, x : <<w, x>>[2] = x
    OBVIOUS
  <1>4. QED
    BY <1>1, <1>2, <1>3 DEF Clean, CleanImporter, Fails

LEMMA OutcomeBookStep ==
  ASSUME TypeOK, CollInv, CollInv', StageInv, ParseInv, CleanParse, NEW b \in Books,
         MissOf(b), CleanOf(b), BookShape(b)
  PROVE  MissOf(b)' /\ CleanOf(b)'
  <1> DEFINE s == Current(b)
  <1>1. CollStep /\ input' = input
    BY DEF BookShape, BookFrame
  <1>2. kept[b] > 0 => Bad(b)'
    BY <1>1, Growth DEF Bad
  <1>3. count'[b] > 0 => Bad(b)'
    BY <1>1, CountedIsBad
  <1>4. count'[Root] > 0 => kept'[Root] > 0
    BY DEF CollInv
  <1>5. CASE OpenShape(b)
    <2>1. CASE Moved(b, "sheet")
      <3>1. bpc'[b] = "sheet" /\ idx' = idx /\ bres' = bres /\ exported' = exported
        BY <1>5, <2>1 DEF OpenShape, Moved, TypeOK
      <3>2. QED
        BY <1>1, <3>1, OutcomeStays
    <2>2. CASE Ended(b, "plain") /\ count'[Root] > 0
      BY <1>1, <1>4, <1>5, <2>2, OutcomeEnded DEF OpenShape
    <2>3. QED
      BY <1>5, <2>1, <2>2 DEF OpenShape
  <1>6. CASE BeginSheetShape(b)
    <2>1. s \in Sheets /\ exported' = exported
      BY <1>6, CurrentPlace DEF BeginSheetShape
    <2>2. CASE Ended(b, "plain") /\ count'[Root] > 0
      BY <1>1, <1>4, <2>1, <2>2, OutcomeEnded
    <2>3. CASE GivenUp(b) /\ Fails("importers", s) /\ count'[b] > 0
      <3>1. ~Clean(s)
        BY <2>1, <2>3, CleanReaders
      <3>2. QED
        BY <1>1, <1>3, <2>3, <3>1, OutcomeGivenUp
    <2>4. CASE Moved(b, "main")
      <3>1. bpc'[b] = "main" /\ idx' = idx /\ bres' = bres
        BY <2>4 DEF Moved, TypeOK
      <3>2. QED
        BY <1>1, <2>1, <3>1, OutcomeStays
    <2>5. CASE Moved(b, "group") /\ s \notin Scatter
      <3>1. bpc'[b] = "group" /\ idx' = idx /\ bres' = bres /\ bpc[b] = "sheet"
            /\ s' = s /\ Scatter' = Scatter
        BY <1>1, <1>6, <2>5 DEF Moved, TypeOK, BeginSheetShape, Current, Scatter
      <3>2. \A t : ConfsOf(t)' = ConfsOf(t) /\ (Clean(t)' <=> Clean(t))
        BY <1>1 DEF ConfsOf, Clean, Scatter
      <3>3. Bad(b) => Bad(b)'
        BY <1>1, Growth
      <3>4. MissOf(b)'
        BY <2>1, <2>5, <3>1, <3>2, <3>3 DEF MissOf
      <3>5. CleanOf(b)'
        BY <2>1, <3>1, <3>2 DEF CleanOf
      <3>6. QED
        BY <3>4, <3>5
    <2>6. QED
      BY <1>6, <2>2, <2>3, <2>4, <2>5 DEF BeginSheetShape
  <1>7. CASE MainParsedShape(b)
    <2>1. bpc[b] = "main" /\ idx[b] <= Len(SheetsOf[b])
      BY <1>7 DEF MainParsedShape, StageInv, StageOf
    <2>2. s \in Sheets /\ Main[s] \in Importers /\ BookFor(Main[s]) = b
      BY <2>1, CurrentPlace
    <2>3. CASE /\ GivenUp(b)
               /\ ires[Main[s]] # "ok" \/ Fails("store", IF s \in Scatter THEN Main[s] ELSE s)
               /\ ires[Main[s]] # "joined" => count'[b] > 0
      <3>1. ires[Main[s]] = "joined" => kept[b] > 0
        BY <2>2 DEF ParseInv, ParseOf
      <3>2. ~Clean(s)
        BY <2>2, <2>3, CleanReaders DEF CleanParse
      <3>3. QED
        BY <1>1, <1>2, <1>3, <2>3, <3>1, <3>2, OutcomeGivenUp
    <2>4. CASE /\ exported' = exported \cup {Main[s]} /\ s \in Scatter
               /\ ipc' = [j \in Importers |-> IF j \in Extra[s] THEN "begin" ELSE ipc[j]]
               /\ Moved(b, "group")
      <3>1. bpc'[b] = "group" /\ idx' = idx /\ bres' = bres /\ s' = s /\ Scatter' = Scatter
        BY <1>1, <2>4 DEF Moved, TypeOK, Current, Scatter
      <3>2. \A i \in Extra[s] : ipc'[i] # "over"
        BY <2>1, <2>4, CurrentPlace
      <3>3. \A t : ConfsOf(t)' = ConfsOf(t) /\ (Clean(t)' <=> Clean(t))
        BY <1>1 DEF ConfsOf, Clean, Scatter
      <3>4. Bad(b) => Bad(b)'
        BY <1>1, Growth
      <3>5. MissOf(b)'
        BY <2>4, <3>1, <3>2, <3>3, <3>4 DEF MissOf
      <3>6. CleanOf(b)'
        BY <2>4, <3>1, <3>3 DEF CleanOf
      <3>7. QED
        BY <3>5, <3>6
    <2>5. CASE exported' = exported \cup {s} /\ s \notin Scatter /\ Passed(b)
      <3>1. ConfsOf(s) = {s}
        BY <2>5 DEF ConfsOf
      <3>2. QED
        BY <1>1, <2>5, <3>1, OutcomePassed
    <2>6. QED
      BY <1>7, <2>3, <2>4, <2>5 DEF MainParsedShape
  <1>8. CASE GroupWaitShape(b)
    <2>1. bpc[b] = "group" /\ idx[b] <= Len(SheetsOf[b])
      BY <1>8 DEF GroupWaitShape, StageInv, StageOf
    <2>2. Extra[s] = {} => s \in Scatter
      BY <2>1 DEF StageInv, StageOf
    <2>3. s \in Scatter => Main[s] \in exported
      BY <2>1 DEF MissOf
    <2>4. CASE GivenUp(b) /\ (kept[b] > 0 \/ count'[b] > 0)
      BY <1>1, <1>2, <1>3, <2>2, <2>3, <2>4, OutcomeGivenUp
    <2>5. CASE /\ Passed(b)
               /\ exported' = IF s \in Scatter THEN exported ELSE exported \cup {s}
      <3>1. CASE s \in Scatter
        <4>1. \A i \in Extra[s] : i \in exported \/ Bad(b)
          BY <1>8, <2>1, <3>1 DEF GroupWaitShape, MissOf
        <4>2. Bad(b) => Bad(b)'
          BY <1>1, Growth
        <4>3. ConfsOf(s) = {Main[s]} \cup Extra[s]
          BY <3>1 DEF ConfsOf, Readers
        <4>4. QED
          BY <1>1, <2>3, <2>5, <3>1, <4>1, <4>2, <4>3, OutcomePassed
      <3>2. CASE s \notin Scatter
        <4>1. ConfsOf(s) = {s}
          BY <3>2 DEF ConfsOf
        <4>2. QED
          BY <1>1, <2>5, <3>2, <4>1, OutcomePassed
      <3>3. QED
        BY <3>1, <3>2
    <2>6. QED
      BY <1>8, <2>4, <2>5 DEF GroupWaitShape
  <1>9. CASE FinishShape(b)
    BY <1>1, <1>9, OutcomeEnded DEF FinishShape
  <1>10. QED
    BY <1>5, <1>6, <1>7, <1>8, <1>9 DEF BookShape

LEMMA OutcomeStep ==
  ASSUME IInv, [Next]_vars PROVE MissInv' /\ \A c \in Books : CleanOf(c)'
  <1>1. /\ TypeOK /\ CollInv /\ StageInv /\ ParseInv /\ CleanParse
        /\ \A c \in Books : MissOf(c) /\ CleanOf(c)
        /\ TypeOK' /\ CollInv' /\ CollStep
    BY BaseStep DEF IInv, BaseInv, CollStep, MissInv, CleanInv
  <1> SUFFICES ASSUME NEW c \in Books PROVE MissOf(c)' /\ CleanOf(c)'
    BY DEF MissInv
  <1>2. CASE LaunchShape
    <2>1. /\ UNCHANGED <<input, idx, bres, exported, ipc>>
          /\ bpc'[c] = bpc[c] \/ bpc'[c] = "open"
      BY <1>1, <1>2 DEF LaunchShape, impVars, TypeOK
    <2>2. QED
      BY <1>1, <2>1, OutcomeStays
  <1>3. CASE WaitShape \/ UNCHANGED vars
    <2>1. UNCHANGED <<input, bpc, idx, bres, exported, ipc>>
      BY <1>3 DEF WaitShape, vars, impVars, bookVars
    <2>2. QED
      BY <1>1, <2>1, OutcomeStays
  <1>4. ASSUME NEW b \in Books, BookShape(b) PROVE MissOf(c)' /\ CleanOf(c)'
    <2>1. CASE c = b
      BY <1>1, <1>4, <2>1, OutcomeBookStep
    <2>2. CASE c # b
      <3>1. /\ input' = input /\ bpc'[c] = bpc[c] /\ idx'[c] = idx[c] /\ bres'[c] = bres[c]
        BY <1>1, <1>4, <2>2, BookStepFrame, BookStepPlace
      <3>2. exported \subseteq exported'
        BY <1>4 DEF BookShape, OpenShape, BeginSheetShape, MainParsedShape, GroupWaitShape,
                    FinishShape, GivenUp
      <3>3. bpc[c] = "group" => idx[c] <= Len(SheetsOf[c])
        BY <1>1 DEF StageInv, StageOf
      <3>4. bpc[c] = "group" => Extra[Current(c)] \subseteq Importers
        BY <1>1, <3>3, CurrentPlace
      <3>5. \A i \in Importers : ipc'[i] = "over" => ipc[i] = "over"
        BY <1>1, <1>4, StartedOnce
      <3>6. QED
        BY <1>1, <3>1, <3>2, <3>4, <3>5, OutcomeStays
    <2>3. QED
      BY <2>1, <2>2
  <1>5. ASSUME NEW i \in Importers, ParseShape(i) PROVE MissOf(c)' /\ CleanOf(c)'
    <2>1. UNCHANGED <<input, bpc, idx, bres, exported>>
      BY <1>5 DEF ParseShape, bookVars
    <2>2. bpc[c] = "group" => idx[c] <= Len(SheetsOf[c])
      BY <1>1 DEF StageInv, StageOf
    <2>3. bpc[c] = "group" => Extra[Current(c)] \subseteq Importers
      BY <1>1, <2>2, CurrentPlace
    <2>4. \A j \in Importers : ipc'[j] = "over" => ipc[j] = "over"
      BY <1>5 DEF ParseShape
    <2>5. QED
      BY <1>1, <2>1, <2>3, <2>4, OutcomeStays
  <1>6. ASSUME NEW i \in Importers, MemberShape(i) PROVE MissOf(c)' /\ CleanOf(c)'
    <2>1. UNCHANGED <<input, bpc, idx, bres>> /\ exported \subseteq exported'
      BY <1>6 DEF MemberShape, bookVars
    <2>2. bpc[c] = "group" => idx[c] <= Len(SheetsOf[c])
      BY <1>1 DEF StageInv, StageOf
    <2>3. ASSUME bpc[c] = "group", Current(c) \in Scatter, NEW j \in Extra[Current(c)], ipc'[j] = "over"
          PROVE  ipc[j] = "over" \/ j \in exported' \/ Bad(c)'
      <3>1. j \in Importers /\ SheetOf(j) = Current(c) /\ BookFor(j) = c
        BY <1>1, <2>2, <2>3, CurrentPlace
      <3>2. CASE j # i
        BY <1>1, <1>6, <2>3, <3>1, <3>2 DEF MemberShape, TypeOK
      <3>3. CASE j = i
        <4>1. \/ count'[c] > 0
              \/ i \in exported'
              \/ ires[i] \notin {"ok", "plain"}
          BY <1>6, <2>3, <3>1, <3>3 DEF MemberShape
        <4>2. ires[i] \notin {"ok", "plain"} => kept[c] > 0
          BY <1>1, <3>1, <3>3 DEF TypeOK, Outcomes, ParseInv, ParseOf
        <4>3. QED
          BY <1>1, <3>3, <4>1, <4>2, Growth, CountedIsBad DEF Bad
      <3>4. QED
        BY <3>2, <3>3
    <2>4. QED
      BY <1>1, <2>1, <2>3, OutcomeStays
  <1>7. QED
    BY <1>1, <1>2, <1>3, <1>4, <1>5, <1>6, StepShapes

\* An importer counts only the failures of its own fields.
LEMMA CountsElsewhere ==
  ASSUME TypeOK, StageInv, [Next]_vars, NEW i \in Importers, left[i] = 0
  PROVE  count'[i] = count[i]
  <1>1. ASSUME NEW n \in {Root} \cup Books \cup {RowOf(j) : j \in Importers \ {i}},
               NEW err, Collect(n, err)
        PROVE  count'[i] = count[i]
    <2>1. i \notin Books /\ i # Root /\ (\A j \in Importers : i # RowOf(j) /\ BookFor(j) # i)
      BY NamesAssumption, ImporterHasSheet
    <2>2. i \notin Path(n) /\ i \in Nodes /\ count[i] \in Nat
      BY <2>1, PathFacts, NodeFacts DEF TypeOK
    <2>3. CASE err = "plain"
      BY <1>1, <2>2, <2>3 DEF Collect
    <2>4. CASE err # "plain"
      BY <1>1, <2>4 DEF Collect
    <2>5. QED
      BY <2>3, <2>4
  <1>2. ASSUME NEW b \in Books, BookStep(b) PROVE count'[i] = count[i]
    <2>1. \/ UNCHANGED collVars
          \/ \E err \in Outcomes \cup {ires[Main[Current(b)]], JoinIfErrors(b)} : Collect(Root, err) \/ Collect(b, err)
      <3>1. CASE Open(b)
        BY <3>1 DEF Open, Return, Outcomes
      <3>2. CASE BeginSheet(b)
        BY <3>2 DEF BeginSheet, Return, FailSheet, Outcomes
      <3>3. CASE MainParsed(b)
        BY <3>3 DEF MainParsed, FailSheet, Outcomes
      <3>4. CASE GroupWait(b)
        BY <3>4 DEF GroupWait, FailSheet, Outcomes
      <3>5. CASE Finish(b)
        BY <3>5 DEF Finish, Return, Outcomes
      <3>6. QED
        BY <1>2, <3>1, <3>2, <3>3, <3>4, <3>5 DEF BookStep
    <2>2. QED
      BY <1>1, <2>1 DEF collVars
  <1>3. ASSUME NEW j \in Importers, ParseStep(j) PROVE count'[i] = count[i]
    <2>1. CASE BeginParse(j) \/ DocumentFull(j) \/ EndFields(j) \/ EndRows(j)
      BY <2>1 DEF BeginParse, DocumentFull, EndFields, EndRows, collVars
    <2>2. CASE BeginRow(j)
      <3>1. count' = count \/ count' = [count EXCEPT ![RowOf(j)] = 0]
        BY <2>2 DEF BeginRow, collVars
      <3>2. RowOf(j) # i /\ i \in Nodes
        BY NamesAssumption, NodeFacts
      <3>3. QED
        BY <3>1, <3>2 DEF TypeOK
    <2>3. CASE FieldError(j)
      <3>1. j # i /\ Collect(RowOf(j), "plain")
        BY <2>3 DEF FieldError
      <3>2. QED
        BY <1>1, <3>1
    <2>4. CASE MemberDone(j)
      <3>1. BookOf(SheetOf(j)) \in Books
        BY ImporterHasSheet DEF BookFor
      <3>2. QED
        BY <1>1, <2>4, <3>1 DEF MemberDone, collVars
    <2>5. QED
      BY <1>3, <2>1, <2>2, <2>3, <2>4 DEF ParseStep
  <1>4. CASE Launch \/ WaitAll \/ UNCHANGED vars
    BY <1>4 DEF Launch, WaitAll, vars, collVars
  <1>5. QED
    BY <1>2, <1>3, <1>4 DEF Next

LEMMA CleanParseStep ==
  ASSUME IInv, [Next]_vars PROVE CleanParse'
  <1>1. /\ TypeOK /\ CollInv /\ StageInv /\ ParseInv /\ CleanParse /\ TypeOK' /\ CollInv'
    BY BaseStep DEF IInv, BaseInv, CollStep, CleanInv
  <1> SUFFICES ASSUME NEW i \in Importers, CleanImporter(i)'
               PROVE  count'[i] = 0 /\ left'[i] = 0 /\ ires'[i] = "ok"
    BY DEF CleanParse
  <1>2. input' = input
    BY <1>1, StepShapes DEF LaunchShape, WaitShape, BookShape, BookFrame, ParseShape, MemberShape, vars
  <1>3. CleanImporter(i) /\ count[i] = 0 /\ left[i] = 0 /\ ires[i] = "ok"
    BY <1>1, <1>2 DEF CleanParse, CleanImporter
  <1>4. count'[i] = 0
    BY <1>1, <1>3, CountsElsewhere
  <1>5. kept[i] = 0 /\ kept[RowOf(i)] = 0 /\ count[RowOf(i)] = 0
    <2>1. i \in Nodes /\ RowOf(i) \in Nodes
      BY NodeFacts
    <2>2. /\ kept[i] \in Nat /\ kept[RowOf(i)] \in Nat /\ count[RowOf(i)] \in Nat
          /\ kept[i] <= count[i] /\ kept[RowOf(i)] <= count[RowOf(i)] /\ count[RowOf(i)] <= count[i]
      BY <1>1, <2>1 DEF TypeOK, CollInv
    <2>3. QED
      BY <1>3, <2>2
  <1>6. Join(kept, i) = "ok" /\ JoinIfErrors(i) = "ok" /\ JoinIfErrors(RowOf(i)) = "ok"
    BY <1>5 DEF Join, JoinIfErrors
  <1>7. CASE LaunchShape \/ WaitShape \/ UNCHANGED vars \/ \E b \in Books : BookShape(b)
    <2>1. left' = left /\ ires' = ires
      BY <1>7 DEF LaunchShape, WaitShape, vars, BookShape, BookFrame, impVars
    <2>2. QED
      BY <1>3, <1>4, <2>1
  <1>8. ASSUME NEW j \in Importers, MemberShape(j) PROVE left'[i] = 0 /\ ires'[i] = "ok"
    <2>1. left' = left
      BY <1>8 DEF MemberShape
    <2>2. \/ ires' = ires
          \/ Fails("store", j) /\ ires' = [ires EXCEPT ![j] = "plain"]
      BY <1>8 DEF MemberShape
    <2>3. ~Fails("store", i)
      <3>1. <<"store", i>>[2] = i
        OBVIOUS
      <3>2. QED
        BY <1>3, <3>1 DEF CleanImporter, Fails
    <2>4. QED
      BY <1>1, <1>3, <2>1, <2>2, <2>3 DEF TypeOK
  <1>9. ASSUME NEW j \in Importers, ParseShape(j), ParseAlone(j) PROVE left'[i] = 0 /\ ires'[i] = "ok"
    <2>1. CASE j # i
      BY <1>3, <1>9, <2>1 DEF ParseShape
    <2>2. CASE j = i
      <3>1. CASE BeginParse(i)
        <4>1. ~Fails("sheet", i)
          <5>1. <<"sheet", i>>[2] = i
            OBVIOUS
          <5>2. QED
            BY <1>3, <5>1 DEF CleanImporter, Fails
        <4>2. QED
          BY <1>3, <3>1, <4>1 DEF BeginParse
      <3>2. CASE BeginRow(i)
        <4>1. input.errs[i][row[i]] = 0
          <5>1. row[i] \in DOMAIN input.errs[i]
            BY <1>1, <3>2, InputFacts DEF BeginRow, TypeOK
          <5>2. QED
            BY <1>3, <5>1 DEF CleanImporter
        <4>2. QED
          BY <1>1, <1>3, <1>6, <3>2, <4>1 DEF BeginRow, NextRow, TypeOK
      <3>3. CASE EndFields(i)
        <4>1. left' = left /\ EndRow(i, "ok")
          BY <1>6, <3>3 DEF EndFields
        <4>2. ires' = ires
          BY <4>1 DEF EndRow, NextRow
        <4>3. QED
          BY <1>3, <4>1, <4>2
      <3>4. CASE EndRows(i)
        BY <1>1, <1>3, <1>6, <3>4 DEF EndRows, Parsed, TypeOK
      <3>5. ~FieldError(i) /\ ~DocumentFull(i)
        BY <1>3 DEF FieldError, DocumentFull
      <3>6. QED
        BY <1>9, <2>2, <3>1, <3>2, <3>3, <3>4, <3>5 DEF ParseAlone
    <2>3. QED
      BY <2>1, <2>2
  <1>10. QED
    BY <1>1, <1>4, <1>7, <1>8, <1>9, StepShapes

\* After a success nothing runs.
LEMMA DoneStep ==
  ASSUME IInv, [Next]_vars PROVE DoneInv'
  <1>1. /\ TypeOK /\ CollInv /\ StageInv /\ DoneInv /\ TypeOK' /\ CollInv'
    BY BaseStep DEF IInv, BaseInv, CollStep
  <1>2. CASE LaunchShape
    BY <1>2 DEF LaunchShape, DoneInv
  <1>3. CASE WaitShape
    <2>1. result' = "ok" => ~(count[Root] > 0 /\ kept[Root] > 0)
      BY <1>3 DEF WaitShape, JoinIfErrors, HasErrors, Join
    <2>2. result' = "ok" => count[Root] = 0
      BY <1>1, <2>1, NodeFacts DEF CollInv, TypeOK
    <2>3. QED
      BY <1>3, <2>2 DEF WaitShape, DoneInv, bookVars, collVars
  <1>4. ASSUME NEW b \in Books, BookShape(b) PROVE DoneInv'
    BY <1>1, <1>4, BookStepFrame, BookStepPlace DEF DoneInv
  <1>5. ASSUME NEW i \in Importers, ParseShape(i) PROVE DoneInv'
    <2>1. \E k \in DOMAIN SheetsOf[BookFor(i)] : SheetsOf[BookFor(i)][k] = SheetOf(i)
      BY ImporterHasSheet, SheetHasBook DEF BookFor
    <2>2. bpc[BookFor(i)] \in {"main", "group"} /\ BookFor(i) \in Books
      BY <1>1, <1>5, <2>1, ImporterHasSheet DEF ParseShape, StageInv, StageOf
    <2>3. QED
      BY <1>1, <1>5, <2>2 DEF ParseShape, DoneInv
  <1>6. ASSUME NEW i \in Importers, MemberShape(i) PROVE DoneInv'
    BY <1>1, <1>6, ImporterHasSheet DEF MemberShape, InGroup, DoneInv
  <1>7. CASE UNCHANGED vars
    BY <1>1, <1>7 DEF vars, DoneInv
  <1>8. QED
    BY <1>1, <1>2, <1>3, <1>4, <1>5, <1>6, <1>7, StepShapes

LEMMA IInvStep == IInv /\ [Next]_vars => IInv'
  <1> SUFFICES ASSUME IInv, [Next]_vars PROVE IInv'
    OBVIOUS
  <1>1. BaseInv'
    BY BaseStep DEF IInv, BaseInv, CollStep
  <1>2. MissInv' /\ CleanInv'
    BY OutcomeStep, CleanParseStep DEF CleanInv
  <1>3. QED
    BY <1>1, <1>2, LaunchStep, StageStep, ParseInvStep, ExportStep, DoneStep DEF IInv

LEMMA Invariance == Spec => []IInv
  BY InitIInv, IInvStep, PTL DEF Spec
-----------------------------------------------------------------------------
(* What the report of a run says, for every value of the constants.         *)

\* Every variable keeps its type: no goroutine is in a state it has no code for,
\* no counter of the collectors of confgen.go is negative.
THEOREM TypeCorrect == Spec => []TypeOK
  <1>1. IInv => TypeOK
    BY DEF IInv, BaseInv
  <1>2. QED
    BY <1>1, Invariance, PTL

\* Only what a full collector swallowed can taint an exported conf: with room in
\* the workbook's and the generator's budgets, a conf that is written was read
\* completely and without an error (the parsers' IsFull tests and Group.Go).
LEMMA TaintsAreFull == IInv => TaintedOnlyWhenFull
  <1> SUFFICES ASSUME IInv, NEW conf \in exported, Tainted(conf) PROVE IsFull(count, BookOfConf(conf))
    BY DEF TaintedOnlyWhenFull
  <1>1. TypeOK /\ ParseInv /\ ExportOf(conf)
    BY DEF IInv, BaseInv, ExportInv
  <1>2. PICK i \in Contents(conf) : i \in lost \/ ires[i] # "ok"
    BY DEF Tainted
  <1>3. CASE conf \in Sheets \ Scatter
    <2>1. conf \notin Importers
      BY <1>3, NamesAssumption
    <2>2. i \in Readers(conf) /\ i \in Importers /\ BookFor(i) = BookOf(conf) /\ BookOf(conf) \in Books
      BY <1>2, <1>3, ImporterPlace, SheetHasBook DEF Contents, BookFor
    <2>3. ipc[i] \in {"parsed", "over"} /\ (ires[i] = "ok" \/ Full(BookFor(i)))
      BY <1>1, <2>1, <2>2 DEF ExportOf
    <2>4. Full(BookOf(conf))
      BY <1>1, <1>2, <2>2, <2>3 DEF ParseInv, ParseOf
    <2>5. QED
      BY <1>3, <2>2, <2>4, FullFacts DEF BookOfConf
  <1>4. CASE conf \notin Sheets \ Scatter
    <2>1. /\ conf \in Importers /\ ires[conf] = "ok" /\ ipc[conf] \in {"over", "parsed"}
      BY <1>1, <1>4 DEF ExportOf
    <2>2. conf \notin Sheets /\ i = conf
      BY <1>2, <2>1, NamesAssumption DEF Contents
    <2>3. Full(BookFor(conf)) /\ BookFor(conf) \in Books
      BY <1>1, <1>2, <2>1, <2>2, ImporterHasSheet DEF ParseInv, ParseOf
    <2>4. QED
      BY <2>2, <2>3, FullFacts DEF BookOfConf, BookFor
  <1>5. QED
    BY <1>3, <1>4

\* parser.go, ScatterAndExport and MergeAndExport: in every interleaving of the
\* workbooks and the groups of their sheets, a conf is made from data that had an
\* error or was skipped only when the workbook's collector or the root's is full.
THEOREM TaintedConfs == Spec => []TaintedOnlyWhenFull
  BY TaintsAreFull, Invariance, PTL

\* No conf goes missing silently: when the run is over, a conf that was not
\* written is accounted for by a stored error of its workbook, by the error the
\* workbook returned to the generator, or by the generator's exhausted budget.
LEMMA MissesAreReported == IInv => MissingIsReported
  <1> SUFFICES ASSUME IInv, Done, NEW b \in Launched, NEW s \in SheetsIn(b),
                      NEW conf \in ConfsOf(s), conf \notin exported
               PROVE  kept[b] > 0 \/ (bres[b] = "plain" /\ kept[Root] > 0) \/ IsFull(count, Root)
    BY DEF MissingIsReported
  <1>1. b \in Books /\ bpc[b] = "over" /\ MissOf(b) /\ TypeOK
    BY DEF Launched, Done, IInv, BaseInv, MissInv
  <1>2. PICK k \in DOMAIN SheetsOf[b] : SheetsOf[b][k] = s
    BY DEF SheetsIn
  <1>3. k < idx[b] \/ idx[b] <= Len(SheetsOf[b])
    BY <1>1, PlaceFacts DEF TypeOK
  <1>4. Bad(b) \/ (bres[b] = "plain" /\ kept[Root] > 0)
    BY <1>1, <1>2, <1>3 DEF MissOf
  <1>5. QED
    BY <1>4, FullFacts DEF Bad

\* confgen.go, GenAll and GenWorkbook: no conf goes missing silently. When the
\* generator returns, the workbook of one that was not exported has an error in the
\* report or gave one to the generator, or the generator's budget is used up.
THEOREM NothingMissesSilently == Spec => []MissingIsReported
  BY MissesAreReported, Invariance, PTL

\* A run that returns nil has exported every conf of every workbook it was asked
\* for, from data that was read completely and without an error (GenAll and
\* GenWorkbook of confgen.go).
LEMMA SuccessIsComplete == IInv => SuccessMeansComplete
  <1> SUFFICES ASSUME IInv, gen = "done", result = "ok", NEW b \in Launched,
                      NEW s \in SheetsIn(b), NEW conf \in ConfsOf(s)
               PROVE  conf \in exported /\ ~Tainted(conf)
    BY DEF SuccessMeansComplete
  <1>1. TypeOK /\ CollInv /\ MissingIsReported /\ TaintedOnlyWhenFull
    BY MissesAreReported, TaintsAreFull DEF IInv, BaseInv
  <1>2. count[Root] = 0 /\ \A c \in Books : bpc[c] \in {"off", "over"}
    BY DEF IInv, DoneInv
  <1>3. b \in Books /\ Done
    BY <1>2 DEF Launched, Done
  <1>4. \A c \in Books : count[c] = 0 /\ kept[c] = 0
    BY <1>1, <1>2, NodeFacts DEF CollInv, TypeOK
  <1>5. kept[Root] = 0
    BY <1>1, <1>2, NodeFacts DEF CollInv, TypeOK
  <1>6. ~IsFull(count, Root) /\ \A c \in Books : ~IsFull(count, c)
    BY <1>2, <1>4, FullFacts, LimitFacts DEF Full
  <1>7. conf \in exported
    BY <1>1, <1>3, <1>4, <1>5, <1>6 DEF MissingIsReported
  <1>8. BookOfConf(conf) \in Books
    <2>1. conf \in Sheets \cup Importers
      BY <1>1, <1>7 DEF TypeOK
    <2>2. QED
      BY <2>1, SheetHasBook, ImporterHasSheet DEF BookOfConf
  <1>9. QED
    BY <1>1, <1>6, <1>7, <1>8 DEF TaintedOnlyWhenFull

\* confgen.go, GenAll and GenWorkbook: when the generator reports success, every conf
\* of every workbook it was asked for was exported, from data read without an error.
THEOREM SuccessComplete == Spec => []SuccessMeansComplete
  BY SuccessIsComplete, Invariance, PTL

\* The errors of one sheet do not keep a clean sheet with one importer from being
\* exported, unless a budget is used up or the workbook could not be converted:
\* convert goes on after an error of a sheet.
LEMMA CleansAreExported == IInv => CleanSheetsExported
  <1> SUFFICES ASSUME IInv, Done, NEW b \in Launched, NEW s \in SheetsIn(b), Clean(s), Extra[s] = {},
                      s \notin exported, Main[s] \notin exported
               PROVE  IsFull(count, b) \/ bres[b] = "plain"
    BY DEF CleanSheetsExported
  <1>1. b \in Books /\ bpc[b] = "over" /\ CleanOf(b) /\ TypeOK
    BY DEF Launched, Done, IInv, BaseInv, CleanInv
  <1>2. PICK k \in DOMAIN SheetsOf[b] : SheetsOf[b][k] = s
    BY DEF SheetsIn
  <1>3. ~(k < idx[b])
    BY <1>1, <1>2 DEF CleanOf
  <1>4. idx[b] <= Len(SheetsOf[b])
    BY <1>1, <1>3, PlaceFacts DEF TypeOK
  <1>5. QED
    BY <1>1, <1>4, FullFacts DEF CleanOf

\* confgen.go, convert: a sheet with one importer and nothing wrong in it is exported
\* whatever fails beside it, unless a budget is used up or its workbook could not be
\* converted at all.
THEOREM CleanSheets == Spec => []CleanSheetsExported
  BY CleansAreExported, Invariance, PTL
=============================================================================

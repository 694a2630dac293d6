------------------------- MODULE TableParserProofs --------------------------
(***************************************************************************)
(* Theorems of TableParser, for any options, rows and number of rows.      *)
(*                                                                         *)
(* StepKinds sorts the steps: one that leaves the records alone, one that  *)
(* merges a row into a record, one that adds a record. The invariants      *)
(* follow by these three cases: KeysInv, SequenceInv and TagsInv are       *)
(* inductive with TypeOK.                                                  *)
(***************************************************************************)
EXTENDS TableParser, SequenceTheorems, WellFoundedInduction, TLAPS

\* A row says something that is merged into record n of the same key.
Merges(r, n) ==
  /\ Keyed /\ MayRepeat
  /\ records[n].key = Key(r)
  /\ records' = [records EXCEPT ![n] = RecordAfter(@, r)]
  /\ cards' = cards
  /\ bad' \/ RecordOk(records[n], r)

\* A row makes a new record.
Adds(r) ==
  /\ Keyed => ~Has(Key(r)) /\ KeyInSequence(r, FALSE)
  /\ RecordOk(NewRecord, r) /\ TagOk(RecordAfter(NewRecord, r))
  /\ records' = Append(records, RecordAfter(NewRecord, r))
  /\ cards' = CardsWith(RecordAfter(NewRecord, r))

\* A row is an error, or there is nothing in it.
Passes(r) ==
  /\ records' = records /\ cards' = cards
  /\ bad' \/ (RecordOk(NewRecord, r) /\ ~RecordPresent(NewRecord, r))

-----------------------------------------------------------------------------
(***************************************************************************)
(* Rows and the lists and maps in them.                                    *)
(***************************************************************************)
LEMMA RowType ==
  ASSUME opts \in Options, NEW r \in RowsOf(opts)
  PROVE  OptionsOK(opts) /\ RowOK(opts, r)
BY OptionsAssumption

LEMMA ElemType ==
  ASSUME NEW items \in Seq(Items), NEW i \in 1..Len(items)
  PROVE  items[i] \in Items /\ ElemOf(items[i]) \in Elems
<1>1. items[i] \in Items
  BY ElementOfSeq
<1> QED
  BY <1>1 DEF ElemOf, ValueOf, Items, Elems, Cells

\* The first absent item, or the end: what RowList chooses exists.
LEMMA FirstAbsent ==
  ASSUME NEW items \in Seq(Items)
  PROVE  \E k \in 0..Len(items) : /\ \A i \in 1..k : Present(items[i])
                                  /\ k < Len(items) => ~Present(items[k + 1])
<1> DEFINE n == Len(items)
           Ends == {k \in 0..n : k < n => ~Present(items[k + 1])}
<1>1. n \in Nat
  BY LenProperties
<1>2. Ends \subseteq Nat /\ n \in Ends
  BY <1>1
<1>3. \E k \in Ends : \A j \in Ends : ~(<<j, k>> \in OpToRel(<, Nat))
  BY <1>2, NatLessThanWellFounded, WFMin
<1>4. PICK k \in Ends : \A j \in Ends : ~(j < k)
  BY <1>2, <1>3 DEF OpToRel
<1>5. \A i \in 1..k : Present(items[i])
  <2>1. SUFFICES ASSUME NEW i \in 1..k, ~Present(items[i])
                 PROVE  FALSE
    OBVIOUS
  <2>2. i - 1 \in Ends /\ i - 1 < k
    BY <1>1, <2>1
  <2> QED
    BY <1>4, <2>2
<1> QED
  BY <1>4, <1>5

LEMMA RowListType ==
  ASSUME NEW items \in Seq(Items)
  PROVE  RowList(Unsized, items) \in Seq(Elems)
<1> DEFINE n == Len(items)
           m == CHOOSE k \in 0..n : /\ \A i \in 1..k : Present(items[i])
                                    /\ k < n => ~Present(items[k + 1])
<1>1. m \in 0..n /\ n \in Nat
  BY FirstAbsent, LenProperties
<1>2. RowList(Unsized, items) = [i \in 1..m |-> IF i <= n THEN ElemOf(items[i]) ELSE Blank]
  BY DEF RowList, Unsized, IsFixed
<1>3. \A i \in 1..m : (IF i <= n THEN ElemOf(items[i]) ELSE Blank) \in Elems
  BY <1>1, ElemType
<1> HIDE DEF m, n
<1> QED
  BY <1>1, <1>2, <1>3

LEMMA ReadMapType ==
  ASSUME NEW items \in Seq(Items)
  PROVE  ReadMap(Unsized, items) \subseteq Elems
<1>1. Entries(Unsized, items) \subseteq 1..Len(items)
  BY LenProperties DEF Entries, Width, GetSize, Unsized
<1> QED
  BY <1>1, ElemType DEF ReadMap, MapOf
-----------------------------------------------------------------------------
(***************************************************************************)
(* The types of a record.                                                  *)
(***************************************************************************)
LEMMA MergedType ==
  ASSUME NEW old \in Nat, NEW cell \in Cells
  PROVE  Merged(old, cell) \in Nat
BY DEF Merged, ValueOf, Cells

LEMMA GivenType ==
  ASSUME opts \in Options, NEW r \in RowsOf(opts)
  PROVE  IF opts.sub \in {"map", "horizontalMap"}
         THEN Given(r.items) \subseteq Elems ELSE Given(r.items) \in Seq(Elems)
<1>1. RowOK(opts, r) /\ opts.sub \in Subs
  BY RowType DEF OptionsOK
<1>2. r.items \in Seq(Items)
  BY <1>1 DEF RowOK
<1>3. CASE opts.sub = "none"
  BY <1>3, EmptySeq DEF Given
<1>4. CASE opts.sub = "list"
  <2>1. ElemOf(r.items[1]) \in Elems
    BY <1>1, <1>2, <1>4, ElemType DEF RowOK
  <2>2. <<ElemOf(r.items[1])>> \in Seq(Elems) /\ <<>> \in Seq(Elems)
    BY <2>1
  <2> QED
    BY <1>4, <2>2 DEF Given
<1>5. CASE opts.sub = "map"
  <2>1. ElemOf(r.items[1]) \in Elems
    BY <1>1, <1>2, <1>5, ElemType DEF RowOK
  <2> QED
    BY <1>5, <2>1 DEF Given
<1>6. CASE opts.sub = "horizontalList"
  BY <1>2, <1>6, RowListType DEF Given
<1>7. CASE opts.sub = "horizontalMap"
  BY <1>2, <1>7, ReadMapType DEF Given
<1> QED
  BY <1>1, <1>3, <1>4, <1>5, <1>6, <1>7 DEF Subs

LEMMA RecordAfterType ==
  ASSUME opts \in Options, NEW r \in RowsOf(opts), NEW rec \in RecordSet
  PROVE  RecordAfter(rec, r) \in RecordSet
<1>1. RowOK(opts, r)
  BY RowType
<1>2. /\ rec.key \in Nat /\ rec.val \in Nat /\ rec.tag \in Nat
      /\ IF opts.sub \in {"map", "horizontalMap"}
         THEN rec.sub \subseteq Elems ELSE rec.sub \in Seq(Elems)
  BY DEF RecordSet
<1>3. IF opts.sub \in {"map", "horizontalMap"}
      THEN SubAfter(rec.sub, r.items) \subseteq Elems
      ELSE SubAfter(rec.sub, r.items) \in Seq(Elems)
  <2>1. CASE ~SubOk(rec.sub, r.items)
    BY <1>2, <2>1 DEF SubAfter
  <2>2. CASE SubOk(rec.sub, r.items) /\ opts.sub \in {"map", "horizontalMap"}
    BY <1>2, <2>2, GivenType DEF SubAfter
  <2>3. CASE SubOk(rec.sub, r.items) /\ opts.sub \notin {"map", "horizontalMap"}
    <3>1. rec.sub \in Seq(Elems) /\ Given(r.items) \in Seq(Elems)
      BY <1>2, <2>3, GivenType
    <3>2. rec.sub \o Given(r.items) \in Seq(Elems)
      BY <3>1, ConcatProperties
    <3>3. opts.sub \in {"none", "list", "horizontalList"}
      BY <2>3, RowType DEF OptionsOK, Subs
    <3> QED
      BY <3>1, <3>2, <3>3 DEF SubAfter
  <2> QED
    BY <2>1, <2>2, <2>3
<1>4. /\ Merged(rec.key, r.key) \in Nat /\ Merged(rec.val, r.val) \in Nat
      /\ Merged(rec.tag, r.tag) \in Nat
  BY <1>1, <1>2, MergedType DEF RowOK
<1> QED
  BY <1>3, <1>4 DEF RecordAfter, RecordSet

LEMMA NewRecordType ==
  ASSUME opts \in Options
  PROVE  NewRecord \in RecordSet
<1>1. {} \subseteq Elems /\ <<>> \in Seq(Elems)
  BY EmptySeq
<1>2. CASE opts.sub \in {"map", "horizontalMap"}
  BY <1>1, <1>2 DEF NewRecord, NoSub, RecordSet
<1>3. CASE opts.sub \notin {"map", "horizontalMap"}
  BY <1>1, <1>3 DEF NewRecord, NoSub, RecordSet
<1> QED
  BY <1>2, <1>3

LEMMA CardsWithType ==
  ASSUME TypeOK, NEW rec \in RecordSet
  PROVE  CardsWith(rec) \in [values : SUBSET Nat, count : Nat, last : Nat \cup {None}]
<1>1. rec.tag \in Nat
  BY DEF RecordSet
<1>2. opts.tag \in {"plain", "unique", "sequence"} \cup Orders
  BY OptionsAssumption DEF TypeOK, OptionsOK
<1>3. CASE opts.tag \in Orders
  <2>1. opts.tag \notin {"plain", "unique", "sequence"}
    BY <1>3 DEF Orders
  <2>2. CardsWith(rec) = [cards EXCEPT !.last = rec.tag]
    BY <1>3, <2>1 DEF CardsWith
  <2> QED
    BY <1>1, <2>2 DEF TypeOK
<1>4. CASE opts.tag \in {"plain", "unique", "sequence"}
  BY <1>1, <1>4 DEF TypeOK, CardsWith, Orders
<1> QED
  BY <1>2, <1>3, <1>4

-----------------------------------------------------------------------------
(***************************************************************************)
(* The three kinds of steps.                                               *)
(***************************************************************************)
\* What checkKeyUnique decides is what the options say.
LEMMA KeyMayRepeat ==
  ASSUME opts \in Options, ~KeyIsUnique
  PROVE  MayRepeat
<1>1. opts.uniqueKey \in {TRUE, FALSE, None} /\ opts.sub \in Subs
  BY OptionsAssumption DEF OptionsOK
<1>2. CASE opts.uniqueKey = None
  BY <1>2 DEF KeyIsUnique, MayRepeat
<1>3. CASE opts.uniqueKey # None
  <2>1. ~opts.uniqueKey
    BY <1>3 DEF KeyIsUnique
  <2> QED
    BY <1>1, <1>3, <2>1 DEF MayRepeat
<1> QED
  BY <1>2, <1>3

LEMMA AddKind ==
  ASSUME TypeOK, NEW r \in RowsOf(opts), Add(r),
         Keyed => ~Has(Key(r)) /\ KeyInSequence(r, FALSE)
  PROVE  Passes(r) \/ Adds(r)
BY DEF Add, Adds, Passes, Reject, Ignore, Collect

LEMMA RepeatKind ==
  ASSUME TypeOK, Keyed, NEW r \in RowsOf(opts), NEW n \in 1..Len(records),
         records[n].key = Key(r), Repeat(r, n)
  PROVE  Passes(r) \/ Merges(r, n)
<1>1. CASE Reject
  BY <1>1 DEF Reject, Passes, Collect
<1>2. CASE ~KeyIsUnique /\ Merge(r, n)
  <2>1. MayRepeat
    BY <1>2, KeyMayRepeat DEF TypeOK
  <2> QED
    BY <1>2, <2>1 DEF Merge, Merges, Collect
<1> QED
  BY <1>1, <1>2 DEF Repeat

LEMMA RowKinds ==
  ASSUME TypeOK, [Next]_vars
  PROVE  /\ opts' = opts
         /\ \/ read' = read /\ bad' = bad /\ records' = records /\ cards' = cards
            \/ \E r \in RowsOf(opts) :
                 /\ read' = Append(read, r)
                 /\ \/ Passes(r) \/ Adds(r)
                    \/ \E n \in 1..Len(records) : Merges(r, n)
<1>1. CASE VerticalMapRow
  <2>1. PICK r \in RowsOf(opts) :
          /\ opts.layout = "map" /\ Read(r)
          /\ \/ /\ r.key = Empty /\ Has(0)
                /\ IF RecordOk(NewRecord, r) /\ ~RecordPresent(NewRecord, r)
                   THEN Ignore ELSE Reject
             \/ ~Has(Key(r)) /\ First(r)
             \/ \E n \in 1..Len(records) :
                  r.key # Empty /\ records[n].key = Key(r) /\ Repeat(r, n)
    BY <1>1 DEF VerticalMapRow
  <2>2. opts' = opts /\ Keyed /\ read' = Append(read, r)
    BY <2>1 DEF Read, Keyed
  <2>3. CASE IF RecordOk(NewRecord, r) /\ ~RecordPresent(NewRecord, r) THEN Ignore ELSE Reject
    BY <2>2, <2>3 DEF Ignore, Reject, Collect, Passes
  <2>4. CASE ~Has(Key(r)) /\ First(r)
    <3>1. CASE Reject
      BY <2>2, <3>1 DEF Reject, Collect, Passes
    <3>2. CASE KeyInSequence(r, FALSE) /\ Add(r)
      BY <2>2, <2>4, <3>2, AddKind
    <3> QED
      BY <2>4, <3>1, <3>2 DEF First
  <2>5. ASSUME NEW n \in 1..Len(records), records[n].key = Key(r), Repeat(r, n)
        PROVE  Passes(r) \/ Merges(r, n)
    BY <2>2, <2>5, RepeatKind
  <2> QED
    BY <2>1, <2>2, <2>3, <2>4, <2>5
<1>2. CASE KeyedListRow
  <2>1. PICK r \in RowsOf(opts) :
          /\ opts.layout = "keyedList" /\ Read(r)
          /\ \/ ~Has(Key(r)) /\ First(r)
             \/ \E n \in 1..Len(records) : records[n].key = Key(r) /\ Repeat(r, n)
    BY <1>2 DEF KeyedListRow
  <2>2. opts' = opts /\ Keyed /\ read' = Append(read, r)
    BY <2>1 DEF Read, Keyed
  <2>3. CASE ~Has(Key(r)) /\ First(r)
    <3>1. CASE Reject
      BY <2>2, <3>1 DEF Reject, Collect, Passes
    <3>2. CASE KeyInSequence(r, FALSE) /\ Add(r)
      BY <2>2, <2>3, <3>2, AddKind
    <3> QED
      BY <2>3, <3>1, <3>2 DEF First
  <2>4. ASSUME NEW n \in 1..Len(records), records[n].key = Key(r), Repeat(r, n)
        PROVE  Passes(r) \/ Merges(r, n)
    BY <2>2, <2>4, RepeatKind
  <2> QED
    BY <2>1, <2>2, <2>3, <2>4
<1>3. CASE ListRow
  <2>1. PICK r \in RowsOf(opts) : opts.layout = "list" /\ Read(r) /\ Add(r)
    BY <1>3 DEF ListRow
  <2>2. opts' = opts /\ ~Keyed /\ read' = Append(read, r)
    BY <2>1 DEF Read, Keyed
  <2> QED
    BY <2>1, <2>2, AddKind
<1>4. CASE EndOfRows
  BY <1>4 DEF EndOfRows
<1>5. CASE UNCHANGED vars
  BY <1>5 DEF vars
<1> QED
  BY <1>1, <1>2, <1>3, <1>4, <1>5 DEF Next
LEMMA StepKinds ==
  ASSUME TypeOK, [Next]_vars
  PROVE  /\ opts' = opts
         /\ \/ records' = records /\ cards' = cards
            \/ \E r \in RowsOf(opts) :
                 \/ Adds(r)
                 \/ \E n \in 1..Len(records) : Merges(r, n)
BY RowKinds DEF Passes
-----------------------------------------------------------------------------
(***************************************************************************)
(* What the two kinds of changes do to the records.                        *)
(***************************************************************************)
LEMMA RecordType ==
  ASSUME TypeOK, NEW n \in 1..Len(records)
  PROVE  records[n] \in RecordSet /\ records[n].key \in Nat /\ records[n].tag \in Nat
<1>1. records[n] \in RecordSet
  BY ElementOfSeq DEF TypeOK
<1> QED
  BY <1>1 DEF RecordSet

LEMMA AddedRecord ==
  ASSUME TypeOK, NEW r \in RowsOf(opts), Adds(r)
  PROVE  LET rec == RecordAfter(NewRecord, r) IN
         /\ rec \in RecordSet /\ rec.key = Key(r) /\ rec.tag \in Nat
         /\ Len(records) \in Nat
         /\ Len(records') = Len(records) + 1
         /\ records'[Len(records) + 1] = rec
         /\ \A n \in 1..Len(records) : records'[n] = records[n]
<1> DEFINE rec == RecordAfter(NewRecord, r)
<1>1. rec \in RecordSet
  BY NewRecordType, RecordAfterType DEF TypeOK
<1>2. rec.key = Key(r)
  BY DEF RecordAfter, NewRecord, Merged, Key
<1>3. rec.tag \in Nat
  BY <1>1 DEF RecordSet
<1>4. records \in Seq(RecordSet) /\ records' = Append(records, rec)
  BY DEF TypeOK, Adds
<1>5. /\ Len(records) \in Nat
      /\ Len(records') = Len(records) + 1
      /\ records'[Len(records) + 1] = rec
      /\ \A n \in 1..Len(records) : records'[n] = records[n]
  <2> HIDE DEF rec
  <2> QED
    BY <1>1, <1>4
<1> QED
  BY <1>1, <1>2, <1>3, <1>5

LEMMA MergedRecord ==
  ASSUME TypeOK, NEW r \in RowsOf(opts), NEW n \in 1..Len(records), Merges(r, n)
  PROVE  /\ Len(records') = Len(records)
         /\ records'[n] = RecordAfter(records[n], r)
         /\ records'[n] \in RecordSet
         /\ records'[n].key = records[n].key
         /\ \A m \in 1..Len(records) : m # n => records'[m] = records[m]
<1>1. records[n] \in RecordSet /\ records[n].key \in Nat
  BY RecordType
<1>2. RecordAfter(records[n], r) \in RecordSet
  BY <1>1, RecordAfterType DEF TypeOK
<1>3. RecordAfter(records[n], r).key = records[n].key
  BY <1>1 DEF Merges, RecordAfter, Merged, Key
<1>4. /\ Len(records') = Len(records)
      /\ records'[n] = RecordAfter(records[n], r)
      /\ \A m \in 1..Len(records) : m # n => records'[m] = records[m]
  <2>1. records \in Seq(RecordSet)
    BY DEF TypeOK
  <2>2. records' = [records EXCEPT ![n] = RecordAfter(records[n], r)]
    BY DEF Merges
  <2> QED
    BY <1>2, <2>1, <2>2, ExceptSeq
<1> QED
  BY <1>2, <1>3, <1>4

-----------------------------------------------------------------------------
(***************************************************************************)
(* Types.                                                                  *)
(***************************************************************************)
LEMMA InitType == Init => TypeOK
<1> SUFFICES ASSUME Init PROVE TypeOK
  OBVIOUS
<1>1. <<>> \in Seq(RowsOf(opts)) /\ <<>> \in Seq(RecordSet) /\ Len(<<>>) = 0
  BY EmptySeq
<1>2. NoCard \in [values : SUBSET Nat, count : Nat, last : Nat \cup {None}]
  BY DEF NoCard
<1>3. opts \in Options /\ bad \in BOOLEAN /\ outcome = "parsing"
  BY DEF Init
<1>4. read \in Seq(RowsOf(opts)) /\ Len(read) <= MaxRows
  BY <1>1, MaxRowsAssumption DEF Init
<1>5. records \in Seq(RecordSet) /\ cards = NoCard
  BY <1>1 DEF Init
<1> QED
  BY <1>2, <1>3, <1>4, <1>5 DEF TypeOK

\* What a step reads, and the outcomes it may have.
LEMMA ReadStep ==
  ASSUME TypeOK, [Next]_vars
  PROVE  /\ read' \in Seq(RowsOf(opts)) /\ Len(read') <= MaxRows
         /\ bad' \in BOOLEAN /\ outcome' \in {"parsing", "parsed", "failed"}
<1>1. ASSUME NEW r \in RowsOf(opts), Read(r)
      PROVE  read' \in Seq(RowsOf(opts)) /\ Len(read') <= MaxRows
  <2>1. read \in Seq(RowsOf(opts)) /\ Len(read) \in Nat
    BY LenProperties DEF TypeOK
  <2>2. read' = Append(read, r) /\ Len(read) < MaxRows
    BY <1>1 DEF Read
  <2>3. read' \in Seq(RowsOf(opts)) /\ Len(read') = Len(read) + 1
    BY <2>1, <2>2
  <2> QED
    BY <2>1, <2>2, <2>3, MaxRowsAssumption
<1>2. ASSUME Collect \/ Parsed
      PROVE  bad' \in BOOLEAN /\ outcome' \in {"parsing", "parsed", "failed"}
  BY <1>2 DEF TypeOK, Collect, Parsed
<1>3. ASSUME NEW r \in RowsOf(opts), Add(r)
      PROVE  Collect \/ Parsed
  BY <1>3 DEF Add, Reject, Ignore
<1>4. ASSUME NEW r \in RowsOf(opts), First(r)
      PROVE  Collect \/ Parsed
  BY <1>3, <1>4 DEF First, Reject
<1>5. ASSUME NEW r \in RowsOf(opts), NEW n \in 1..Len(records), Repeat(r, n)
      PROVE  Collect \/ Parsed
  BY <1>5 DEF Repeat, Reject, Merge
<1>6. CASE VerticalMapRow
  BY <1>1, <1>2, <1>4, <1>5, <1>6 DEF VerticalMapRow, Ignore, Reject
<1>7. CASE KeyedListRow
  BY <1>1, <1>2, <1>4, <1>5, <1>7 DEF KeyedListRow
<1>8. CASE ListRow
  BY <1>1, <1>2, <1>3, <1>8 DEF ListRow
<1>9. CASE EndOfRows
  BY <1>9 DEF EndOfRows, TypeOK
<1>10. CASE UNCHANGED vars
  BY <1>10 DEF vars, TypeOK
<1> QED
  BY <1>6, <1>7, <1>8, <1>9, <1>10 DEF Next

LEMMA TypeStep == TypeOK /\ [Next]_vars => TypeOK'
<1> SUFFICES ASSUME TypeOK, [Next]_vars PROVE TypeOK'
  OBVIOUS
<1>1. opts' = opts /\ RecordSet' = RecordSet
  BY StepKinds DEF RecordSet
<1>2. /\ records' \in Seq(RecordSet)
      /\ cards' \in [values : SUBSET Nat, count : Nat, last : Nat \cup {None}]
  <2>1. CASE records' = records /\ cards' = cards
    BY <2>1 DEF TypeOK
  <2>2. ASSUME NEW r \in RowsOf(opts), Adds(r)
        PROVE  /\ records' \in Seq(RecordSet)
               /\ cards' \in [values : SUBSET Nat, count : Nat, last : Nat \cup {None}]
    <3>1. RecordAfter(NewRecord, r) \in RecordSet
      BY <2>2, AddedRecord
    <3> QED
      BY <2>2, <3>1, CardsWithType DEF Adds, TypeOK
  <2>3. ASSUME NEW r \in RowsOf(opts), NEW n \in 1..Len(records), Merges(r, n)
        PROVE  records' \in Seq(RecordSet) /\ cards' = cards
    <3>1. RecordAfter(records[n], r) \in RecordSet
      BY <2>3, MergedRecord
    <3>2. records \in Seq(RecordSet)
      BY DEF TypeOK
    <3> QED
      BY <2>3, <3>1, <3>2, ExceptSeq DEF Merges
  <2> QED
    BY <2>1, <2>2, <2>3, StepKinds DEF TypeOK
<1> QED
  BY <1>1, <1>2, ReadStep DEF TypeOK

(***************************************************************************)
(* Every reachable state of the parser of a sheet is well typed, for any   *)
(* options and rows.                                                       *)
(***************************************************************************)
THEOREM TypeCorrect == Spec => []TypeOK
<1> QED
  BY InitType, TypeStep, PTL DEF Spec
-----------------------------------------------------------------------------
(***************************************************************************)
(* Keys.                                                                   *)
(***************************************************************************)
LEMMA KeysStep == TypeOK /\ KeysDistinct /\ [Next]_vars => KeysDistinct'
<1> SUFFICES ASSUME TypeOK, KeysDistinct, [Next]_vars, Keyed' PROVE
             \A m, n \in 1..Len(records') : records'[m].key = records'[n].key => m = n
  BY DEF KeysDistinct
<1>1. Keyed
  BY StepKinds DEF Keyed
<1>2. CASE records' = records
  BY <1>1, <1>2 DEF KeysDistinct
<1>3. ASSUME NEW r \in RowsOf(opts), Adds(r)
      PROVE  \A m, n \in 1..Len(records') : records'[m].key = records'[n].key => m = n
  <2>1. \A n \in 1..Len(records) : records[n].key # Key(r)
    BY <1>1, <1>3 DEF Adds, Has
  <2> QED
    BY <1>1, <1>3, <2>1, AddedRecord DEF KeysDistinct
<1>4. ASSUME NEW r \in RowsOf(opts), NEW k \in 1..Len(records), Merges(r, k)
      PROVE  \A m, n \in 1..Len(records') : records'[m].key = records'[n].key => m = n
  BY <1>1, <1>4, MergedRecord DEF KeysDistinct
<1> QED
  BY <1>2, <1>3, <1>4, StepKinds

(***************************************************************************)
(* Two records never share a key, whatever rows fail on the way.           *)
(***************************************************************************)
THEOREM KeysAreDistinct == Spec => []KeysDistinct
<1>1. Init => KeysDistinct
  BY DEF Init, KeysDistinct
<1> QED
  BY <1>1, KeysStep, TypeCorrect, PTL DEF Spec

LEMMA SequenceStep == TypeOK /\ KeysInSequence /\ [Next]_vars => KeysInSequence'
<1> SUFFICES ASSUME TypeOK, KeysInSequence, [Next]_vars, Keyed', opts'.sequence # None,
                    NEW n \in 1..Len(records')
             PROVE  records'[n].key = opts'.sequence + n - 1
  BY DEF KeysInSequence
<1>1. Keyed /\ opts' = opts /\ opts.sequence # None
  BY StepKinds DEF Keyed
<1>2. opts.sequence \in Nat
  BY <1>1, OptionsAssumption DEF TypeOK, OptionsOK
<1>3. CASE records' = records
  BY <1>1, <1>3 DEF KeysInSequence
<1>4. ASSUME NEW r \in RowsOf(opts), Adds(r)
      PROVE  records'[n].key = opts.sequence + n - 1
  <2>1. CASE n \in 1..Len(records)
    BY <1>1, <1>4, <2>1, AddedRecord DEF KeysInSequence
  <2>2. CASE n = Len(records) + 1
    <3>1. r.key # Empty /\ r.key = opts.sequence + Len(records)
      BY <1>1, <1>2, <1>4, AddedRecord DEF Adds, KeyInSequence
    <3>2. records'[n].key = r.key
      BY <1>4, <2>2, <3>1, AddedRecord DEF Key, ValueOf
    <3> QED
      BY <1>2, <1>4, <2>2, <3>1, <3>2, AddedRecord
  <2> QED
    BY <1>4, <2>1, <2>2, AddedRecord
<1>5. ASSUME NEW r \in RowsOf(opts), NEW k \in 1..Len(records), Merges(r, k)
      PROVE  records'[n].key = opts.sequence + n - 1
  BY <1>1, <1>5, MergedRecord DEF KeysInSequence
<1> QED
  BY <1>1, <1>3, <1>4, <1>5, StepKinds

(***************************************************************************)
(* With the property sequence the keys count up without a gap.             *)
(***************************************************************************)
THEOREM SequenceHolds == Spec => []KeysInSequence
<1>1. Init => KeysInSequence
  BY DEF Init, KeysInSequence
<1> QED
  BY <1>1, SequenceStep, TypeCorrect, PTL DEF Spec

-----------------------------------------------------------------------------
(***************************************************************************)
(* The field tag. What checkSubFieldProp remembers agrees with all the     *)
(* records, as long as no row merges into one.                             *)
(***************************************************************************)
CardsInv ==
  NoMerging =>
    /\ opts.tag = "unique" => \A n \in 1..Len(records) :
         Counts(records[n]) => records[n].tag \in cards.values
    /\ opts.tag = "sequence" => cards.count = Len(records)
    /\ opts.tag \in Orders /\ records # <<>> => cards.last = records[Len(records)].tag

TagsInv == TagsChecked /\ CardsInv

\* A value that follows one in order follows what that one follows.
LEMMA OrdersCompose ==
  ASSUME NEW order \in Orders, NEW a \in Nat, NEW b \in Nat, NEW c \in Nat,
         InOrder(order, b, c), a = b \/ InOrder(order, a, b)
  PROVE  InOrder(order, a, c)
<1>1. CASE order = "asc"
  BY <1>1 DEF InOrder
<1>2. CASE order = "desc"
  BY <1>2 DEF InOrder
<1>3. CASE order = "strictlyAsc"
  BY <1>3 DEF InOrder
<1>4. CASE order = "strictlyDesc"
  BY <1>4 DEF InOrder
<1> QED
  BY <1>1, <1>2, <1>3, <1>4 DEF Orders

LEMMA TagsStep == TypeOK /\ TagsInv /\ [Next]_vars => TagsInv'
<1> SUFFICES ASSUME TypeOK, TagsInv, [Next]_vars, NoMerging'
             PROVE  TagsInv'
  BY DEF TagsInv, TagsChecked, CardsInv
<1>1. opts' = opts /\ NoMerging
  BY StepKinds DEF NoMerging, MayRepeat, Keyed
<1>2. CASE records' = records /\ cards' = cards
  BY <1>1, <1>2 DEF TagsInv, TagsChecked, CardsInv, Counts
<1>3. ASSUME NEW r \in RowsOf(opts), Adds(r)
      PROVE  TagsInv'
  <2> DEFINE rec == RecordAfter(NewRecord, r)
             N == Len(records)
  <2>1. /\ rec.tag \in Nat /\ N \in Nat /\ Len(records') = N + 1
        /\ records'[N + 1] = rec
        /\ \A n \in 1..N : records'[n] = records[n]
    BY <1>3, AddedRecord
  <2>2. TagOk(rec) /\ cards' = CardsWith(rec)
    BY <1>3 DEF Adds
  <2>3. \A n \in 1..N : records[n].tag \in Nat
    BY RecordType
  <2>4. /\ cards.values \subseteq Nat /\ cards.count \in Nat
        /\ cards = [values |-> cards.values, count |-> cards.count, last |-> cards.last]
    BY DEF TypeOK
  <2>5. opts.tag \in {"plain", "unique", "sequence"} \cup Orders /\ opts.first \in Nat
    BY OptionsAssumption DEF TypeOK, OptionsOK
  <2> HIDE DEF rec, N
  <2>6. CASE opts.tag = "plain"
    BY <1>1, <2>6 DEF TagsInv, TagsChecked, CardsInv, Orders
  <2>7. CASE opts.tag = "unique"
    <3>1. Counts(rec) => rec.tag \notin cards.values
      BY <2>2, <2>7 DEF TagOk, Orders
    <3>2. cards'.values = IF Counts(rec) THEN cards.values \cup {rec.tag} ELSE cards.values
      BY <2>2, <2>4, <2>7 DEF CardsWith, Orders
    <3>3. \A n \in 1..N : Counts(records[n]) => records[n].tag \in cards.values
      BY <1>1, <2>7 DEF TagsInv, CardsInv, N
    <3>4. \A n \in 1..(N + 1) : Counts(records'[n]) => records'[n].tag \in cards'.values
      BY <2>1, <3>2, <3>3
    <3>5. \A m, n \in 1..N : m # n /\ records[m].tag = records[n].tag =>
            opts.optional /\ records[n].tag = 0
      BY <1>1, <2>7 DEF TagsInv, TagsChecked, N
    <3>6. \A n \in 1..N : records[n].tag = rec.tag => opts.optional /\ rec.tag = 0
      BY <3>1, <3>3 DEF Counts
    <3>7. \A m, n \in 1..(N + 1) : m # n /\ records'[m].tag = records'[n].tag =>
            opts.optional /\ records'[n].tag = 0
      BY <2>1, <3>5, <3>6
    <3> QED
      BY <1>1, <2>1, <2>7, <3>4, <3>7 DEF TagsInv, TagsChecked, CardsInv, Counts, Orders
  <2>8. CASE opts.tag = "sequence"
    <3>1. rec.tag = opts.first + cards.count /\ cards.count = N
      BY <1>1, <2>2, <2>8 DEF TagOk, Orders, TagsInv, CardsInv, N
    <3>2. cards'.count = N + 1
      BY <2>2, <2>4, <2>8, <3>1 DEF CardsWith, Orders
    <3>3. \A n \in 1..N : records[n].tag = opts.first + n - 1
      BY <1>1, <2>8 DEF TagsInv, TagsChecked, N
    <3>4. \A n \in 1..(N + 1) : records'[n].tag = opts.first + n - 1
      BY <2>1, <2>5, <3>1, <3>3
    <3> QED
      BY <1>1, <2>1, <2>8, <3>2, <3>4 DEF TagsInv, TagsChecked, CardsInv, Orders
  <2>9. CASE opts.tag \in Orders
    <3>1. cards.last # None => InOrder(opts.tag, cards.last, rec.tag)
      BY <2>2, <2>9 DEF TagOk, CheckOrder, Orders
    <3>2. cards'.last = rec.tag
      BY <2>2, <2>4, <2>9 DEF CardsWith, Orders
    <3>3. \A m, n \in 1..N : m < n => InOrder(opts.tag, records[m].tag, records[n].tag)
      BY <1>1, <2>9 DEF TagsInv, TagsChecked, N
    <3>4. \A n \in 1..N : InOrder(opts.tag, records[n].tag, rec.tag)
      <4> SUFFICES ASSUME NEW n \in 1..N
                   PROVE  InOrder(opts.tag, records[n].tag, rec.tag)
        OBVIOUS
      <4>1. cards.last = records[N].tag /\ N \in 1..N /\ records[N].tag # None
        BY <1>1, <2>1, <2>3, <2>9, NoneAssumption DEF TagsInv, CardsInv, N
      <4>2. InOrder(opts.tag, records[N].tag, rec.tag)
        BY <3>1, <4>1
      <4>3. n = N \/ InOrder(opts.tag, records[n].tag, records[N].tag)
        BY <2>1, <3>3, <4>1
      <4> QED
        BY <2>1, <2>3, <2>9, <4>1, <4>2, <4>3, OrdersCompose
    <3>5. \A m, n \in 1..(N + 1) : m < n =>
            InOrder(opts.tag, records'[m].tag, records'[n].tag)
      BY <2>1, <3>3, <3>4
    <3> QED
      BY <1>1, <2>1, <2>9, <3>2, <3>5 DEF TagsInv, TagsChecked, CardsInv, Orders
  <2> QED
    BY <2>5, <2>6, <2>7, <2>8, <2>9
<1>4. ASSUME NEW r \in RowsOf(opts), NEW k \in 1..Len(records), Merges(r, k)
      PROVE  FALSE
  BY <1>1, <1>4 DEF Merges, NoMerging
<1> QED
  BY <1>2, <1>3, <1>4, StepKinds

(***************************************************************************)
(* The unique, sequence or order property of a field holds of all the      *)
(* records of a sheet whose rows do not merge.                             *)
(***************************************************************************)
THEOREM TagsHold == Spec => []TagsChecked
<1>1. Init => TagsInv
  BY DEF Init, TagsInv, TagsChecked, CardsInv, NoCard
<1>2. TagsInv => TagsChecked
  BY DEF TagsInv
<1> QED
  BY <1>1, <1>2, TagsStep, TypeCorrect, PTL DEF Spec
-----------------------------------------------------------------------------
(***************************************************************************)
(* A row and the records.                                                  *)
(***************************************************************************)
OneRecordStep ==
  /\ Len(records) <= Len(records') /\ Len(records') <= Len(records) + 1
  /\ \A m, n \in 1..Len(records) :
       records'[m] # records[m] /\ records'[n] # records[n] => m = n
  /\ records' # records /\ Len(records') = Len(records) =>
       \A n \in 1..Len(records) : /\ records'[n].key = records[n].key
                                  /\ records[n].val \in {0, records'[n].val}
                                  /\ records[n].tag \in {0, records'[n].tag}

LEMMA OneRecord == TypeOK /\ [Next]_vars => OneRecordStep
<1> SUFFICES ASSUME TypeOK, [Next]_vars PROVE OneRecordStep
  OBVIOUS
<1>1. Len(records) \in Nat
  BY LenProperties DEF TypeOK
<1>2. CASE records' = records
  BY <1>1, <1>2 DEF OneRecordStep
<1>3. ASSUME NEW r \in RowsOf(opts), Adds(r)
      PROVE  OneRecordStep
  BY <1>3, AddedRecord DEF OneRecordStep
<1>4. ASSUME NEW r \in RowsOf(opts), NEW k \in 1..Len(records), Merges(r, k)
      PROVE  OneRecordStep
  <2>1. /\ records'[k].key = records[k].key
        /\ records[k].val \in {0, records'[k].val}
        /\ records[k].tag \in {0, records'[k].tag}
    <3>1. records'[k] = RecordAfter(records[k], r) /\ records'[k].key = records[k].key
      BY <1>4, MergedRecord
    <3>2. /\ RecordAfter(records[k], r).val = Merged(records[k].val, r.val)
          /\ RecordAfter(records[k], r).tag = Merged(records[k].tag, r.tag)
      BY DEF RecordAfter
    <3> QED
      BY <3>1, <3>2 DEF Merged
  <2> QED
    BY <1>1, <1>4, <2>1, MergedRecord DEF OneRecordStep
<1> QED
  BY <1>2, <1>3, <1>4, StepKinds

(***************************************************************************)
(* A row changes or adds one record at most, and changes no key and no     *)
(* value other than 0.                                                     *)
(***************************************************************************)
THEOREM OneRecordTouched == Spec => RowTouchesOneRecord
<1>1. TypeOK /\ [Next]_vars =>
        [/\ Len(records) <= Len(records') /\ Len(records') <= Len(records) + 1
         /\ \A m, n \in 1..Len(records) :
              records'[m] # records[m] /\ records'[n] # records[n] => m = n
         /\ records' # records /\ Len(records') = Len(records) =>
              \A n \in 1..Len(records) : /\ records'[n].key = records[n].key
                                         /\ records[n].val \in {0, records'[n].val}
                                         /\ records[n].tag \in {0, records'[n].tag}
        ]_vars
  BY OneRecord DEF OneRecordStep
<1> QED
  BY <1>1, TypeCorrect, PTL DEF Spec, RowTouchesOneRecord

\* As long as no row failed, every key that was given has its record.
KeysRead ==
  Keyed /\ ~bad =>
    \A n \in 1..Len(read) : read[n].key # Empty => Has(Key(read[n]))

\* Rows of a key that may not be repeated: one that is not an error is new, and
\* has its record after it.
LEMMA RowOnce ==
  ASSUME TypeOK, Keyed, [Next]_vars, read' # read, ~bad'
  PROVE  \E r \in RowsOf(opts) :
           /\ read' = Append(read, r) /\ ~bad
           /\ r.key # Empty /\ ~MayRepeat => ~Has(Key(r))
           /\ r.key # Empty => Has(Key(r))'
<1>1. ASSUME NEW r \in RowsOf(opts), Parsed PROVE ~bad
  BY <1>1 DEF Parsed
<1>2. ASSUME NEW r \in RowsOf(opts), First(r), r.key # Empty
      PROVE  Has(Key(r))' /\ ~bad
  <2>1. ~Collect
    BY DEF Collect
  <2>2. Add(r)
    BY <1>2, <2>1 DEF First, Reject
  <2>3. RecordPresent(NewRecord, r)
    BY <1>2 DEF RecordPresent
  <2>4. Parsed /\ records' = Append(records, RecordAfter(NewRecord, r))
    BY <2>1, <2>2, <2>3 DEF Add, Reject
  <2>5. RecordAfter(NewRecord, r).key = Key(r) /\ RecordAfter(NewRecord, r) \in RecordSet
    BY NewRecordType, RecordAfterType DEF TypeOK, RecordAfter, NewRecord, Merged, Key
  <2>6. /\ Len(records') = Len(records) + 1 /\ Len(records) \in Nat
        /\ records'[Len(records) + 1] = RecordAfter(NewRecord, r)
    BY <2>4, <2>5, LenProperties DEF TypeOK
  <2> QED
    BY <2>4, <2>5, <2>6 DEF Has, Key, Parsed
<1>3. ASSUME NEW r \in RowsOf(opts), NEW n \in 1..Len(records),
             records[n].key = Key(r), Repeat(r, n)
      PROVE  Has(Key(r))' /\ MayRepeat /\ ~bad
  <2>1. ~Collect
    BY DEF Collect
  <2>2. ~KeyIsUnique /\ Merge(r, n)
    BY <1>3, <2>1 DEF Repeat, Reject
  <2>3. MayRepeat /\ Merges(r, n) /\ Parsed
    BY <1>3, <2>1, <2>2, KeyMayRepeat DEF TypeOK, Merge, Merges
  <2>4. Len(records') = Len(records) /\ records'[n].key = Key(r)
    BY <1>3, <2>3, MergedRecord
  <2> QED
    BY <2>3, <2>4 DEF Has, Key, Parsed
<1>4. CASE VerticalMapRow
  <2>1. PICK r \in RowsOf(opts) :
          /\ opts.layout = "map" /\ Read(r)
          /\ \/ /\ r.key = Empty /\ Has(0)
                /\ IF RecordOk(NewRecord, r) /\ ~RecordPresent(NewRecord, r)
                   THEN Ignore ELSE Reject
             \/ ~Has(Key(r)) /\ First(r)
             \/ \E n \in 1..Len(records) :
                  r.key # Empty /\ records[n].key = Key(r) /\ Repeat(r, n)
    BY <1>4 DEF VerticalMapRow
  <2>2. read' = Append(read, r) /\ ~bad
    BY <2>1 DEF Read, Ignore, Reject, Repeat, First, Add, Merge, Collect, Parsed
  <2> QED
    BY <1>2, <1>3, <2>1, <2>2
<1>5. CASE KeyedListRow
  <2>1. PICK r \in RowsOf(opts) :
          /\ opts.layout = "keyedList" /\ Read(r)
          /\ \/ ~Has(Key(r)) /\ First(r)
             \/ \E n \in 1..Len(records) : records[n].key = Key(r) /\ Repeat(r, n)
    BY <1>5 DEF KeyedListRow
  <2>2. read' = Append(read, r) /\ ~bad
    BY <2>1 DEF Read, Ignore, Reject, Repeat, First, Add, Merge, Collect, Parsed
  <2> QED
    BY <1>2, <1>3, <2>1, <2>2
<1>6. CASE ListRow
  BY <1>6 DEF ListRow, Keyed
<1>7. CASE EndOfRows \/ UNCHANGED vars
  BY <1>7 DEF EndOfRows, vars
<1> QED
  BY <1>4, <1>5, <1>6, <1>7 DEF Next

\* Once a row failed, that is not forgotten.
LEMMA BadStays ==
  ASSUME TypeOK, [Next]_vars, bad
  PROVE  bad'
<1>1. ASSUME NEW r \in RowsOf(opts), Add(r) PROVE bad'
  BY <1>1 DEF Add, Reject, Ignore, Collect, Parsed
<1>2. ASSUME NEW r \in RowsOf(opts), First(r) PROVE bad'
  BY <1>1, <1>2 DEF First, Reject, Collect
<1>3. ASSUME NEW r \in RowsOf(opts), NEW n \in 1..Len(records), Repeat(r, n) PROVE bad'
  BY <1>3 DEF Repeat, Reject, Merge, Collect, Parsed
<1> QED
  BY <1>1, <1>2, <1>3
  DEF Next, VerticalMapRow, KeyedListRow, ListRow, EndOfRows, Ignore, Reject, Collect, Parsed, vars

RepeatsInv == KeysRead /\ RepeatedKeyFails

LEMMA RepeatsStep == TypeOK /\ RepeatsInv /\ [Next]_vars => RepeatsInv'
<1> SUFFICES ASSUME TypeOK, RepeatsInv, [Next]_vars, Keyed', ~bad'
             PROVE  RepeatsInv'
  BY DEF RepeatsInv, KeysRead, RepeatedKeyFails
<1>1. Keyed /\ opts' = opts
  BY StepKinds DEF Keyed
<1>2. read \in Seq(RowsOf(opts)) /\ Len(read) \in Nat
  BY LenProperties DEF TypeOK
<1>3. \A key : Has(key) => Has(key)'
  <2>1. CASE records' = records
    BY <2>1 DEF Has
  <2>2. ASSUME NEW r \in RowsOf(opts), Adds(r)
        PROVE  \A key : Has(key) => Has(key)'
    BY <2>2, AddedRecord DEF Has
  <2>3. ASSUME NEW r \in RowsOf(opts), NEW k \in 1..Len(records), Merges(r, k)
        PROVE  \A key : Has(key) => Has(key)'
    BY <2>3, MergedRecord DEF Has
  <2> QED
    BY <2>1, <2>2, <2>3, StepKinds
<1>4. CASE read' = read
  <2>1. ~bad
    BY BadStays
  <2> QED
    BY <1>1, <1>3, <1>4, <2>1 DEF RepeatsInv, KeysRead, RepeatedKeyFails, MayRepeat, Key
<1>5. CASE read' # read
  <2>1. PICK r \in RowsOf(opts) :
          /\ read' = Append(read, r) /\ ~bad
          /\ r.key # Empty /\ ~MayRepeat => ~Has(Key(r))
          /\ r.key # Empty => Has(Key(r))'
    BY <1>1, <1>5, RowOnce
  <2>2. /\ Len(read') = Len(read) + 1 /\ read'[Len(read) + 1] = r
        /\ \A n \in 1..Len(read) : read'[n] = read[n]
    BY <1>2, <2>1
  <2>3. \A n \in 1..Len(read) : read[n].key # Empty => Has(Key(read[n]))
    BY <1>1, <2>1 DEF RepeatsInv, KeysRead
  <2>4. KeysRead'
    BY <1>2, <1>3, <2>1, <2>2, <2>3 DEF KeysRead, Key
  <2>5. ASSUME ~MayRepeat
        PROVE  \A m, n \in 1..(Len(read) + 1) :
                 m # n /\ read'[m].key = read'[n].key => read'[n].key = Empty
    <3>1. \A n \in 1..Len(read) : read[n].key = r.key => r.key = Empty
      BY <2>1, <2>3, <2>5 DEF Key
    <3>2. \A m, n \in 1..Len(read) :
            m # n /\ read[m].key = read[n].key => read[n].key = Empty
      BY <1>1, <2>1, <2>5 DEF RepeatsInv, RepeatedKeyFails
    <3> QED
      BY <1>2, <2>2, <3>1, <3>2
  <2>6. RepeatedKeyFails'
    BY <1>1, <2>2, <2>5 DEF RepeatedKeyFails, MayRepeat
  <2> QED
    BY <2>4, <2>6 DEF RepeatsInv
<1> QED
  BY <1>4, <1>5

(***************************************************************************)
(* A key that may not be repeated, and is, is never accepted.              *)
(***************************************************************************)
THEOREM RepeatsFail == Spec => []RepeatedKeyFails
<1>1. Init => RepeatsInv
  BY DEF Init, RepeatsInv, KeysRead, RepeatedKeyFails
<1>2. RepeatsInv => RepeatedKeyFails
  BY DEF RepeatsInv
<1> QED
  BY <1>1, <1>2, RepeatsStep, TypeCorrect, PTL DEF Spec
-----------------------------------------------------------------------------
(***************************************************************************)
(* What rows say and what records say. The second part of RowsKept is one  *)
(* of a record and the rows read so far, which only grow.                  *)
(***************************************************************************)
SaidIn(rows, rec) ==
  LET mine == {n \in 1..Len(rows) : Key(rows[n]) = rec.key}
  IN /\ mine # {}
     /\ rec.val # 0 => \E n \in mine : rows[n].val = rec.val
     /\ rec.tag # 0 => \E n \in mine : rows[n].tag = rec.tag
     /\ \A e \in InSub(rec.sub) :
          \E n \in mine : \E i \in 1..Len(rows[n].items) : ElemOf(rows[n].items[i]) = e

Accounted(recs, r) ==
  \/ Nothing(r)
  \/ opts.sub = "horizontalMap" /\ Hidden(Unsized, r.items)
  \/ \E m \in 1..Len(recs) : Holds(recs[m], r)

LEMMA RowsKeptParts ==
  RowsKept <=> /\ ~bad => \A n \in 1..Len(read) : Accounted(records, read[n])
               /\ \A m \in 1..Len(records) : SaidIn(read, records[m])
BY DEF RowsKept, Accounted, SaidIn

LEMMA RowsKeptNext ==
  ASSUME opts' = opts,
         ~bad' => \A n \in 1..Len(read') : Accounted(records', read'[n]),
         \A m \in 1..Len(records') : SaidIn(read', records'[m])
  PROVE  RowsKept'
BY DEF RowsKept, Accounted, SaidIn, Holds, InSub, Nothing

LEMMA ConcatElements ==
  ASSUME NEW S, NEW s \in Seq(S), NEW t \in Seq(S)
  PROVE  {(s \o t)[i] : i \in 1..Len(s \o t)}
           = {s[i] : i \in 1..Len(s)} \cup {t[i] : i \in 1..Len(t)}
<1>1. /\ Len(s) \in Nat /\ Len(t) \in Nat /\ Len(s \o t) = Len(s) + Len(t)
      /\ \A i \in 1..(Len(s) + Len(t)) :
           (s \o t)[i] = IF i <= Len(s) THEN s[i] ELSE t[i - Len(s)]
  BY ConcatProperties, LenProperties
<1>2. ASSUME NEW i \in 1..Len(s \o t)
      PROVE  (s \o t)[i] \in {s[j] : j \in 1..Len(s)} \cup {t[j] : j \in 1..Len(t)}
  <2>1. CASE i <= Len(s)
    BY <1>1, <2>1
  <2>2. CASE i > Len(s)
    <3>1. i - Len(s) \in 1..Len(t) /\ (s \o t)[i] = t[i - Len(s)]
      BY <1>1, <2>2
    <3> QED
      BY <3>1
  <2> QED
    BY <1>1, <2>1, <2>2
<1>3. ASSUME NEW i \in 1..Len(s)
      PROVE  s[i] \in {(s \o t)[j] : j \in 1..Len(s \o t)}
  <2>1. i \in 1..Len(s \o t) /\ (s \o t)[i] = s[i]
    BY <1>1
  <2> QED
    BY <2>1
<1>4. ASSUME NEW i \in 1..Len(t)
      PROVE  t[i] \in {(s \o t)[j] : j \in 1..Len(s \o t)}
  <2>1. /\ Len(s) + i \in 1..Len(s \o t)
        /\ (s \o t)[Len(s) + i] = t[i]
    BY <1>1
  <2> QED
    BY <2>1
<1> QED
  BY <1>2, <1>3, <1>4

LEMMA ConcatSub ==
  ASSUME opts.sub \notin {"map", "horizontalMap"}, NEW s \in Seq(Elems), NEW t \in Seq(Elems)
  PROVE  InSub(s \o t) = InSub(s) \cup InSub(t)
<1>1. /\ InSub(s) = {s[i] : i \in 1..Len(s)} /\ InSub(t) = {t[i] : i \in 1..Len(t)}
      /\ InSub(s \o t) = {(s \o t)[i] : i \in 1..Len(s \o t)}
  BY DEF InSub
<1>2. {(s \o t)[i] : i \in 1..Len(s \o t)}
        = {s[i] : i \in 1..Len(s)} \cup {t[i] : i \in 1..Len(t)}
  BY ConcatElements
<1> QED
  BY ONLY <1>1, <1>2

\* The elements of a horizontal list are present items; all of them, if it has no hole.
LEMMA RowListElements ==
  ASSUME NEW items \in Seq(Items)
  PROVE  /\ \A j \in 1..Len(RowList(Unsized, items)) :
              \E i \in 1..Len(items) : ElemOf(items[i]) = RowList(Unsized, items)[j]
         /\ HoleFree(items, 1, Len(items)) =>
              \A i \in 1..Len(items) : Present(items[i]) =>
                \E j \in 1..Len(RowList(Unsized, items)) : RowList(Unsized, items)[j] = ElemOf(items[i])
<1> DEFINE n == Len(items)
           m == CHOOSE k \in 0..n : /\ \A i \in 1..k : Present(items[i])
                                    /\ k < n => ~Present(items[k + 1])
<1>1. /\ m \in 0..n /\ n \in Nat
      /\ m < n => ~Present(items[m + 1])
  BY FirstAbsent, LenProperties
<1>2. RowList(Unsized, items) = [i \in 1..m |-> IF i <= n THEN ElemOf(items[i]) ELSE Blank]
  BY DEF RowList, Unsized, IsFixed
<1> HIDE DEF m, n
<1>3. RowList(Unsized, items) = [i \in 1..m |-> ElemOf(items[i])]
  BY <1>1, <1>2
<1>4. Len(RowList(Unsized, items)) = m
  BY <1>1, <1>3
<1>5. ASSUME HoleFree(items, 1, n), NEW i \in 1..n, Present(items[i])
      PROVE  i \in 1..m
  <2>1. SUFFICES ASSUME i > m PROVE FALSE
    BY <1>1
  <2>2. m + 1 \in 1..n /\ ~Present(items[m + 1]) /\ (m + 1 = i \/ m + 1 < i)
    BY <1>1, <2>1
  <2> QED
    BY <1>5, <2>2 DEF HoleFree
<1>6. \A j \in 1..m : j \in 1..n
  BY <1>1
<1> QED
  BY <1>3, <1>4, <1>5, <1>6 DEF n

\* A row gives nothing that is not in it.
LEMMA GivenInRow ==
  ASSUME opts \in Options, NEW r \in RowsOf(opts), NEW e \in InSub(Given(r.items))
  PROVE  \E i \in 1..Len(r.items) : ElemOf(r.items[i]) = e
<1>1. RowOK(opts, r) /\ opts.sub \in Subs /\ r.items \in Seq(Items)
  BY RowType DEF OptionsOK, RowOK
<1>2. CASE opts.sub = "none"
  <2>1. Given(r.items) = <<>> /\ InSub(<<>>) = {}
    BY <1>2 DEF Given, InSub
  <2> QED
    BY <2>1
<1>3. CASE opts.sub \in {"list", "map"}
  <2>1. Len(r.items) = 1
    BY <1>1, <1>3 DEF RowOK
  <2>2. 1 \in 1..Len(r.items)
    BY <2>1
  <2> QED
    BY <1>3, <2>2 DEF Given, InSub
<1>4. CASE opts.sub = "horizontalList"
  BY <1>1, <1>4, RowListElements DEF Given, InSub
<1>5. CASE opts.sub = "horizontalMap"
  <2>1. Entries(Unsized, r.items) \subseteq 1..Len(r.items)
    BY <1>1, LenProperties DEF Entries, Width, GetSize, Unsized
  <2> QED
    BY <1>5, <2>1 DEF Given, InSub, ReadMap, MapOf
<1> QED
  BY <1>1, <1>2, <1>3, <1>4, <1>5 DEF Subs

\* The field of a record keeps what it has, and gets nothing but what the row gives.
LEMMA SubGrows ==
  ASSUME opts \in Options, NEW r \in RowsOf(opts), NEW rec \in RecordSet
  PROVE  /\ InSub(rec.sub) \subseteq InSub(SubAfter(rec.sub, r.items))
         /\ InSub(SubAfter(rec.sub, r.items)) \subseteq InSub(rec.sub) \cup InSub(Given(r.items))
<1>1. CASE ~SubOk(rec.sub, r.items)
  BY <1>1 DEF SubAfter
<1>2. CASE SubOk(rec.sub, r.items) /\ opts.sub \in {"map", "horizontalMap"}
  BY <1>2 DEF SubAfter, InSub
<1>3. CASE SubOk(rec.sub, r.items) /\ opts.sub \notin {"map", "horizontalMap"}
  <2>1. rec.sub \in Seq(Elems) /\ Given(r.items) \in Seq(Elems)
    BY <1>3, GivenType DEF RecordSet
  <2>2. InSub(rec.sub \o Given(r.items)) = InSub(rec.sub) \cup InSub(Given(r.items))
    BY <1>3, <2>1, ConcatSub
  <2>3. SubAfter(rec.sub, r.items) \in {rec.sub, rec.sub \o Given(r.items)}
    BY <1>3, RowType DEF SubAfter, OptionsOK, Subs
  <2> QED
    BY <2>2, <2>3
<1> QED
  BY <1>1, <1>2, <1>3

\* What a row says of the field is there after it, if it is accepted.
LEMMA SubTakes ==
  ASSUME opts \in Options, NEW r \in RowsOf(opts), NEW rec \in RecordSet,
         SubOk(rec.sub, r.items), ~(opts.sub = "horizontalMap" /\ Hidden(Unsized, r.items)),
         NEW i \in 1..Len(r.items), Present(r.items[i])
  PROVE  ElemOf(r.items[i]) \in InSub(SubAfter(rec.sub, r.items))
<1>1. RowOK(opts, r) /\ opts.sub \in Subs /\ r.items \in Seq(Items) /\ Len(r.items) \in Nat
  BY RowType, LenProperties DEF OptionsOK, RowOK
<1>2. CASE opts.sub = "none"
  BY <1>1, <1>2 DEF RowOK
<1>3. CASE opts.sub = "list"
  <2>1. i = 1
    BY <1>1, <1>3 DEF RowOK
  <2>2. Given(r.items) = <<ElemOf(r.items[i])>> /\ Given(r.items) \in Seq(Elems)
        /\ rec.sub \in Seq(Elems)
    BY <1>3, <2>1, GivenType DEF Given, RecordSet
  <2>3. SubAfter(rec.sub, r.items) = rec.sub \o Given(r.items)
    BY <1>3 DEF SubAfter
  <2>4. Len(<<ElemOf(r.items[i])>>) = 1 /\ <<ElemOf(r.items[i])>>[1] = ElemOf(r.items[i])
    OBVIOUS
  <2>5. ElemOf(r.items[i]) \in InSub(Given(r.items))
    BY <1>3, <2>2, <2>4 DEF InSub
  <2>6. InSub(SubAfter(rec.sub, r.items)) = InSub(rec.sub) \cup InSub(Given(r.items))
    BY <1>3, <2>2, <2>3, ConcatSub
  <2> QED
    BY <2>5, <2>6
<1>4. CASE opts.sub = "map"
  <2>1. i = 1
    BY <1>1, <1>4 DEF RowOK
  <2>2. Given(r.items) = {ElemOf(r.items[i])}
    BY <1>4, <2>1 DEF Given
  <2>3. SubAfter(rec.sub, r.items) = rec.sub \cup Given(r.items)
    BY <1>4 DEF SubAfter
  <2> QED
    BY <1>4, <2>2, <2>3 DEF InSub
<1>5. CASE opts.sub = "horizontalList"
  <2>1. /\ RowListOk(Unsized, r.items)
        /\ \/ rec.sub = <<>> \/ RowList(Unsized, r.items) = <<>> \/ opts.aggregate
           \/ rec.sub = RowList(Unsized, r.items)
        /\ Given(r.items) = RowList(Unsized, r.items)
    BY <1>5 DEF SubOk, Given
  <2>2. HoleFree(r.items, 1, Len(r.items))
    BY <2>1 DEF RowListOk, IsFixed, Unsized
  <2>3. PICK j \in 1..Len(Given(r.items)) : Given(r.items)[j] = ElemOf(r.items[i])
    <3>1. \E j \in 1..Len(RowList(Unsized, r.items)) :
            RowList(Unsized, r.items)[j] = ElemOf(r.items[i])
      BY <1>1, <2>2, RowListElements
    <3> QED
      BY <2>1, <3>1
  <2>4. ElemOf(r.items[i]) \in InSub(Given(r.items))
    BY <1>5, <2>3 DEF InSub
  <2>5. rec.sub \in Seq(Elems) /\ Given(r.items) \in Seq(Elems)
    BY <1>5, GivenType DEF RecordSet
  <2>6. Given(r.items) # <<>>
    BY <2>3
  <2>7. \/ SubAfter(rec.sub, r.items) = rec.sub \o Given(r.items)
        \/ SubAfter(rec.sub, r.items) = Given(r.items)
    BY <1>5, <2>1, <2>6 DEF SubAfter
  <2>8. InSub(rec.sub \o Given(r.items)) = InSub(rec.sub) \cup InSub(Given(r.items))
    BY <1>5, <2>5, ConcatSub
  <2> QED
    BY <2>4, <2>7, <2>8
<1>6. CASE opts.sub = "horizontalMap"
  <2>1. i \in 1..Width(Unsized, Len(r.items))
    BY <1>1 DEF Width, GetSize, Unsized
  <2>2. i \in ReadBefore(Unsized, r.items)
    BY <1>6, <2>1 DEF Hidden
  <2>3. i \in Entries(Unsized, r.items)
    BY <2>1 DEF Entries, Kept, Spare
  <2>4. ElemOf(r.items[i]) \in Given(r.items)
    BY <1>6, <2>2, <2>3 DEF Given, ReadMap, MapOf
  <2> QED
    BY <1>6, <2>4 DEF SubAfter, InSub
<1> QED
  BY <1>1, <1>2, <1>3, <1>4, <1>5, <1>6 DEF Subs
-----------------------------------------------------------------------------
(***************************************************************************)
(* A row and the record it is merged into, or makes.                       *)
(***************************************************************************)
LEMMA MergeTakes ==
  ASSUME NEW old \in Nat, NEW cell \in Cells, Agrees(old, cell)
  PROVE  ValueOf(cell) \in {0, Merged(old, cell)}
BY EmptyAssumption DEF Agrees, Merged, ValueOf, Cells

LEMMA MergeKeeps ==
  ASSUME NEW old \in Nat, NEW cell \in Cells, NEW said \in {0, old}
  PROVE  said \in {0, Merged(old, cell)}
BY DEF Merged

LEMMA MergeSays ==
  ASSUME NEW old \in Nat, NEW cell \in Cells, Merged(old, cell) # 0
  PROVE  Merged(old, cell) \in {old, cell} /\ (old # 0 => Merged(old, cell) = old)
         /\ (old = 0 => Merged(old, cell) = cell)
BY DEF Merged, ValueOf, Cells

LEMMA RecordFacts ==
  ASSUME opts \in Options, NEW r \in RowsOf(opts), NEW rec \in RecordSet
  PROVE  /\ rec.val \in Nat /\ rec.tag \in Nat /\ rec.key \in Nat
         /\ r.key \in Cells /\ r.val \in Cells /\ r.tag \in Cells
         /\ RecordAfter(rec, r).key = Merged(rec.key, r.key)
         /\ RecordAfter(rec, r).val = Merged(rec.val, r.val)
         /\ RecordAfter(rec, r).tag = Merged(rec.tag, r.tag)
         /\ RecordAfter(rec, r).sub = SubAfter(rec.sub, r.items)
BY RowType DEF RowOK, RecordSet, RecordAfter

\* A record keeps what it holds, when a row of its key is merged into it.
LEMMA StillHolds ==
  ASSUME opts \in Options, NEW r \in RowsOf(opts), NEW rec \in RecordSet,
         RecordAfter(rec, r).key = rec.key, NEW q \in RowsOf(opts), Holds(rec, q)
  PROVE  Holds(RecordAfter(rec, r), q)
<1>1. /\ ValueOf(q.val) \in {0, RecordAfter(rec, r).val}
      /\ ValueOf(q.tag) \in {0, RecordAfter(rec, r).tag}
  BY RecordFacts, MergeKeeps DEF Holds
<1>2. InSub(rec.sub) \subseteq InSub(RecordAfter(rec, r).sub)
  BY RecordFacts, SubGrows
<1> QED
  BY <1>1, <1>2 DEF Holds

\* An accepted row is in the record afterwards.
LEMMA NowHolds ==
  ASSUME opts \in Options, NEW r \in RowsOf(opts), NEW rec \in RecordSet,
         RecordAfter(rec, r).key = Key(r), RecordOk(rec, r),
         ~(opts.sub = "horizontalMap" /\ Hidden(Unsized, r.items))
  PROVE  Holds(RecordAfter(rec, r), r)
<1>1. /\ ValueOf(r.val) \in {0, RecordAfter(rec, r).val}
      /\ ValueOf(r.tag) \in {0, RecordAfter(rec, r).tag}
  BY RecordFacts, MergeTakes DEF RecordOk
<1>2. \A i \in 1..Len(r.items) : Present(r.items[i]) =>
        ElemOf(r.items[i]) \in InSub(RecordAfter(rec, r).sub)
  BY RecordFacts, SubTakes DEF RecordOk
<1> QED
  BY <1>1, <1>2 DEF Holds

\* A row that would make no record has nothing in it.
LEMMA IgnoredIsNothing ==
  ASSUME opts \in Options, NEW r \in RowsOf(opts),
         RecordOk(NewRecord, r), ~RecordPresent(NewRecord, r)
  PROVE  Nothing(r)
<1>1. /\ r.key = Empty /\ r.val = Empty /\ r.tag = Empty
      /\ ~SubPresent(NoSub, r.items) /\ SubOk(NoSub, r.items)
  BY DEF RecordPresent, RecordOk, NewRecord
<1>2. opts.sub \in Subs \ {"horizontalMap"}
  BY <1>1, RowType DEF SubPresent, OptionsOK
<1>3. NewRecord \in RecordSet /\ NewRecord.sub = NoSub /\ NoSub = (IF opts.sub = "map" THEN {} ELSE <<>>)
  BY <1>2, NewRecordType DEF NewRecord, NoSub, Subs
<1>4. InSub(SubAfter(NoSub, r.items)) = {}
  <2>1. CASE opts.sub = "horizontalList"
    <3>1. SubAfter(NoSub, r.items) = <<>>
      BY <1>1, <2>1 DEF SubPresent
    <3> QED
      BY <2>1, <3>1 DEF InSub
  <2>2. CASE opts.sub # "horizontalList"
    <3>1. Given(r.items) = NoSub
      BY <1>1, <1>2, <2>2 DEF SubPresent, Subs
    <3>2. InSub(NoSub) = {}
      BY <1>3, <2>2 DEF InSub, NoSub
    <3>3. InSub(SubAfter(NoSub, r.items)) \subseteq InSub(NoSub) \cup InSub(Given(r.items))
      BY <1>3, SubGrows
    <3> QED
      BY <3>1, <3>2, <3>3
  <2> QED
    BY <2>1, <2>2
<1>5. \A i \in 1..Len(r.items) : ~Present(r.items[i])
  BY <1>1, <1>2, <1>3, <1>4, SubTakes
<1> QED
  BY <1>1, <1>5 DEF Nothing
-----------------------------------------------------------------------------
LEMMA ReadOne ==
  ASSUME TypeOK, NEW r \in RowsOf(opts), read' = Append(read, r)
  PROVE  /\ Len(read) \in Nat /\ Len(read') = Len(read) + 1
         /\ read'[Len(read) + 1] = r
         /\ \A n \in 1..Len(read) : read'[n] = read[n] /\ read[n] \in RowsOf(opts)
BY LenProperties, ElementOfSeq DEF TypeOK

\* What was said is still said by the rows read so far.
LEMMA StillSaid ==
  ASSUME TypeOK, NEW r \in RowsOf(opts), read' = Append(read, r),
         NEW rec, SaidIn(read, rec)
  PROVE  SaidIn(read', rec)
<1> DEFINE mine == {n \in 1..Len(read) : Key(read[n]) = rec.key}
           mineNow == {n \in 1..Len(read') : Key(read'[n]) = rec.key}
<1>1. mine \subseteq mineNow /\ \A n \in mine : read'[n] = read[n]
  BY ReadOne
<1>2. /\ mine # {}
      /\ rec.val # 0 => \E n \in mine : read[n].val = rec.val
      /\ rec.tag # 0 => \E n \in mine : read[n].tag = rec.tag
      /\ \A e \in InSub(rec.sub) :
           \E n \in mine : \E i \in 1..Len(read[n].items) : ElemOf(read[n].items[i]) = e
  BY DEF SaidIn
<1> HIDE DEF mine
<1>3. /\ mineNow # {}
      /\ rec.val # 0 => \E n \in mineNow : read'[n].val = rec.val
      /\ rec.tag # 0 => \E n \in mineNow : read'[n].tag = rec.tag
      /\ \A e \in InSub(rec.sub) :
           \E n \in mineNow : \E i \in 1..Len(read'[n].items) : ElemOf(read'[n].items[i]) = e
  BY <1>1, <1>2
<1> QED
  BY <1>3 DEF SaidIn

\* What a row adds to a record is said by that row.
LEMMA NowSaid ==
  ASSUME TypeOK, NEW r \in RowsOf(opts), read' = Append(read, r), NEW rec \in RecordSet,
         RecordAfter(rec, r).key = Key(r),
         rec = NewRecord \/ (rec.key = Key(r) /\ SaidIn(read, rec))
  PROVE  SaidIn(read', RecordAfter(rec, r))
<1> DEFINE new == RecordAfter(rec, r)
           mine == {n \in 1..Len(read') : Key(read'[n]) = new.key}
           N == Len(read) + 1
<1>1. N \in mine /\ read'[N] = r
  BY ReadOne
<1>2. opts \in Options
  BY DEF TypeOK
<1>3. rec # NewRecord => SaidIn(read', rec) /\ rec.key = new.key
  BY StillSaid
<1>4. rec.val # 0 => \E n \in mine : read'[n].val = rec.val
  BY <1>3 DEF SaidIn, NewRecord
<1>5. rec.tag # 0 => \E n \in mine : read'[n].tag = rec.tag
  BY <1>3 DEF SaidIn, NewRecord
<1>6. \A e \in InSub(rec.sub) :
        \E n \in mine : \E i \in 1..Len(read'[n].items) : ElemOf(read'[n].items[i]) = e
  <2>1. CASE rec = NewRecord
    <3>1. InSub(rec.sub) = {}
      BY <2>1 DEF NewRecord, NoSub, InSub
    <3> QED
      BY <3>1
  <2>2. CASE rec # NewRecord
    <3>1. new.key = rec.key
      BY <1>3, <2>2
    <3>2. mine = {n \in 1..Len(read') : Key(read'[n]) = rec.key}
      BY <3>1
    <3> HIDE DEF new
    <3> QED
      BY <1>3, <2>2, <3>2 DEF SaidIn
  <2> QED
    BY <2>1, <2>2
<1>7. /\ new.val # 0 => \E n \in mine : read'[n].val = new.val
      /\ new.tag # 0 => \E n \in mine : read'[n].tag = new.tag
  <2> HIDE DEF mine
  <2> QED
    BY <1>1, <1>2, <1>4, <1>5, RecordFacts, MergeSays
<1>8. \A e \in InSub(new.sub) :
        \E n \in mine : \E i \in 1..Len(read'[n].items) : ElemOf(read'[n].items[i]) = e
  <2>1. InSub(new.sub) \subseteq InSub(rec.sub) \cup InSub(Given(r.items))
    BY <1>2, RecordFacts, SubGrows
  <2>2. \A e \in InSub(Given(r.items)) : \E i \in 1..Len(r.items) : ElemOf(r.items[i]) = e
    BY <1>2, GivenInRow
  <2> HIDE DEF mine, new
  <2> QED
    BY <1>1, <1>6, <2>1, <2>2
<1> QED
  BY <1>1, <1>7, <1>8 DEF SaidIn

LEMMA KeptStep == TypeOK /\ RowsKept /\ [Next]_vars => RowsKept'
<1> DEFINE AllKept == /\ ~bad' => \A n \in 1..Len(read') : Accounted(records', read'[n])
                      /\ \A m \in 1..Len(records') : SaidIn(read', records'[m])
<1> SUFFICES ASSUME TypeOK, RowsKept, [Next]_vars PROVE AllKept
  BY RowKinds, RowsKeptNext
<1>1. opts \in Options /\ (~bad' => ~bad) /\ Len(records) \in Nat
  BY BadStays, LenProperties DEF TypeOK
<1>2. /\ ~bad => \A n \in 1..Len(read) : Accounted(records, read[n])
      /\ \A m \in 1..Len(records) : SaidIn(read, records[m])
  BY RowsKeptParts
<1>3. CASE read' = read /\ bad' = bad /\ records' = records
  BY <1>2, <1>3
<1>4. ASSUME NEW r \in RowsOf(opts), read' = Append(read, r), Passes(r)
      PROVE  AllKept
  <2>1. records' = records /\ (~bad' => Nothing(r))
    BY <1>1, <1>4, IgnoredIsNothing DEF Passes
  <2>2. \A m \in 1..Len(records') : SaidIn(read', records'[m])
    BY <1>2, <1>4, <2>1, StillSaid
  <2>3. ~bad' => Accounted(records', r)
    BY <2>1 DEF Accounted
  <2> QED
    BY <1>1, <1>2, <1>4, <2>1, <2>2, <2>3, ReadOne
<1>5. ASSUME NEW r \in RowsOf(opts), read' = Append(read, r), Adds(r)
      PROVE  AllKept
  <2> DEFINE N == Len(records) + 1
  <2>1. /\ NewRecord \in RecordSet /\ RecordAfter(NewRecord, r).key = Key(r)
        /\ Len(records') = N /\ records'[N] = RecordAfter(NewRecord, r)
        /\ \A m \in 1..Len(records) : records'[m] = records[m]
    BY <1>1, <1>5, AddedRecord, NewRecordType
  <2>2. SaidIn(read', records'[N])
    BY <1>5, <2>1, NowSaid
  <2>3. \A m \in 1..Len(records) : SaidIn(read', records'[m])
    BY <1>2, <1>5, <2>1, StillSaid
  <2>4. \A m \in 1..Len(records') : SaidIn(read', records'[m])
    BY <1>1, <2>1, <2>2, <2>3
  <2>5. Accounted(records', r)
    <3>1. Holds(records'[N], r) \/ (opts.sub = "horizontalMap" /\ Hidden(Unsized, r.items))
      BY <1>1, <1>5, <2>1, NowHolds DEF Adds
    <3>2. N \in 1..Len(records')
      BY <1>1, <2>1
    <3> QED
      BY <3>1, <3>2 DEF Accounted
  <2>6. \A q : Accounted(records, q) => Accounted(records', q)
    <3>1. \A m \in 1..Len(records) : m \in 1..Len(records') /\ records'[m] = records[m]
      BY <1>1, <2>1
    <3> QED
      BY <3>1 DEF Accounted
  <2> QED
    BY <1>1, <1>2, <1>5, <2>4, <2>5, <2>6, ReadOne
<1>6. ASSUME NEW r \in RowsOf(opts), read' = Append(read, r),
             NEW n \in 1..Len(records), Merges(r, n)
      PROVE  AllKept
  <2>1. /\ Len(records') = Len(records) /\ records'[n] = RecordAfter(records[n], r)
        /\ records'[n].key = records[n].key /\ records[n].key = Key(r)
        /\ records[n] \in RecordSet
        /\ \A m \in 1..Len(records) : m # n => records'[m] = records[m]
    BY <1>6, MergedRecord, RecordType DEF Merges
  <2>2. \A m \in 1..Len(records') : SaidIn(read', records'[m])
    <3>1. SaidIn(read', records'[n])
      BY <1>2, <1>6, <2>1, NowSaid
    <3>2. \A m \in 1..Len(records) : m # n => SaidIn(read', records'[m])
      BY <1>2, <1>6, <2>1, StillSaid
    <3> QED
      BY <2>1, <3>1, <3>2
  <2>3. ~bad' => Accounted(records', r)
    BY <1>1, <1>6, <2>1, NowHolds DEF Accounted, Merges
  <2>4. \A q \in RowsOf(opts) : Accounted(records, q) => Accounted(records', q)
    <3>1. \A q \in RowsOf(opts) : Holds(records[n], q) => Holds(records'[n], q)
      BY <1>1, <2>1, StillHolds
    <3> QED
      BY <2>1, <3>1 DEF Accounted
  <2> QED
    BY <1>1, <1>2, <1>6, <2>2, <2>3, <2>4, ReadOne
<1> HIDE DEF AllKept
<1> QED
  BY <1>3, <1>4, <1>5, <1>6, RowKinds

(***************************************************************************)
(* As long as no row failed, what the rows say is in the record of their   *)
(* key, and a record says nothing that no row of its key says, those that  *)
(* failed included.                                                        *)
(***************************************************************************)
THEOREM RowsAreKept == Spec => []RowsKept
<1>1. Init => RowsKept
  BY DEF Init, RowsKept
<1> QED
  BY <1>1, KeptStep, TypeCorrect, PTL DEF Spec
=============================================================================

---------------------------- MODULE TableParser -----------------------------
(***************************************************************************)
(* tableParser.parse of internal/confgen/table_parser.go: the data rows of *)
(* a sheet are parsed one after the other into the vertical map, the keyed *)
(* list or the list that the worksheet message holds. A record has its     *)
(* key, a scalar "val", a scalar "tag" that may have the property unique,  *)
(* sequence or order, and a list or map "sub" (RowItems).                  *)
(*                                                                         *)
(* A row that fails is collected and the next one is parsed, until a       *)
(* budget is used up: which budget, and what the other sheets use of it,   *)
(* is the subject of ErrorCollector and ConfGen, so that here the parse    *)
(* may stop after any failed row. What a failed row did to a record that   *)
(* was there already stays (left out: a budget that is used up inside the  *)
(* row, after which its other fields are not read and the parse is over,   *)
(* and the entries that an aggregated map or list got from a row before it *)
(* repeated a key). Cells that do not parse are left out as in RowField.   *)
(***************************************************************************)
EXTENDS RowItems

CONSTANTS
  Options,     \* the options of the fields: see OptionsOK
  RowsOf(_),   \* the rows that a sheet with these options may have
  MaxRows      \* bound: rows of a sheet

VARIABLES
  opts,     \* the options (never change)
  read,     \* the rows parsed so far
  records,  \* the entries of the map or the elements of the list, as they came
  cards,    \* the cardInfo of the field: see NoCard
  bad,      \* a row was collected as an error
  outcome   \* "parsing", "parsed" or "failed"

vars == <<opts, read, records, cards, bad, outcome>>

Subs == {"none", "list", "map", "horizontalList", "horizontalMap"}

\* The property order of the field tag.
Orders == {"asc", "desc", "strictlyAsc", "strictlyDesc"}

(***************************************************************************)
(* layout: the map or list of the records. sub: the field of a record, a   *)
(* vertical list or map (one item per row) or a horizontal one, which has  *)
(* neither a fixed nor a given size. uniqueKey:                            *)
(* the property unique of the key; sequence: its property sequence. tag:   *)
(* the property of the field tag, first: where its sequence starts.        *)
(* optional: the field tag, or the sheet, is optional.                     *)
(***************************************************************************)
OptionsOK(o) ==
  /\ o.layout \in {"map", "keyedList", "list"}
  /\ o.sub \in Subs
  /\ {o.aggregate, o.optional} \subseteq BOOLEAN
  /\ o.uniqueKey \in {TRUE, FALSE, None}
  /\ o.sequence \in Nat \cup {None}
  /\ o.tag \in {"plain", "unique", "sequence"} \cup Orders /\ o.first \in Nat

RowOK(o, r) ==
  /\ r.key \in Cells /\ r.val \in Cells /\ r.tag \in Cells
  /\ r.items \in Seq(Items)
  /\ o.sub = "none" => r.items = <<>>
  /\ o.sub \in {"list", "map"} => Len(r.items) = 1

ASSUME OptionsAssumption ==
  \A o \in Options : OptionsOK(o) /\ \A r \in RowsOf(o) : RowOK(o, r)

ASSUME MaxRowsAssumption == MaxRows \in Nat
ASSUME NoneAssumption == None \notin Nat \cup BOOLEAN

NoSub == IF opts.sub \in {"map", "horizontalMap"} THEN {} ELSE <<>>

NewRecord == [key |-> 0, val |-> 0, tag |-> 0, sub |-> NoSub]

\* values: of a unique tag; count: of a tag in sequence; last: of an ordered tag.
NoCard == [values |-> {}, count |-> 0, last |-> None]

Init ==
  /\ opts \in Options
  /\ read = <<>> /\ records = <<>> /\ cards = NoCard
  /\ bad = FALSE /\ outcome = "parsing"

-----------------------------------------------------------------------------
(***************************************************************************)
(* The field sub of a record, when a row gives it more items.              *)
(***************************************************************************)
SubHas(sub, key) == \E e \in sub : e.key = key

SubOk(sub, items) ==
  CASE opts.sub \in {"none", "list"} -> TRUE
    [] opts.sub = "map" ->
         IF SubHas(sub, ValueOf(items[1].key))
         THEN items[1] = [key |-> Empty, val |-> Empty]        \* E2017, E2005
         ELSE TRUE
    [] opts.sub = "horizontalList" ->
         /\ RowListOk(Unsized, items)
         /\ sub = <<>> \/ RowList(Unsized, items) = <<>> \/ opts.aggregate
            \/ sub = RowList(Unsized, items)                       \* E2023
    [] opts.sub = "horizontalMap" ->
         /\ ReadMapOk(Unsized, items)
         /\ \/ sub = {} \/ ReadMap(Unsized, items) = {}
            \/ IF opts.aggregate
               THEN \A e \in ReadMap(Unsized, items) : ~SubHas(sub, e.key)
               ELSE sub = ReadMap(Unsized, items)

Given(items) ==
  CASE opts.sub = "none" -> <<>>
    [] opts.sub = "list" -> IF Present(items[1]) THEN <<ElemOf(items[1])>> ELSE <<>>
    [] opts.sub = "map" -> IF Present(items[1]) THEN {ElemOf(items[1])} ELSE {}
    [] opts.sub = "horizontalList" -> RowList(Unsized, items)
    [] opts.sub = "horizontalMap" -> ReadMap(Unsized, items)

\* (mutant of SubAfter: a row replaces what earlier rows gave)
SubReplaced(sub, items) == IF Given(items) = NoSub THEN sub ELSE Given(items)

SubAfter(sub, items) ==
  IF ~SubOk(sub, items) THEN sub
  ELSE CASE opts.sub \in {"map", "horizontalMap"} -> sub \cup Given(items)
         [] opts.sub = "horizontalList" ->
              IF opts.aggregate \/ sub = <<>> THEN sub \o Given(items) ELSE sub
         [] opts.sub \in {"none", "list"} -> sub \o Given(items)

\* Whether the field counts as present: for a horizontal list the message is
\* asked, which may have it from an earlier row; a horizontal map always does.
SubPresent(sub, items) ==
  CASE opts.sub = "horizontalMap" -> TRUE
    [] opts.sub = "horizontalList" -> SubAfter(sub, items) # <<>>
    [] OTHER -> Given(items) # NoSub

-----------------------------------------------------------------------------
(***************************************************************************)
(* parseMessage for a record: every field is parsed, a field in error does *)
(* not keep the others from being set.                                     *)
(***************************************************************************)
RecordOk(rec, r) ==
  Agrees(rec.val, r.val) /\ Agrees(rec.tag, r.tag) /\ SubOk(rec.sub, r.items)

RecordAfter(rec, r) ==
  [key |-> Merged(rec.key, r.key), val |-> Merged(rec.val, r.val),
   tag |-> Merged(rec.tag, r.tag), sub |-> SubAfter(rec.sub, r.items)]

RecordPresent(rec, r) ==
  r.key # Empty \/ r.val # Empty \/ r.tag # Empty \/ SubPresent(rec.sub, r.items)

Key(r) == ValueOf(r.key)

\* (mutant of Has: only the record before is looked at)
HasLast(key) == records # <<>> /\ records[Len(records)].key = key

Has(key) == \E n \in 1..Len(records) : records[n].key = key

\* (mutant of KeyIsUnique: without the property a key may be repeated)
KeyMustBeUnique == opts.uniqueKey = TRUE

\* checkKeyUnique, with what it deduces when the key does not say: rows may
\* repeat a key in order to fill a map or list of the same, vertical, layout.
KeyIsUnique ==
  IF opts.uniqueKey = None THEN opts.sub \notin {"list", "map"} ELSE opts.uniqueKey

\* (mutant of KeyInSequence: a record may be skipped over)
KeyIncreases(r, merged) ==
  opts.sequence # None => r.key # Empty /\ r.key >= opts.sequence + Len(records) - 1

\* checkKeySequence: an empty key is not a number.
KeyInSequence(r, merged) ==
  opts.sequence # None =>
    r.key # Empty /\ r.key = opts.sequence + Len(records) - (IF merged THEN 1 ELSE 0)

-----------------------------------------------------------------------------
(***************************************************************************)
(* checkSubFieldProp, for a record that is new.                            *)
(***************************************************************************)
InOrder(order, old, new) ==
  \/ order = "asc" /\ old <= new
  \/ order = "desc" /\ old >= new
  \/ order = "strictlyAsc" /\ old < new
  \/ order = "strictlyDesc" /\ old > new

\* The first record has none to be compared with.
CheckOrder(old, new) == old # None => InOrder(opts.tag, old, new)

Counts(rec) == ~(opts.optional /\ rec.tag = 0)

TagOk(rec) ==
  CASE opts.tag = "plain" -> TRUE
    [] opts.tag = "unique" -> Counts(rec) => rec.tag \notin cards.values      \* E2022
    [] opts.tag = "sequence" -> rec.tag = opts.first + cards.count            \* E2003
    [] opts.tag \in Orders -> CheckOrder(cards.last, rec.tag)                 \* E2026

\* (mutant of CardsWith: the properties are compared with the first record only)
CardsOfFirst(rec) ==
  IF records # <<>> THEN cards
  ELSE [values |-> {rec.tag}, count |-> cards.count + 1, last |-> rec.tag]

CardsWith(rec) ==
  CASE opts.tag = "plain" -> cards
    [] opts.tag = "unique" ->
         IF Counts(rec) THEN [cards EXCEPT !.values = @ \cup {rec.tag}] ELSE cards
    [] opts.tag = "sequence" -> [cards EXCEPT !.count = @ + 1]
    [] opts.tag \in Orders -> [cards EXCEPT !.last = rec.tag]

-----------------------------------------------------------------------------
Read(r) ==
  /\ outcome = "parsing" /\ Len(read) < MaxRows
  /\ read' = Append(read, r)
  /\ UNCHANGED opts

\* The row is an error: the parse goes on, or a budget is used up.
Collect ==
  /\ bad' = TRUE
  /\ outcome' \in {"parsing", "failed"}

Parsed == UNCHANGED <<bad, outcome>>

Reject == Collect /\ UNCHANGED <<records, cards>>
Ignore == Parsed /\ UNCHANGED <<records, cards>>

\* The row belongs to record n, which is changed in place.
Merge(r, n) ==
  /\ records' = [records EXCEPT ![n] = RecordAfter(@, r)]
  /\ IF RecordOk(records[n], r) THEN Parsed ELSE Collect
  /\ UNCHANGED cards

\* The row makes a new record, if there is anything in it.
Add(r) ==
  \/ ~RecordOk(NewRecord, r) /\ Reject
  \/ RecordOk(NewRecord, r) /\ ~RecordPresent(NewRecord, r) /\ Ignore
  \/ /\ RecordOk(NewRecord, r) /\ RecordPresent(NewRecord, r)
     /\ LET rec == RecordAfter(NewRecord, r) IN
        \/ ~TagOk(rec) /\ Reject
        \/ /\ TagOk(rec)
           /\ records' = Append(records, rec)
           /\ cards' = CardsWith(rec)
           /\ Parsed

\* A row whose key is that of record n.
Repeat(r, n) ==
  \/ (KeyIsUnique \/ ~KeyInSequence(r, TRUE)) /\ Reject               \* E2005, E2003
  \/ ~KeyIsUnique /\ KeyInSequence(r, TRUE) /\ Merge(r, n)

\* A row whose key is new.
First(r) ==
  \/ ~KeyInSequence(r, FALSE) /\ Reject                               \* E2003
  \/ KeyInSequence(r, FALSE) /\ Add(r)

VerticalMapRow ==
  \E r \in RowsOf(opts) :
    /\ opts.layout = "map" /\ Read(r)
    /\ \/ /\ r.key = Empty /\ Has(0)       \* only one key may be empty: E2017
          /\ IF RecordOk(NewRecord, r) /\ ~RecordPresent(NewRecord, r)
             THEN Ignore ELSE Reject
       \/ ~Has(Key(r)) /\ First(r)
       \/ \E n \in 1..Len(records) :
            r.key # Empty /\ records[n].key = Key(r) /\ Repeat(r, n)

\* A keyed list takes an empty key for the key 0.
KeyedListRow ==
  \E r \in RowsOf(opts) :
    /\ opts.layout = "keyedList" /\ Read(r)
    /\ \/ ~Has(Key(r)) /\ First(r)
       \/ \E n \in 1..Len(records) : records[n].key = Key(r) /\ Repeat(r, n)

ListRow ==
  \E r \in RowsOf(opts) : opts.layout = "list" /\ Read(r) /\ Add(r)

EndOfRows ==
  /\ outcome = "parsing"
  /\ outcome' = IF bad THEN "failed" ELSE "parsed"
  /\ UNCHANGED <<opts, read, records, cards, bad>>

Next == VerticalMapRow \/ KeyedListRow \/ ListRow \/ EndOfRows

Spec == Init /\ [][Next]_vars
-----------------------------------------------------------------------------
(***************************************************************************)
(* Properties                                                              *)
(***************************************************************************)
RecordSet ==
  [key : Nat, val : Nat, tag : Nat,
   sub : IF opts.sub \in {"map", "horizontalMap"} THEN SUBSET Elems ELSE Seq(Elems)]

\* The variables keep their types.
TypeOK ==
  /\ opts \in Options
  /\ read \in Seq(RowsOf(opts)) /\ Len(read) <= MaxRows
  /\ records \in Seq(RecordSet)
  /\ cards \in [values : SUBSET Nat, count : Nat, last : Nat \cup {None}]
  /\ bad \in BOOLEAN /\ outcome \in {"parsing", "parsed", "failed"}

Keyed == opts.layout # "list"

\* Two records never share a key, whatever rows failed on the way.
KeysDistinct ==
  Keyed => \A m, n \in 1..Len(records) : records[m].key = records[n].key => m = n

\* The keys of the records count up without a gap from where the property
\* "sequence" of the key says, also when rows that fail are skipped.
KeysInSequence ==
  Keyed /\ opts.sequence # None =>
    \A n \in 1..Len(records) : records[n].key = opts.sequence + n - 1

\* The keys for which rows may merge into one record: those that are declared
\* not unique, and those over a list or map that grows row by row.
MayRepeat ==
  opts.uniqueKey = FALSE \/ (opts.uniqueKey = None /\ opts.sub \in {"list", "map"})
NoMerging == ~Keyed \/ ~MayRepeat

\* The property of the field tag holds of all the records together: no value
\* twice, no gap, all in order. Where rows merge into a record it need not:
\* only the first row of a record is checked.
TagsChecked ==
  NoMerging =>
    \A m, n \in 1..Len(records) :
      /\ opts.tag = "unique" /\ m # n /\ records[m].tag = records[n].tag =>
           opts.optional /\ records[n].tag = 0
      /\ opts.tag = "sequence" => records[n].tag = opts.first + n - 1
      /\ opts.tag \in Orders /\ m < n => InOrder(opts.tag, records[m].tag, records[n].tag)

InSub(sub) ==
  IF opts.sub \in {"map", "horizontalMap"} THEN sub ELSE {sub[i] : i \in 1..Len(sub)}

\* Everything in row r is in record rec (a 0 may be written over by a later row).
Holds(rec, r) ==
  /\ Key(r) = rec.key
  /\ ValueOf(r.val) \in {0, rec.val} /\ ValueOf(r.tag) \in {0, rec.tag}
  /\ \A i \in 1..Len(r.items) : Present(r.items[i]) => ElemOf(r.items[i]) \in InSub(rec.sub)

Nothing(r) ==
  /\ r.key = Empty /\ r.val = Empty /\ r.tag = Empty
  /\ \A i \in 1..Len(r.items) : ~Present(r.items[i])

\* As long as no row failed, what the rows say is in the record of their key, and
\* what a record says is said by rows of its key, those that failed included: no
\* value is lost or wanders from one record to another. (The rows of a
\* horizontal map with items that the code does not read are the finding about
\* HolesRefused.)
RowsKept ==
  /\ ~bad =>
       \A n \in 1..Len(read) :
         \/ Nothing(read[n])
         \/ opts.sub = "horizontalMap" /\ Hidden(Unsized, read[n].items)
         \/ \E m \in 1..Len(records) : Holds(records[m], read[n])
  /\ \A m \in 1..Len(records) :
       LET rec == records[m]
           mine == {n \in 1..Len(read) : Key(read[n]) = rec.key}
       IN /\ mine # {}
          /\ rec.val # 0 => \E n \in mine : read[n].val = rec.val
          /\ rec.tag # 0 => \E n \in mine : read[n].tag = rec.tag
          /\ \A e \in InSub(rec.sub) :
               \E n \in mine : \E i \in 1..Len(read[n].items) : ElemOf(read[n].items[i]) = e

\* A key that is given twice is never accepted where it may not be repeated.
RepeatedKeyFails ==
  Keyed /\ ~MayRepeat /\ ~bad =>
    \A m, n \in 1..Len(read) : m # n /\ read[m].key = read[n].key => read[n].key = Empty

\* A row changes one record at most, in which no value other than 0 changes,
\* or adds one; no record goes away or moves.
RowTouchesOneRecord ==
  [][/\ Len(records) <= Len(records') /\ Len(records') <= Len(records) + 1
     /\ \A m, n \in 1..Len(records) :
          records'[m] # records[m] /\ records'[n] # records[n] => m = n
     /\ records' # records /\ Len(records') = Len(records) =>
          \A n \in 1..Len(records) : /\ records'[n].key = records[n].key
                                     /\ records[n].val \in {0, records'[n].val}
                                     /\ records[n].tag \in {0, records'[n].tag}
    ]_vars

=============================================================================

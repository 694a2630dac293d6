---------------------------- MODULE MergeReduce ----------------------------
(***************************************************************************)
(* ParseMessage of internal/confgen/parser.go for several importers: each  *)
(* goroutine appends its message when it is done ("map"), then the caller  *)
(* merges the messages in that order with xproto.Merge ("reduce").         *)
(*                                                                         *)
(* A value in a map is represented by the importer it comes from, a list   *)
(* by the importers whose elements were appended, one entry per importer.  *)
(* Here an importer that fails makes Wait fail; budgets, and the errors of *)
(* earlier sheets of the workbook, are the subject of ConfGen.             *)
(***************************************************************************)
EXTENDS Integers, Sequences

CONSTANTS Importers, Maps, Lists, Singles, Keys, Contents

VARIABLES
  content, broken,  \* the importers' messages, and who fails (never change)
  outcome,          \* what ParseMessage returns
  arrived,          \* importers whose goroutine is over
  msgs,             \* the messages, in the order they were appended
  phase,            \* the caller: "wait", "merge", "duplicate" or "done"
  pos,              \* the message being merged
  left,             \* its populated fields that Range has still to visit
  maps, lists       \* the main message

inputVars == <<content, broken>>
mainVars == <<maps, lists>>
vars == <<content, broken, outcome, arrived, msgs, phase, pos, left, maps, lists>>

Promise == INSTANCE KeyedUnion

\* One importer alone is parsed without a merge, none is an error.
ASSUME ImportersAssumption == Importers # {}

ASSUME FieldsAssumption ==
  /\ Maps \cap Lists = {} /\ Maps \cap Singles = {} /\ Lists \cap Singles = {}
  /\ \A c \in Contents : /\ c.keys \in [Maps -> SUBSET Keys]
                         /\ c.populated \in SUBSET (Lists \cup Singles)

\* The fields that Range visits, in an undefined order.
Populated(i) == {f \in Maps : content[i].keys[f] # {}} \cup content[i].populated

\* (mutant of Has: the key is looked for in every map)
HasAnywhere(f, k) == \E g \in Maps, a \in Importers : <<k, a>> \in maps[g]

Has(f, k) == \E a \in Importers : <<k, a>> \in maps[f]

Init ==
  /\ content \in [Importers -> Contents]
  /\ broken \in SUBSET Importers
  /\ outcome = Promise!NoOutcome
  /\ arrived = {} /\ msgs = <<>>
  /\ phase = "wait" /\ pos = 1 /\ left = {}
  /\ maps = [f \in Maps |-> {}]
  /\ lists = [f \in Lists |-> <<>>]

\* The goroutine of importer i ends: its error is collected, or its message
\* appended under the mutex.
Arrive(i) ==
  /\ i \notin arrived
  /\ arrived' = arrived \cup {i}
  /\ msgs' = IF i \in broken THEN msgs ELSE Append(msgs, i)
  /\ UNCHANGED <<inputVars, outcome, phase, pos, left, mainVars>>

Return(o) == phase' = "done" /\ outcome' = o

\* Group.Wait.
Wait ==
  /\ phase = "wait" /\ arrived = Importers
  /\ IF broken # {}
     THEN Return(Promise!Failed) /\ UNCHANGED left
     ELSE phase' = "merge" /\ left' = Populated(msgs[1]) /\ UNCHANGED outcome
  /\ UNCHANGED <<inputVars, arrived, msgs, pos, mainVars>>

\* mergeList.
MergeList(f) ==
  /\ phase = "merge" /\ f \in left \cap Lists
  /\ lists' = [lists EXCEPT ![f] = Append(@, msgs[pos])]
  /\ left' = left \ {f}
  /\ UNCHANGED <<inputVars, outcome, arrived, msgs, phase, pos, maps>>

\* mergeMap: no key may be there already.  The keys that Range has set before it
\* meets one that is go away with the main message.
MergeMap(f) ==
  /\ phase = "merge" /\ f \in left \cap Maps
  /\ LET i == msgs[pos]
     IN  IF \E k \in content[i].keys[f] : Has(f, k)
         THEN phase' = "duplicate" /\ UNCHANGED <<maps, left>>
         ELSE /\ maps' = [maps EXCEPT ![f] = @ \cup (content[i].keys[f] \X {i})]
              /\ left' = left \ {f}
              /\ UNCHANGED phase
  /\ UNCHANGED <<inputVars, outcome, arrived, msgs, pos, lists>>

\* Any other populated field is an error.
MergeSingle(f) ==
  /\ phase = "merge" /\ f \in left \cap Singles
  /\ Return([kind |-> "unsupported", field |-> f, book |-> msgs[pos]])
  /\ UNCHANGED <<inputVars, arrived, msgs, pos, left, mainVars>>

NextMessage ==
  /\ phase = "merge" /\ left = {}
  /\ IF pos < Len(msgs)
     THEN /\ pos' = pos + 1 /\ left' = Populated(msgs[pos + 1])
          /\ UNCHANGED <<phase, outcome>>
     ELSE /\ Return([kind |-> "merged", maps |-> maps, lists |-> lists])
          /\ UNCHANGED <<pos, left>>
  /\ UNCHANGED <<inputVars, arrived, msgs, mainVars>>

Clashes(j, f, k) == k \in content[msgs[j]].keys[f] \cap content[msgs[pos]].keys[f]

\* (mutant of NameDuplicate: the previous message is named, whatever it has)
NameDuplicateLast ==
  /\ phase = "duplicate"
  /\ \E f \in Maps : \E k \in content[msgs[pos]].keys[f] :
       Return([kind |-> "duplicate", field |-> f, key |-> k, books |-> {msgs[pos - 1], msgs[pos]}])
  /\ UNCHANGED <<inputVars, arrived, msgs, pos, left, mainVars>>

\* CheckMapDuplicateKey against each message before, in order; of several keys
\* in common the last one that Range happens to visit is named.
NameDuplicate ==
  /\ phase = "duplicate"
  /\ \E j \in 1..(pos - 1) :
       /\ \A h \in 1..(j - 1) : \A f \in Maps : \A k \in Keys : ~Clashes(h, f, k)
       /\ \E f \in Maps : \E k \in Keys :
            /\ Clashes(j, f, k)
            /\ Return([kind |-> "duplicate", field |-> f, key |-> k, books |-> {msgs[j], msgs[pos]}])
  /\ UNCHANGED <<inputVars, arrived, msgs, pos, left, mainVars>>

Next ==
  \/ \E i \in Importers : Arrive(i)
  \/ Wait
  \/ \E f \in Lists : MergeList(f)
  \/ \E f \in Maps : MergeMap(f)
  \/ \E f \in Singles : MergeSingle(f)
  \/ NextMessage
  \/ NameDuplicate
  \/ phase = "done" /\ UNCHANGED vars

Spec == Init /\ [][Next]_vars
-----------------------------------------------------------------------------
TypeOK ==
  /\ content \in [Importers -> Contents]
  /\ broken \subseteq Importers
  /\ arrived \subseteq Importers
  /\ msgs \in Seq(Importers)
  /\ phase \in {"wait", "merge", "duplicate", "done"}
  /\ pos \in Nat \ {0}
  /\ left \subseteq Maps \cup Lists \cup Singles
  /\ maps \in [Maps -> SUBSET (Keys \X Importers)]
  /\ lists \in [Lists -> Seq(Importers)]

\* While the goroutines append, every importer that has arrived and did not fail
\* is in msgs once.
ArrivalInv ==
  /\ \A i \in Importers : (\E u \in DOMAIN msgs : msgs[u] = i) <=> i \in arrived \ broken
  /\ \A u \in DOMAIN msgs, v \in DOMAIN msgs : msgs[u] = msgs[v] => u = v
  /\ phase = "wait" => outcome = Promise!NoOutcome /\ pos = 1 /\ left = {}
  /\ phase \in {"merge", "duplicate"} => broken = {} /\ arrived = Importers /\ outcome = Promise!NoOutcome

\* Field f of message u has been merged.
Merged(u, f) == u < pos \/ (u = pos /\ f \notin left)

Merging == phase \in {"merge", "duplicate"}

\* Nothing is merged before every importer has arrived.
EmptyInv ==
  phase = "wait" => /\ \A f \in Maps : maps[f] = {}
                    /\ \A f \in Lists : lists[f] = <<>>

PosInv == Merging => pos \in DOMAIN msgs /\ left \subseteq Populated(msgs[pos])

\* Each map is exactly the union of what was merged.
MapsInv ==
  Merging =>
    \A f \in Maps : \A k \in Keys : \A i \in Importers :
      <<k, i>> \in maps[f] <=>
        \E u \in DOMAIN msgs : msgs[u] = i /\ Merged(u, f) /\ k \in content[i].keys[f]

\* No key that was merged is in two messages.
KeysInv ==
  Merging =>
    \A f \in Maps : \A k \in Keys : \A u \in DOMAIN msgs, v \in DOMAIN msgs :
      /\ Merged(u, f) /\ k \in content[msgs[u]].keys[f]
      /\ Merged(v, f) /\ k \in content[msgs[v]].keys[f]
      => u = v

\* No field that was merged is one that cannot be.
SinglesInv ==
  Merging =>
    \A f \in Singles : \A u \in DOMAIN msgs :
      Merged(u, f) => f \notin content[msgs[u]].populated

\* Each list has a block of each message merged that has one, in arrival order.
ListsInv ==
  Merging =>
    \A f \in Lists :
      /\ \A i \in Importers :
           (\E n \in DOMAIN lists[f] : lists[f][n] = i) <=>
             \E u \in DOMAIN msgs : msgs[u] = i /\ Merged(u, f) /\ f \in content[i].populated
      /\ \A m \in DOMAIN lists[f], n \in DOMAIN lists[f] : m < n =>
           \E u \in DOMAIN msgs, v \in DOMAIN msgs :
             u < v /\ msgs[u] = lists[f][m] /\ msgs[v] = lists[f][n]

\* The main message while it grows.
MainInv == EmptyInv /\ PosInv /\ MapsInv /\ KeysInv /\ SinglesInv /\ ListsInv

\* The invariant that carries the proofs.
MergeInv == ArrivalInv /\ MainInv

\* A duplicate that mergeMap reports is always found again between two messages:
\* the error never goes out without naming both workbooks.
DuplicateInv ==
  phase = "duplicate" => \E j \in 1..(pos - 1) : \E f \in Maps : \E k \in Keys : Clashes(j, f, k)

\* The result is the one KeyedUnion promises, in whatever order the importers
\* finish and Range visits the fields.
MergeIsKeyedUnion == Promise!Spec
=============================================================================

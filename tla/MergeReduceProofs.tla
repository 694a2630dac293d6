------------------------ MODULE MergeReduceProofs ------------------------
(***************************************************************************)
(* Theorems of MergeReduce, for any importers, fields, keys and messages.  *)
(*                                                                         *)
(* ArrivalInv says what msgs holds while the goroutines end, MainInv what  *)
(* the main message holds while the caller merges; both are inductive with *)
(* TypeOK.  Together they give the outcome that KeyedUnion promises.       *)
(***************************************************************************)
EXTENDS MergeReduce, TLAPS

Base == TypeOK /\ ArrivalInv /\ MainInv

LEMMA PopulatedType ==
  ASSUME TypeOK, NEW u \in DOMAIN msgs
  PROVE  Populated(msgs[u]) \subseteq Maps \cup Lists \cup Singles
<1>1. msgs[u] \in Importers
  BY DEF TypeOK
<1>2. content[msgs[u]] \in Contents
  BY <1>1 DEF TypeOK
<1> QED
  BY <1>1, <1>2, FieldsAssumption DEF Populated

LEMMA KeysType ==
  ASSUME TypeOK, NEW i \in Importers, NEW f \in Maps
  PROVE  content[i].keys[f] \subseteq Keys
<1>1. content[i] \in Contents
  BY DEF TypeOK
<1> QED
  BY <1>1, FieldsAssumption

\* After Wait the first message is there.
LEMMA FirstMessage ==
  ASSUME TypeOK, ArrivalInv, Wait, broken = {}
  PROVE  1 \in DOMAIN msgs
<1>1. PICK i \in Importers : TRUE
  BY ImportersAssumption
<1>2. i \in arrived \ broken
  BY DEF Wait
<1>3. PICK u \in DOMAIN msgs : msgs[u] = i
  BY <1>2 DEF ArrivalInv
<1> QED
  BY <1>3 DEF TypeOK
-----------------------------------------------------------------------------
LEMMA InitBase == Init => Base
<1> SUFFICES ASSUME Init PROVE Base
  OBVIOUS
<1>1. TypeOK
  BY DEF Init, TypeOK
<1>2. ArrivalInv
  BY DEF Init, ArrivalInv
<1>3. MainInv
  BY DEF Init, MainInv, EmptyInv, PosInv, MapsInv, KeysInv, SinglesInv, ListsInv, Merging
<1> QED
  BY <1>1, <1>2, <1>3 DEF Base

\* Every step keeps the types.
LEMMA TypeStep == Base /\ [Next]_vars => TypeOK'
<1> SUFFICES ASSUME Base, [Next]_vars PROVE TypeOK'
  OBVIOUS
<1> USE DEF Base
<1>1. ASSUME NEW i \in Importers, Arrive(i) PROVE TypeOK'
  BY <1>1 DEF TypeOK, Arrive, inputVars, mainVars
<1>2. CASE Wait
  <2>1. CASE broken # {}
    BY <1>2, <2>1 DEF TypeOK, Wait, Return, inputVars, mainVars
  <2>2. CASE broken = {}
    <3>1. left' \subseteq Maps \cup Lists \cup Singles
      BY <1>2, <2>2, FirstMessage, PopulatedType DEF Wait
    <3> QED
      BY <1>2, <2>2, <3>1 DEF TypeOK, Wait, Return, inputVars, mainVars
  <2> QED
    BY <2>1, <2>2
<1>3. ASSUME NEW f \in Lists, MergeList(f) PROVE TypeOK'
  <2>1. msgs[pos] \in Importers
    BY <1>3 DEF TypeOK, MergeList, MainInv, PosInv, Merging
  <2> QED
    BY <1>3, <2>1 DEF TypeOK, MergeList, inputVars
<1>4. ASSUME NEW f \in Maps, MergeMap(f) PROVE TypeOK'
  <2>1. msgs[pos] \in Importers
    BY <1>4 DEF TypeOK, MergeMap, MainInv, PosInv, Merging
  <2>2. content[msgs[pos]].keys[f] \X {msgs[pos]} \subseteq Keys \X Importers
    BY <2>1, KeysType
  <2>3. maps' \in [Maps -> SUBSET (Keys \X Importers)]
    BY <1>4, <2>2 DEF TypeOK, MergeMap
  <2> QED
    BY <1>4, <2>3 DEF TypeOK, MergeMap, inputVars
<1>5. ASSUME NEW f \in Singles, MergeSingle(f) PROVE TypeOK'
  BY <1>5 DEF TypeOK, MergeSingle, Return, inputVars, mainVars
<1>6. CASE NextMessage
  <2>1. CASE pos < Len(msgs)
    <3>1. pos + 1 \in DOMAIN msgs
      BY <2>1 DEF TypeOK
    <3>2. left' \subseteq Maps \cup Lists \cup Singles
      BY <1>6, <2>1, <3>1, PopulatedType DEF NextMessage
    <3> QED
      BY <1>6, <2>1, <3>2 DEF TypeOK, NextMessage, Return, inputVars, mainVars
  <2>2. CASE ~(pos < Len(msgs))
    BY <1>6, <2>2 DEF TypeOK, NextMessage, Return, inputVars, mainVars
  <2> QED
    BY <2>1, <2>2
<1>7. CASE NameDuplicate
  BY <1>7 DEF TypeOK, NameDuplicate, Return, inputVars, mainVars
<1>8. CASE UNCHANGED vars
  BY <1>8 DEF TypeOK, vars
<1> QED
  BY <1>1, <1>2, <1>3, <1>4, <1>5, <1>6, <1>7, <1>8 DEF Next

\* Every step keeps what is known of the arrivals.
LEMMA ArrivalStep == Base /\ [Next]_vars => ArrivalInv'
<1> SUFFICES ASSUME Base, [Next]_vars PROVE ArrivalInv'
  OBVIOUS
<1> USE DEF Base
<1>1. ASSUME NEW i \in Importers, Arrive(i) PROVE ArrivalInv'
  <2>1. phase' = phase /\ outcome' = outcome /\ pos' = pos /\ left' = left /\ broken' = broken
    BY <1>1 DEF Arrive, inputVars
  <2>2. phase \notin {"merge", "duplicate"}
    BY <1>1 DEF Arrive, ArrivalInv
  <2>3. CASE i \in broken
    BY <1>1, <2>1, <2>2, <2>3 DEF ArrivalInv, Arrive
  <2>4. CASE i \notin broken
    <3>1. msgs' = Append(msgs, i) /\ arrived' = arrived \cup {i}
      BY <1>1, <2>4 DEF Arrive
    <3>2. /\ DOMAIN msgs' = DOMAIN msgs \cup {Len(msgs) + 1}
          /\ Len(msgs) + 1 \notin DOMAIN msgs
          /\ msgs'[Len(msgs) + 1] = i
          /\ \A u \in DOMAIN msgs : msgs'[u] = msgs[u]
      BY <3>1 DEF TypeOK
    <3>3. \A u \in DOMAIN msgs : msgs[u] # i
      BY <1>1 DEF Arrive, ArrivalInv
    <3>4. \A j \in Importers : (\E u \in DOMAIN msgs' : msgs'[u] = j) <=> j \in arrived' \ broken'
      BY <3>1, <3>2, <2>1, <2>4 DEF ArrivalInv
    <3>5. \A u \in DOMAIN msgs', v \in DOMAIN msgs' : msgs'[u] = msgs'[v] => u = v
      BY <3>2, <3>3 DEF ArrivalInv
    <3> QED
      BY <2>1, <2>2, <3>4, <3>5 DEF ArrivalInv
  <2> QED
    BY <2>3, <2>4
<1>2. CASE Wait
  BY <1>2 DEF ArrivalInv, Wait, Return, inputVars
<1>3. ASSUME NEW f \in Lists, MergeList(f) PROVE ArrivalInv'
  BY <1>3 DEF ArrivalInv, MergeList, inputVars
<1>4. ASSUME NEW f \in Maps, MergeMap(f) PROVE ArrivalInv'
  BY <1>4 DEF ArrivalInv, MergeMap, inputVars
<1>5. ASSUME NEW f \in Singles, MergeSingle(f) PROVE ArrivalInv'
  BY <1>5 DEF ArrivalInv, MergeSingle, Return, inputVars
<1>6. CASE NextMessage
  BY <1>6 DEF ArrivalInv, NextMessage, Return, inputVars
<1>7. CASE NameDuplicate
  BY <1>7 DEF ArrivalInv, NameDuplicate, Return, inputVars
<1>8. CASE UNCHANGED vars
  BY <1>8 DEF ArrivalInv, vars, inputVars
<1> QED
  BY <1>1, <1>2, <1>3, <1>4, <1>5, <1>6, <1>7, <1>8 DEF Next
-----------------------------------------------------------------------------
\* The block that mergeList appends is the last one, and its message is behind
\* those of the blocks that are there.
LEMMA MergeListLists ==
  ASSUME Base, NEW f \in Lists, MergeList(f)
  PROVE  ListsInv'
<1> USE DEF Base
<1>1. /\ phase = "merge" /\ phase' = phase /\ f \in left /\ left' = left \ {f}
      /\ pos' = pos /\ msgs' = msgs /\ content' = content
      /\ lists' = [lists EXCEPT ![f] = Append(@, msgs[pos])]
  BY DEF MergeList, inputVars
<1>2. pos \in DOMAIN msgs /\ f \in content[msgs[pos]].populated /\ pos \in Nat
  <2>1. pos \in DOMAIN msgs /\ f \in Populated(msgs[pos])
    BY <1>1 DEF MainInv, PosInv, Merging
  <2> QED
    BY <2>1, FieldsAssumption DEF Populated, TypeOK
<1>3. \A u \in DOMAIN msgs : \A g : Merged(u, g)' <=> Merged(u, g) \/ (u = pos /\ g = f)
  BY <1>1, <1>2 DEF Merged
<1>4. \A g \in Lists : g # f => lists'[g] = lists[g]
  BY <1>1 DEF TypeOK
<1>5. /\ lists[f] \in Seq(Importers) /\ lists'[f] = Append(lists[f], msgs[pos])
      /\ msgs[pos] \in Importers
  BY <1>1, <1>2 DEF TypeOK
<1>6. /\ DOMAIN lists'[f] = DOMAIN lists[f] \cup {Len(lists[f]) + 1}
      /\ lists'[f][Len(lists[f]) + 1] = msgs[pos]
      /\ \A n \in DOMAIN lists[f] : lists'[f][n] = lists[f][n] /\ n < Len(lists[f]) + 1
  BY <1>5
<1>7. ListsInv
  BY DEF MainInv
<1>8. ASSUME NEW g \in Lists, NEW i \in Importers
      PROVE  (\E n \in DOMAIN lists'[g] : lists'[g][n] = i) <=>
               \E u \in DOMAIN msgs : msgs[u] = i /\ Merged(u, g)' /\ g \in content[i].populated
  <2>1. (\E n \in DOMAIN lists[g] : lists[g][n] = i) <=>
          \E u \in DOMAIN msgs : msgs[u] = i /\ Merged(u, g) /\ g \in content[i].populated
    BY <1>1, <1>7 DEF ListsInv, Merging
  <2>2. CASE g # f
    BY <1>3, <1>4, <2>1, <2>2
  <2>3. CASE g = f
    BY <1>2, <1>3, <1>6, <2>1, <2>3
  <2> QED
    BY <2>2, <2>3
<1>9. ASSUME NEW g \in Lists, NEW m \in DOMAIN lists'[g], NEW n \in DOMAIN lists'[g], m < n
      PROVE  \E u \in DOMAIN msgs, v \in DOMAIN msgs :
               u < v /\ msgs[u] = lists'[g][m] /\ msgs[v] = lists'[g][n]
  <2>1. \A x \in DOMAIN lists[g], y \in DOMAIN lists[g] : x < y =>
          \E u \in DOMAIN msgs, v \in DOMAIN msgs :
            u < v /\ msgs[u] = lists[g][x] /\ msgs[v] = lists[g][y]
    BY <1>1, <1>7 DEF ListsInv, Merging
  <2>2. CASE g # f
    BY <1>4, <1>9, <2>1, <2>2
  <2>3. CASE g = f /\ n \in DOMAIN lists[f]
    <3>1. m \in DOMAIN lists[f]
      BY <1>5, <1>6, <1>9, <2>3
    <3> QED
      BY <1>6, <1>9, <2>1, <2>3, <3>1
  <2>4. CASE g = f /\ n = Len(lists[f]) + 1
    <3>1. m \in DOMAIN lists[f]
      BY <1>5, <1>6, <1>9, <2>4
    <3>2. lists[f][m] \in Importers /\ lists'[f][m] = lists[f][m]
      BY <1>5, <1>6, <3>1
    <3>3. PICK u \in DOMAIN msgs : msgs[u] = lists[f][m] /\ Merged(u, f)
      BY <1>1, <1>7, <3>1, <3>2 DEF ListsInv, Merging
    <3>4. u < pos
      BY <1>1, <3>3 DEF Merged
    <3> QED
      BY <1>2, <1>6, <2>4, <3>2, <3>3, <3>4
  <2> QED
    BY <1>6, <2>2, <2>3, <2>4
<1> QED
  BY <1>1, <1>8, <1>9 DEF ListsInv

\* mergeMap without a duplicate adds the keys of one message, which nobody had.
LEMMA MergeMapMain ==
  ASSUME Base, NEW f \in Maps, MergeMap(f), ~ \E k \in content[msgs[pos]].keys[f] : Has(f, k)
  PROVE  MainInv'
<1> USE DEF Base
<1>1. /\ phase = "merge" /\ phase' = phase /\ f \in left /\ left' = left \ {f}
      /\ pos' = pos /\ msgs' = msgs /\ content' = content /\ lists' = lists
      /\ maps' = [maps EXCEPT ![f] = @ \cup (content[msgs[pos]].keys[f] \X {msgs[pos]})]
  BY DEF MergeMap, inputVars
<1>2. pos \in DOMAIN msgs /\ msgs[pos] \in Importers /\ pos \in Nat
  BY <1>1 DEF MainInv, PosInv, Merging, TypeOK
<1>3. \A u \in DOMAIN msgs : \A g : Merged(u, g)' <=> Merged(u, g) \/ (u = pos /\ g = f)
  BY <1>1, <1>2 DEF Merged
<1>4. EmptyInv' /\ PosInv'
  BY <1>1 DEF EmptyInv, PosInv, Populated, MainInv, Merging
<1>5. \A u \in DOMAIN msgs, g \in Lists \cup Singles : Merged(u, g)' <=> Merged(u, g)
  BY <1>3, FieldsAssumption
<1>6. SinglesInv' /\ ListsInv'
  BY <1>1, <1>5 DEF SinglesInv, ListsInv, MainInv, Merging
<1>7. \A k \in Keys, i \in Importers, g \in Maps :
        <<k, i>> \in maps'[g] <=>
          <<k, i>> \in maps[g] \/ (g = f /\ i = msgs[pos] /\ k \in content[i].keys[f])
  BY <1>1, <1>2 DEF TypeOK
<1>8. MapsInv'
  <2> SUFFICES ASSUME NEW g \in Maps, NEW k \in Keys, NEW i \in Importers
               PROVE  <<k, i>> \in maps'[g] <=>
                        \E u \in DOMAIN msgs : msgs[u] = i /\ Merged(u, g)' /\ k \in content[i].keys[g]
    BY <1>1 DEF MapsInv
  <2>1. <<k, i>> \in maps[g] <=>
          \E u \in DOMAIN msgs : msgs[u] = i /\ Merged(u, g) /\ k \in content[i].keys[g]
    BY <1>1 DEF MapsInv, MainInv, Merging
  <2> QED
    BY <1>2, <1>3, <1>7, <2>1
<1>9. KeysInv'
  <2> SUFFICES ASSUME NEW g \in Maps, NEW k \in Keys, NEW u \in DOMAIN msgs, NEW v \in DOMAIN msgs,
                      Merged(u, g)', k \in content[msgs[u]].keys[g],
                      Merged(v, g)', k \in content[msgs[v]].keys[g]
               PROVE  u = v
    BY <1>1 DEF KeysInv
  <2>1. ASSUME NEW w \in DOMAIN msgs, Merged(w, f), k \in content[msgs[w]].keys[f]
        PROVE  k \notin content[msgs[pos]].keys[f]
    <3>1. msgs[w] \in Importers
      BY DEF TypeOK
    <3>2. <<k, msgs[w]>> \in maps[f]
      BY <1>1, <2>1, <3>1 DEF MapsInv, MainInv, Merging
    <3> QED
      BY <3>1, <3>2 DEF Has
  <2>2. CASE Merged(u, g) /\ Merged(v, g)
    BY <1>1, <2>2 DEF KeysInv, MainInv, Merging
  <2>3. CASE ~(Merged(u, g) /\ Merged(v, g))
    BY <1>3, <2>1, <2>3
  <2> QED
    BY <2>2, <2>3
<1> QED
  BY <1>4, <1>6, <1>8, <1>9 DEF MainInv

\* The next message has nothing merged but what it has nothing of.
LEMMA NextMessageMain ==
  ASSUME Base, NextMessage, pos < Len(msgs)
  PROVE  MainInv'
<1> USE DEF Base
<1>1. /\ phase = "merge" /\ phase' = phase /\ left = {} /\ left' = Populated(msgs[pos + 1])
      /\ pos' = pos + 1 /\ msgs' = msgs /\ content' = content /\ lists' = lists /\ maps' = maps
  BY DEF NextMessage, inputVars, mainVars
<1>2. pos + 1 \in DOMAIN msgs /\ pos \in Nat
  BY DEF TypeOK
<1>3. \A u \in DOMAIN msgs : \A f :
        Merged(u, f)' <=> Merged(u, f) \/ (u = pos + 1 /\ f \notin Populated(msgs[u]))
  BY <1>1, <1>2 DEF Merged, TypeOK
<1>4. EmptyInv' /\ PosInv'
  BY <1>1, <1>2 DEF EmptyInv, PosInv, Populated
<1>5. \A u \in DOMAIN msgs, f \in Maps, k \in Keys :
        k \in content[msgs[u]].keys[f] => (Merged(u, f)' <=> Merged(u, f))
  BY <1>3 DEF Populated
<1>6. MapsInv' /\ KeysInv'
  BY <1>1, <1>5 DEF MapsInv, KeysInv, MainInv, Merging
<1>7. \A u \in DOMAIN msgs : \A f :
        f \in content[msgs[u]].populated => (Merged(u, f)' <=> Merged(u, f))
  BY <1>3 DEF Populated
<1>8. SinglesInv' /\ ListsInv'
  BY <1>1, <1>7 DEF SinglesInv, ListsInv, MainInv, Merging
<1> QED
  BY <1>4, <1>6, <1>8 DEF MainInv

\* Every step keeps what is known of the main message.
LEMMA MainStep == Base /\ [Next]_vars => MainInv'
<1> SUFFICES ASSUME Base, [Next]_vars PROVE MainInv'
  OBVIOUS
<1> USE DEF Base
<1>1. ASSUME NEW i \in Importers, Arrive(i) PROVE MainInv'
  <2>1. ~Merging /\ phase' = phase /\ maps' = maps /\ lists' = lists
    BY <1>1 DEF Arrive, ArrivalInv, Merging, mainVars
  <2> QED
    BY <2>1 DEF MainInv, EmptyInv, PosInv, MapsInv, KeysInv, SinglesInv, ListsInv, Merging
<1>2. CASE Wait
  <2>1. CASE broken # {}
    <3>1. phase' = "done"
      BY <1>2, <2>1 DEF Wait, Return
    <3> QED
      BY <3>1 DEF MainInv, EmptyInv, PosInv, MapsInv, KeysInv, SinglesInv, ListsInv, Merging
  <2>2. CASE broken = {}
    <3>1. /\ phase = "wait" /\ phase' = "merge" /\ left' = Populated(msgs[1])
          /\ pos' = 1 /\ msgs' = msgs /\ maps' = maps /\ lists' = lists /\ content' = content
      BY <1>2, <2>2 DEF Wait, ArrivalInv, inputVars, mainVars
    <3>2. 1 \in DOMAIN msgs /\ 1 \in DOMAIN msgs'
      BY <1>2, <2>2, <3>1, FirstMessage
    <3>3. EmptyInv' /\ PosInv'
      BY <3>1, <3>2 DEF EmptyInv, PosInv, Populated
    <3>4. \A u \in DOMAIN msgs : \A f : Merged(u, f)' => u = 1 /\ f \notin Populated(msgs[1])
      BY <3>1 DEF Merged, TypeOK
    <3>5. \A u \in DOMAIN msgs, f \in Maps : Merged(u, f)' => content[msgs[u]].keys[f] = {}
      BY <3>4 DEF Populated
    <3>6. MapsInv'
      BY <3>1, <3>5 DEF MapsInv, MainInv, EmptyInv
    <3>7. KeysInv'
      BY <3>1, <3>5 DEF KeysInv
    <3>8. SinglesInv'
      BY <3>1, <3>4 DEF SinglesInv, Populated
    <3>9. ListsInv'
      BY <3>1, <3>4 DEF ListsInv, MainInv, EmptyInv, Populated
    <3> QED
      BY <3>3, <3>6, <3>7, <3>8, <3>9 DEF MainInv
  <2> QED
    BY <2>1, <2>2
<1>3. ASSUME NEW f \in Lists, MergeList(f) PROVE MainInv'
  <2>1. /\ phase = "merge" /\ phase' = phase /\ f \in left /\ left' = left \ {f}
        /\ pos' = pos /\ msgs' = msgs /\ maps' = maps /\ content' = content
        /\ lists' = [lists EXCEPT ![f] = Append(@, msgs[pos])]
    BY <1>3 DEF MergeList, inputVars
  <2>2. pos \in DOMAIN msgs /\ f \in content[msgs[pos]].populated
    <3>1. pos \in DOMAIN msgs /\ f \in Populated(msgs[pos])
      BY <2>1 DEF MainInv, PosInv, Merging
    <3> QED
      BY <3>1, FieldsAssumption DEF Populated
  <2>3. \A u \in DOMAIN msgs : \A g : Merged(u, g)' <=> Merged(u, g) \/ (u = pos /\ g = f)
    BY <2>1 DEF Merged, TypeOK
  <2>4. EmptyInv' /\ PosInv'
    BY <2>1 DEF EmptyInv, PosInv, Populated, MainInv, Merging
  <2>5. \A u \in DOMAIN msgs, g \in Maps \cup Singles : Merged(u, g)' <=> Merged(u, g)
    BY <2>3, FieldsAssumption
  <2>6. MapsInv' /\ KeysInv' /\ SinglesInv'
    BY <2>1, <2>5 DEF MapsInv, KeysInv, SinglesInv, MainInv, Merging
  <2>7. ListsInv'
    BY <1>3, MergeListLists
  <2> QED
    BY <2>4, <2>6, <2>7 DEF MainInv
<1>4. ASSUME NEW f \in Maps, MergeMap(f) PROVE MainInv'
  <2>1. CASE \E k \in content[msgs[pos]].keys[f] : Has(f, k)
    <3>1. /\ phase = "merge" /\ phase' = "duplicate" /\ left' = left
          /\ pos' = pos /\ msgs' = msgs /\ maps' = maps /\ content' = content /\ lists' = lists
      BY <1>4, <2>1 DEF MergeMap, inputVars
    <3> QED
      BY <3>1 DEF MainInv, EmptyInv, PosInv, MapsInv, KeysInv, SinglesInv, ListsInv, Merging, Merged, Populated
  <2>2. CASE ~ \E k \in content[msgs[pos]].keys[f] : Has(f, k)
    BY <1>4, <2>2, MergeMapMain
  <2> QED
    BY <2>1, <2>2
<1>5. ASSUME NEW f \in Singles, MergeSingle(f) PROVE MainInv'
  <2>1. phase' = "done"
    BY <1>5 DEF MergeSingle, Return
  <2> QED
    BY <2>1 DEF MainInv, EmptyInv, PosInv, MapsInv, KeysInv, SinglesInv, ListsInv, Merging
<1>6. CASE NextMessage
  <2>1. CASE pos < Len(msgs)
    BY <1>6, <2>1, NextMessageMain
  <2>2. CASE ~(pos < Len(msgs))
    <3>1. phase' = "done"
      BY <1>6, <2>2 DEF NextMessage, Return
    <3> QED
      BY <3>1 DEF MainInv, EmptyInv, PosInv, MapsInv, KeysInv, SinglesInv, ListsInv, Merging
  <2> QED
    BY <2>1, <2>2
<1>7. CASE NameDuplicate
  <2>1. phase' = "done"
    BY <1>7 DEF NameDuplicate, Return
  <2> QED
    BY <2>1 DEF MainInv, EmptyInv, PosInv, MapsInv, KeysInv, SinglesInv, ListsInv, Merging
<1>8. CASE UNCHANGED vars
  BY <1>8 DEF MainInv, EmptyInv, PosInv, MapsInv, KeysInv, SinglesInv, ListsInv, Merging, Merged, Populated,
              vars, inputVars, mainVars
<1> QED
  BY <1>1, <1>2, <1>3, <1>4, <1>5, <1>6, <1>7, <1>8 DEF Next
-----------------------------------------------------------------------------
LEMMA BaseStep == Base /\ [Next]_vars => Base'
BY TypeStep, ArrivalStep, MainStep DEF Base

LEMMA BaseCorrect == Spec => []Base
BY InitBase, BaseStep, PTL DEF Spec

\* Every run keeps the types: the maps hold keys of importers, the lists blocks
\* of importers (ParseMessage and xproto.Merge).
THEOREM TypeCorrect == Spec => []TypeOK
<1>1. Base => TypeOK
  BY DEF Base
<1> QED
  BY <1>1, BaseCorrect, PTL

\* While it grows the main message is the union of the messages merged so far,
\* each field from every importer that has it once (the loop over
\* protoMsgs in ParseMessage).
THEOREM MergeFaithful == Spec => []MergeInv
<1>1. Base => MergeInv
  BY DEF Base, MergeInv
<1> QED
  BY <1>1, BaseCorrect, PTL

\* A duplicate of mergeMap is one of an earlier message, so that the search of
\* CheckMapDuplicateKey finds both workbooks' names.
LEMMA DuplicateStep == Base /\ DuplicateInv /\ [Next]_vars => DuplicateInv'
<1> SUFFICES ASSUME Base, DuplicateInv, [Next]_vars PROVE DuplicateInv'
  OBVIOUS
<1> USE DEF Base
<1>1. ASSUME NEW i \in Importers, Arrive(i) PROVE DuplicateInv'
  <2>1. phase' # "duplicate"
    BY <1>1 DEF Arrive, ArrivalInv
  <2> QED
    BY <2>1 DEF DuplicateInv
<1>2. CASE Wait
  <2>1. phase' # "duplicate"
    BY <1>2 DEF Wait, Return
  <2> QED
    BY <2>1 DEF DuplicateInv
<1>3. ASSUME NEW f \in Lists, MergeList(f) PROVE DuplicateInv'
  <2>1. phase' # "duplicate"
    BY <1>3 DEF MergeList
  <2> QED
    BY <2>1 DEF DuplicateInv
<1>4. ASSUME NEW f \in Maps, MergeMap(f) PROVE DuplicateInv'
  <2>1. CASE \E k \in content[msgs[pos]].keys[f] : Has(f, k)
    <3>1. /\ phase = "merge" /\ f \in left
          /\ pos' = pos /\ msgs' = msgs /\ content' = content
      BY <1>4, <2>1 DEF MergeMap, inputVars
    <3>2. pos \in DOMAIN msgs /\ msgs[pos] \in Importers /\ pos \in Nat
      BY <3>1 DEF MainInv, PosInv, Merging, TypeOK
    <3>3. PICK k \in content[msgs[pos]].keys[f], a \in Importers : <<k, a>> \in maps[f]
      BY <2>1 DEF Has
    <3>4. k \in Keys
      BY <3>2, KeysType
    <3>5. PICK u \in DOMAIN msgs : msgs[u] = a /\ Merged(u, f) /\ k \in content[a].keys[f]
      BY <3>1, <3>3, <3>4 DEF MapsInv, MainInv, Merging
    <3>6. u \in 1..(pos - 1)
      BY <3>1, <3>2, <3>5 DEF Merged, TypeOK
    <3> QED
      BY <3>1, <3>3, <3>4, <3>5, <3>6 DEF DuplicateInv, Clashes
  <2>2. CASE ~ \E k \in content[msgs[pos]].keys[f] : Has(f, k)
    <3>1. phase' # "duplicate"
      BY <1>4, <2>2 DEF MergeMap
    <3> QED
      BY <3>1 DEF DuplicateInv
  <2> QED
    BY <2>1, <2>2
<1>5. ASSUME NEW f \in Singles, MergeSingle(f) PROVE DuplicateInv'
  <2>1. phase' # "duplicate"
    BY <1>5 DEF MergeSingle, Return
  <2> QED
    BY <2>1 DEF DuplicateInv
<1>6. CASE NextMessage
  <2>1. phase' # "duplicate"
    BY <1>6 DEF NextMessage, Return
  <2> QED
    BY <2>1 DEF DuplicateInv
<1>7. CASE NameDuplicate
  <2>1. phase' # "duplicate"
    BY <1>7 DEF NameDuplicate, Return
  <2> QED
    BY <2>1 DEF DuplicateInv
<1>8. CASE UNCHANGED vars
  BY <1>8 DEF DuplicateInv, Clashes, vars, inputVars
<1> QED
  BY <1>1, <1>2, <1>3, <1>4, <1>5, <1>6, <1>7, <1>8 DEF Next

\* In every run the duplicate that stops the merge can be named with the two
\* workbooks that have it (ParseMessage's search with CheckMapDuplicateKey).
THEOREM DuplicateNamed == Spec => []DuplicateInv
<1>1. Init => DuplicateInv
  BY DEF Init, DuplicateInv
<1> QED
  BY <1>1, DuplicateStep, BaseCorrect, PTL DEF Spec
-----------------------------------------------------------------------------
\* The order in which the messages were appended.
Arrival == {e \in Importers \X Importers :
              \E u \in DOMAIN msgs, v \in DOMAIN msgs : u < v /\ msgs[u] = e[1] /\ msgs[v] = e[2]}

LEMMA ArrivalOrder ==
  ASSUME Base, Merging
  PROVE  Promise!IsOrder(Arrival)
<1> USE DEF Base
<1>1. \A i \in Importers : \E u \in DOMAIN msgs : msgs[u] = i
  BY DEF ArrivalInv, Merging
<1>2. \A u \in DOMAIN msgs, v \in DOMAIN msgs : msgs[u] = msgs[v] => u = v
  BY DEF ArrivalInv
<1>3. DOMAIN msgs \subseteq Nat
  BY DEF TypeOK
<1>4. ASSUME NEW a \in Importers, NEW b \in Importers, a # b
      PROVE  <<a, b>> \in Arrival \/ <<b, a>> \in Arrival
  <2>1. PICK u \in DOMAIN msgs, v \in DOMAIN msgs : msgs[u] = a /\ msgs[v] = b
    BY <1>1
  <2>2. u < v \/ v < u
    BY <1>3, <1>4, <2>1
  <2> QED
    BY <2>1, <2>2 DEF Arrival
<1>5. ASSUME NEW a \in Importers PROVE <<a, a>> \notin Arrival
  BY <1>2, <1>3 DEF Arrival
<1>6. ASSUME NEW a \in Importers, NEW b \in Importers, NEW c \in Importers,
             <<a, b>> \in Arrival, <<b, c>> \in Arrival
      PROVE  <<a, c>> \in Arrival
  <2>1. PICK u \in DOMAIN msgs, v \in DOMAIN msgs : u < v /\ msgs[u] = a /\ msgs[v] = b
    BY <1>6 DEF Arrival
  <2>2. PICK w \in DOMAIN msgs, x \in DOMAIN msgs : w < x /\ msgs[w] = b /\ msgs[x] = c
    BY <1>6 DEF Arrival
  <2>3. v = w
    BY <1>2, <2>1, <2>2
  <2>4. u < x
    BY <1>3, <2>1, <2>2, <2>3
  <2> QED
    BY <2>1, <2>2, <2>4 DEF Arrival
<1> QED
  BY <1>4, <1>5, <1>6 DEF Promise!IsOrder

\* At the end of the merge nothing stood against it, and the main message is the
\* union.
LEMMA MergedIsUnion ==
  ASSUME Base, phase = "merge", left = {}, ~(pos < Len(msgs))
  PROVE  /\ broken = {}
         /\ Promise!Mergeable
         /\ Promise!IsMerged([kind |-> "merged", maps |-> maps, lists |-> lists])
<1> USE DEF Base
<1>1. broken = {} /\ arrived = Importers
  BY DEF ArrivalInv
<1>2. \A u \in DOMAIN msgs : \A f : Merged(u, f)
  BY DEF Merged, TypeOK, MainInv, PosInv, Merging
<1>3. \A i \in Importers : \E u \in DOMAIN msgs : msgs[u] = i
  BY <1>1 DEF ArrivalInv
<1>4. Promise!Mergeable
  <2>1. ASSUME NEW a \in Importers PROVE content[a].populated \cap Singles = {}
    BY <1>2, <1>3 DEF MainInv, SinglesInv, Merging
  <2>2. ASSUME NEW a \in Importers, NEW b \in Importers, NEW f \in Maps, NEW k \in Keys
        PROVE  ~Promise!Shares(a, b, f, k)
    BY <1>2, <1>3 DEF MainInv, KeysInv, Merging, Promise!Shares
  <2> QED
    BY <2>1, <2>2 DEF Promise!Mergeable
<1>5. ASSUME NEW f \in Maps PROVE maps[f] = Promise!Union(f)
  <2>1. maps[f] \subseteq Keys \X Importers
    BY DEF TypeOK
  <2>2. \A k \in Keys, i \in Importers : <<k, i>> \in maps[f] <=> k \in content[i].keys[f]
    BY <1>2, <1>3 DEF MainInv, MapsInv, Merging
  <2>3. \A e \in Keys \X Importers : e \in maps[f] <=> e[1] \in content[e[2]].keys[f]
    BY <2>2
  <2> QED
    BY <2>1, <2>3 DEF Promise!Union
<1>6. Promise!IsOrder(Arrival)
  BY ArrivalOrder DEF Merging
<1>7. ASSUME NEW f \in Lists PROVE Promise!InOrderOf(Arrival, f, lists[f])
  <2>1. \A a \in Importers : (\E m \in DOMAIN lists[f] : lists[f][m] = a) <=> f \in content[a].populated
    BY <1>2, <1>3 DEF MainInv, ListsInv, Merging
  <2>2. ASSUME NEW m \in DOMAIN lists[f], NEW n \in DOMAIN lists[f], m < n
        PROVE  <<lists[f][m], lists[f][n]>> \in Arrival
    <3>1. lists[f][m] \in Importers /\ lists[f][n] \in Importers
      BY DEF TypeOK
    <3> QED
      BY <2>2, <3>1 DEF MainInv, ListsInv, Merging, Arrival
  <2> QED
    BY <2>1, <2>2 DEF Promise!InOrderOf
<1>8. Arrival \in SUBSET (Importers \X Importers)
  BY DEF Arrival
<1>9. Promise!IsMerged([kind |-> "merged", maps |-> maps, lists |-> lists])
  <2> DEFINE o == [kind |-> "merged", maps |-> maps, lists |-> lists]
  <2>1. o.kind = "merged" /\ o.maps = maps /\ o.lists = lists
    OBVIOUS
  <2> HIDE DEF o
  <2> QED
    BY <1>5, <1>6, <1>7, <1>8, <2>1 DEF Promise!IsMerged
<1> QED
  BY <1>1, <1>4, <1>9

\* Every step either leaves the outcome alone or is the one step of KeyedUnion.
LEMMA StepImplements ==
  Base /\ [Next]_vars => [Promise!Reduce]_<<content, broken, outcome>>
<1> SUFFICES ASSUME Base, [Next]_vars PROVE [Promise!Reduce]_<<content, broken, outcome>>
  OBVIOUS
<1> USE DEF Base
<1>1. ASSUME NEW i \in Importers, Arrive(i) PROVE UNCHANGED <<content, broken, outcome>>
  BY <1>1 DEF Arrive, inputVars
<1>2. CASE Wait
  <2>1. CASE broken # {}
    BY <1>2, <2>1 DEF Wait, Return, inputVars, ArrivalInv, Promise!Reduce
  <2>2. CASE broken = {}
    BY <1>2, <2>2 DEF Wait, inputVars
  <2> QED
    BY <2>1, <2>2
<1>3. ASSUME NEW f \in Lists, MergeList(f) PROVE UNCHANGED <<content, broken, outcome>>
  BY <1>3 DEF MergeList, inputVars
<1>4. ASSUME NEW f \in Maps, MergeMap(f) PROVE UNCHANGED <<content, broken, outcome>>
  BY <1>4 DEF MergeMap, inputVars
<1>5. ASSUME NEW f \in Singles, MergeSingle(f) PROVE Promise!Reduce
  <2> DEFINE o == [kind |-> "unsupported", field |-> f, book |-> msgs[pos]]
  <2>1. /\ phase = "merge" /\ f \in left /\ outcome' = o
        /\ UNCHANGED <<content, broken>>
    BY <1>5 DEF MergeSingle, Return, inputVars
  <2>2. broken = {} /\ outcome = Promise!NoOutcome
    BY <2>1 DEF ArrivalInv
  <2>3. pos \in DOMAIN msgs /\ msgs[pos] \in Importers /\ f \in Populated(msgs[pos])
    BY <2>1 DEF MainInv, PosInv, Merging, TypeOK
  <2>4. f \in content[msgs[pos]].populated
    BY <2>3, FieldsAssumption DEF Populated
  <2>5. ~Promise!Mergeable
    BY <2>3, <2>4 DEF Promise!Mergeable
  <2>6. o \in Promise!Unsupporteds /\ Promise!HasSingle(o)
    BY <2>3, <2>4 DEF Promise!Unsupporteds, Promise!HasSingle
  <2> HIDE DEF o
  <2> QED
    BY <2>1, <2>2, <2>5, <2>6 DEF Promise!Reduce
<1>6. CASE NextMessage
  <2>1. CASE pos < Len(msgs)
    BY <1>6, <2>1 DEF NextMessage, inputVars
  <2>2. CASE ~(pos < Len(msgs))
    <3> DEFINE o == [kind |-> "merged", maps |-> maps, lists |-> lists]
    <3>1. /\ phase = "merge" /\ left = {} /\ outcome' = o
          /\ UNCHANGED <<content, broken>>
      BY <1>6, <2>2 DEF NextMessage, Return, inputVars
    <3>2. broken = {} /\ Promise!Mergeable /\ Promise!IsMerged(o)
      BY <2>2, <3>1, MergedIsUnion
    <3>3. outcome = Promise!NoOutcome
      BY <3>1 DEF ArrivalInv
    <3> HIDE DEF o
    <3>4. Promise!IsMerged(outcome')
      BY <3>1, <3>2
    <3> QED
      BY <3>1, <3>2, <3>3, <3>4 DEF Promise!Reduce
  <2> QED
    BY <2>1, <2>2
<1>7. CASE NameDuplicate
  <2>1. PICK j \in 1..(pos - 1), f \in Maps, k \in Keys :
          /\ Clashes(j, f, k)
          /\ outcome' = [kind |-> "duplicate", field |-> f, key |-> k, books |-> {msgs[j], msgs[pos]}]
    BY <1>7 DEF NameDuplicate, Return
  <2> DEFINE d == [kind |-> "duplicate", field |-> f, key |-> k, books |-> {msgs[j], msgs[pos]}]
  <2>2. phase = "duplicate" /\ UNCHANGED <<content, broken>>
    BY <1>7 DEF NameDuplicate, inputVars
  <2>3. broken = {} /\ outcome = Promise!NoOutcome
    BY <2>2 DEF ArrivalInv
  <2>4. pos \in DOMAIN msgs /\ pos \in Nat
    BY <2>2 DEF MainInv, PosInv, Merging, TypeOK
  <2>5. j \in DOMAIN msgs /\ j # pos
    BY <2>4 DEF TypeOK
  <2>6. msgs[j] \in Importers /\ msgs[pos] \in Importers /\ msgs[j] # msgs[pos]
    BY <2>4, <2>5 DEF TypeOK, ArrivalInv
  <2>7. Promise!Shares(msgs[j], msgs[pos], f, k)
    BY <2>1, <2>6 DEF Clashes, Promise!Shares
  <2>8. ~Promise!Mergeable
    BY <2>6, <2>7 DEF Promise!Mergeable
  <2>9. d \in Promise!Duplicates /\ Promise!NamesTwo(d)
    <3>1. d \in Promise!Duplicates
      BY <2>6 DEF Promise!Duplicates
    <3>2. d.books = {msgs[j], msgs[pos]} /\ d.field = f /\ d.key = k
      OBVIOUS
    <3> HIDE DEF d
    <3>3. Promise!NamesTwo(d)
      BY <2>6, <2>7, <3>2, Zenon DEF Promise!NamesTwo
    <3> QED
      BY <3>1, <3>3
  <2>10. outcome' = d
    BY <2>1
  <2> HIDE DEF d
  <2> QED
    BY <2>2, <2>3, <2>8, <2>9, <2>10 DEF Promise!Reduce
<1>8. CASE UNCHANGED vars
  BY <1>8 DEF vars, inputVars
<1> QED
  BY <1>1, <1>2, <1>3, <1>4, <1>5, <1>6, <1>7, <1>8 DEF Next

\* ParseMessage returns what KeyedUnion promises, whatever the order in which the
\* importers finish and the fields are visited.
THEOREM MergeImplementsUnion == Spec => MergeIsKeyedUnion
<1>1. Init => Promise!Init
  BY DEF Init, Promise!Init
<1> QED
  BY <1>1, StepImplements, BaseCorrect, PTL DEF Spec, MergeIsKeyedUnion, Promise!Spec
=============================================================================

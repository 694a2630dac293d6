------------------------ MODULE ErrorCollectorProofs ------------------------
(***************************************************************************)
(* Theorems about ErrorCollector, for every tree of collectors, every      *)
(* assignment of budgets, and any number of goroutines and errors.         *)
(***************************************************************************)
EXTENDS ErrorCollector, FiniteSetTheorems, TLAPS

\* The chain of a collector starts with it and stays among the collectors.
LEMMA ChainFacts ==
  ASSUME NEW c \in Collectors
  PROVE  /\ Chain[c] \in Seq(Collectors)
         /\ Len(Chain[c]) \in Nat \ {0}
         /\ \A i \in 1..Len(Chain[c]) : Chain[c][i] \in Collectors
  BY ChainAssumption

\* The variables a call that returns or starts joining writes keep their types.
LEMMA ReturnTypes ==
  ASSUME TypeOK, NEW w \in Workers, NEW e \in Collectors \cup {Nil}, Return(w, e),
         UNCHANGED <<live, children, counter, used>>, errs' \in [Collectors -> SUBSET Errors]
  PROVE  TypeOK'
  BY DEF TypeOK, Return, Nothing

LEMMA BeginJoinTypes ==
  ASSUME TypeOK, NEW w \in Workers, NEW c \in Collectors, BeginJoin(w, c),
         UNCHANGED <<live, children, counter, used, err, pos, anyFull, store, ret>>,
         errs' \in [Collectors -> SUBSET Errors]
  PROVE  TypeOK'
  BY DEF TypeOK, BeginJoin, Nothing

LEMMA JoinIfFullTypes ==
  ASSUME TypeOK, NEW w \in Workers, NEW c \in Collectors, JoinIfFull(w, c), UNCHANGED shared
  PROVE  TypeOK'
  <1>1. errs' \in [Collectors -> SUBSET Errors]
    BY DEF TypeOK, shared
  <1>2. CASE BeginJoin(w, c) /\ UNCHANGED <<err, pos, anyFull, store, ret>>
    BY <1>1, <1>2, BeginJoinTypes DEF shared
  <1>3. CASE Return(w, Nil)
    BY <1>1, <1>3, ReturnTypes DEF shared
  <1>4. QED
    BY <1>2, <1>3 DEF JoinIfFull

\* Every reachable state has the types of collector.go's fields and locals.
THEOREM TypeCorrect == Spec => []TypeOK
  <1>1. Init => TypeOK
    BY NilAssumption DEF Init, TypeOK, Nothing
  <1>2. TypeOK /\ [Next]_vars => TypeOK'
    <2> SUFFICES ASSUME TypeOK, [Next]_vars PROVE TypeOK'
      OBVIOUS
    <2>1. CASE UNCHANGED vars
      BY <2>1 DEF vars, TypeOK
    <2>2. ASSUME NEW w \in Workers, NEW c \in Collectors, NewChild(w, c) PROVE TypeOK'
      <3>1. Parent(c) \in Collectors
        BY <2>2 DEF NewChild, TypeOK
      <3>2. children' \in [Collectors -> Seq(Collectors)]
        BY <2>2, <3>1 DEF NewChild, TypeOK
      <3>3. QED
        BY <2>2, <3>2 DEF NewChild, TypeOK, call, walk
    <2>3. ASSUME NEW w \in Workers, NEW c \in Collectors, CollectNil(w, c) PROVE TypeOK'
      BY <2>3, JoinIfFullTypes DEF CollectNil
    <2>4. ASSUME NEW w \in Workers, NEW c \in Collectors, CollectJoined(w, c) PROVE TypeOK'
      BY <2>4, JoinIfFullTypes DEF CollectJoined, shared
    <2>5. ASSUME NEW w \in Workers, NEW c \in Collectors, NEW e \in Errors,
                 CollectError(w, c, e)
          PROVE TypeOK'
      BY <2>5 DEF CollectError, TypeOK, walk
    <2>6. ASSUME NEW w \in Workers, NEW c \in Collectors, CallJoin(w, c) PROVE TypeOK'
      BY <2>6, BeginJoinTypes DEF CallJoin, shared, TypeOK
    <2>7. ASSUME NEW w \in Workers, AddCounter(w) PROVE TypeOK'
      <3> DEFINE cur == Chain[tgt[w]][pos[w]]
      <3>0. tgt[w] \in Collectors /\ pos[w] \in Nat \ {0} /\ pos[w] <= Len(Chain[tgt[w]])
        BY <2>7 DEF AddCounter, TypeOK
      <3>1. cur \in Collectors
        <4>1. pos[w] \in 1..Len(Chain[tgt[w]])
          BY <3>0, ChainFacts
        <4>2. QED
          BY <3>0, <4>1, ChainFacts
      <3>2. /\ counter' = [counter EXCEPT ![cur] = counter[cur] + 1]
            /\ anyFull' = [anyFull EXCEPT ![w] = anyFull[w] \/ counter[cur] + 1 >= MaxErrs[cur]]
            /\ store' = [store EXCEPT ![w] = store[w] /\ counter[cur] + 1 <= MaxErrs[cur]]
        BY <2>7 DEF AddCounter
      <3> HIDE DEF cur
      <3>3. MaxErrs[cur] \in Nat /\ counter[cur] \in Nat
        BY <3>1, MaxErrsAssumption DEF TypeOK
      <3>4. /\ counter' \in [Collectors -> Nat]
            /\ anyFull' \in [Workers -> BOOLEAN]
            /\ store' \in [Workers -> BOOLEAN]
        BY <3>1, <3>2, <3>3 DEF TypeOK
      <3>5. pos' \in [Workers -> Nat \ {0}]
        BY <2>7 DEF AddCounter, TypeOK
      <3>6. QED
        BY <2>7, <3>4, <3>5 DEF AddCounter, TypeOK, walk
    <2>8. ASSUME NEW w \in Workers, StoreError(w) PROVE TypeOK'
      <3>1. tgt[w] \in Collectors /\ errs' \in [Collectors -> SUBSET Errors]
        BY <2>8 DEF StoreError, TypeOK
      <3>2. CASE BeginJoin(w, tgt[w]) /\ UNCHANGED <<err, pos, anyFull, store, ret>>
        BY <2>8, <3>1, <3>2, BeginJoinTypes DEF StoreError
      <3>3. CASE Return(w, Nil)
        BY <2>8, <3>1, <3>3, ReturnTypes DEF StoreError
      <3>4. QED
        BY <2>8, <3>2, <3>3 DEF StoreError
    <2>9. ASSUME NEW w \in Workers, JoinVisit(w) PROVE TypeOK'
      <3>1. Head(todo[w]) \in Collectors /\ Tail(todo[w]) \in Seq(Collectors)
        BY <2>9 DEF JoinVisit, TypeOK
      <3>2. todo' \in [Workers -> Seq(Collectors)]
        BY <2>9, <3>1 DEF JoinVisit, TypeOK
      <3>3. acc' \in [Workers -> [Errors -> Nat]]
        BY <2>9 DEF JoinVisit, TypeOK
      <3>4. QED
        BY <2>9, <3>2, <3>3 DEF JoinVisit, TypeOK, shared, call
    <2>10. ASSUME NEW w \in Workers, JoinReturn(w) PROVE TypeOK'
      <3>1. tgt[w] \in Collectors
        BY <2>10 DEF JoinReturn, TypeOK
      <3>2. errs' \in [Collectors -> SUBSET Errors]
        BY <2>10 DEF JoinReturn, TypeOK, shared
      <3>3. QED
        BY <2>10, <3>1, <3>2, ReturnTypes DEF JoinReturn, shared
    <2>11. QED
      BY <2>1, <2>2, <2>3, <2>4, <2>5, <2>6, <2>7, <2>8, <2>9, <2>10 DEF Next
  <1>3. QED
    BY <1>1, <1>2, PTL DEF Spec
-----------------------------------------------------------------------------
\* The calls of all goroutines but w are where they were.
Others(w) ==
  \A v \in Workers \ {w} : /\ pc'[v] = pc[v]
                           /\ tgt'[v] = tgt[v]
                           /\ err'[v] = err[v]
                           /\ pos'[v] = pos[v]
                           /\ store'[v] = store[v]

\* A step of w that neither counts nor stores an error.
Quiet(w) ==
  /\ Others(w)
  /\ errs' = errs
  /\ counter' = counter
  /\ pc[w] # "adding"
  /\ pc'[w] = "adding" => pos'[w] = 1 /\ store'[w]

LEMMA ReturnOthers ==
  ASSUME TypeOK, NEW w \in Workers, NEW e, Return(w, e)
  PROVE  Others(w) /\ pc'[w] = "idle"
  BY DEF TypeOK, Return, Others

LEMMA BeginJoinOthers ==
  ASSUME TypeOK, NEW w \in Workers, NEW c, BeginJoin(w, c),
         UNCHANGED <<err, pos, anyFull, store, ret>>
  PROVE  Others(w) /\ pc'[w] = "joining"
  BY DEF TypeOK, BeginJoin, Others

LEMMA JoinIfFullOthers ==
  ASSUME TypeOK, NEW w \in Workers, NEW c, JoinIfFull(w, c)
  PROVE  Others(w) /\ pc'[w] # "adding"
  BY ReturnOthers, BeginJoinOthers DEF JoinIfFull

\* Only AddCounter counts an error and only StoreError stores one.
LEMMA StepKinds ==
  ASSUME TypeOK, Next
  PROVE  \E w \in Workers : AddCounter(w) \/ StoreError(w) \/ Quiet(w)
  <1>1. PICK w \in Workers :
          \/ \E c \in Collectors :
               \/ NewChild(w, c)
               \/ CollectNil(w, c)
               \/ CollectJoined(w, c)
               \/ \E e \in Errors : CollectError(w, c, e)
               \/ CallJoin(w, c)
          \/ AddCounter(w)
          \/ StoreError(w)
          \/ JoinVisit(w)
          \/ JoinReturn(w)
    BY DEF Next
  <1>2. ASSUME NEW c \in Collectors, NewChild(w, c) PROVE Quiet(w)
    BY <1>2 DEF NewChild, Quiet, Others, call
  <1>3. ASSUME NEW c \in Collectors, CollectNil(w, c) \/ CollectJoined(w, c) PROVE Quiet(w)
    BY <1>3, JoinIfFullOthers DEF CollectNil, CollectJoined, Quiet, shared
  <1>4. ASSUME NEW c \in Collectors, NEW e \in Errors, CollectError(w, c, e) PROVE Quiet(w)
    BY <1>4 DEF CollectError, Quiet, Others, TypeOK
  <1>5. ASSUME NEW c \in Collectors, CallJoin(w, c) PROVE Quiet(w)
    BY <1>5, BeginJoinOthers DEF CallJoin, Quiet, shared
  <1>6. ASSUME JoinVisit(w) PROVE Quiet(w)
    BY <1>6 DEF JoinVisit, Quiet, Others, shared, call
  <1>7. ASSUME JoinReturn(w) PROVE Quiet(w)
    BY <1>7, ReturnOthers DEF JoinReturn, Quiet, shared
  <1>8. QED
    BY <1>1, <1>2, <1>3, <1>4, <1>5, <1>6, <1>7

\* A quiet step leaves what a collector has accepted alone.
LEMMA QuietKeepsAccepted ==
  ASSUME TypeOK, NEW w \in Workers, Quiet(w), NEW c \in Collectors
  PROVE  Accepted(c)' = Accepted(c)
  <1>1. StoredUnder(c)' = StoredUnder(c)
    BY DEF Quiet, StoredUnder
  <1>2. Passed(c)' \subseteq Passed(c)
    <2> SUFFICES ASSUME NEW e \in Errors, e \in Passed(c)' PROVE e \in Passed(c)
      BY DEF Passed
    <2>1. PICK v \in Workers :
            /\ pc'[v] = "adding" /\ store'[v] /\ err'[v] = e
            /\ \E i \in 1..(pos'[v] - 1) :
                 i <= Len(Chain[tgt'[v]]) /\ Chain[tgt'[v]][i] = c
      BY DEF Passed
    <2>2. v # w
      BY <2>1 DEF Quiet
    <2>3. QED
      BY <2>1, <2>2 DEF Quiet, Others, Passed
  <1>3. Passed(c) \subseteq Passed(c)'
    <2> SUFFICES ASSUME NEW e \in Errors, e \in Passed(c) PROVE e \in Passed(c)'
      BY DEF Passed
    <2>1. PICK v \in Workers :
            /\ pc[v] = "adding" /\ store[v] /\ err[v] = e
            /\ \E i \in 1..(pos[v] - 1) :
                 i <= Len(Chain[tgt[v]]) /\ Chain[tgt[v]][i] = c
      BY DEF Passed
    <2>2. v # w
      BY <2>1 DEF Quiet
    <2>3. QED
      BY <2>1, <2>2 DEF Quiet, Others, Passed
  <1>4. QED
    BY <1>1, <1>2, <1>3 DEF Accepted

LEMMA StoreErrorOthers ==
  ASSUME TypeOK, NEW w \in Workers, StoreError(w)
  PROVE  Others(w) /\ pc'[w] # "adding" /\ counter' = counter
  BY ReturnOthers, BeginJoinOthers DEF StoreError

\* Storing an error moves it from the accepted errors in flight to the stored ones.
LEMMA StoreErrorKeepsAccepted ==
  ASSUME TypeOK, NEW w \in Workers, StoreError(w), NEW c \in Collectors
  PROVE  Accepted(c)' = Accepted(c)
  <1> DEFINE t == tgt[w]
  <1>1. t \in Collectors /\ err[w] \in Errors /\ pos[w] \in Nat /\ Len(Chain[t]) \in Nat
    BY ChainFacts DEF StoreError, TypeOK
  <1>2. /\ pc[w] = "adding" /\ pos[w] > Len(Chain[t])
        /\ errs' = [errs EXCEPT ![t] = IF store[w] THEN errs[t] \cup {err[w]} ELSE errs[t]]
    BY DEF StoreError
  <1> HIDE DEF t
  <1>3. \A d \in Collectors : errs'[d] = IF d = t /\ store[w] THEN errs[d] \cup {err[w]} ELSE errs[d]
    BY <1>1, <1>2 DEF TypeOK
  <1>4. store[w] => (err[w] \in Passed(c) <=> AncestorOf(c, t) \/ err[w] \in Passed(c)')
    <2> SUFFICES ASSUME store[w]
                 PROVE err[w] \in Passed(c) <=> AncestorOf(c, t) \/ err[w] \in Passed(c)'
      OBVIOUS
    <2>1. AncestorOf(c, t) => err[w] \in Passed(c)
      <3> SUFFICES ASSUME NEW i \in 1..Len(Chain[t]), Chain[t][i] = c
                   PROVE err[w] \in Passed(c)
        BY DEF AncestorOf
      <3>1. i \in 1..(pos[w] - 1)
        BY <1>1, <1>2
      <3>2. QED
        BY <1>1, <1>2, <3>1 DEF Passed, t
    <2>2. err[w] \in Passed(c)' => err[w] \in Passed(c)
      BY StoreErrorOthers DEF Passed, Others
    <2>3. err[w] \in Passed(c) /\ ~AncestorOf(c, t) => err[w] \in Passed(c)'
      <3> SUFFICES ASSUME err[w] \in Passed(c), ~AncestorOf(c, t) PROVE err[w] \in Passed(c)'
        OBVIOUS
      <3>1. PICK v \in Workers :
              /\ pc[v] = "adding" /\ store[v] /\ err[v] = err[w]
              /\ \E i \in 1..(pos[v] - 1) :
                   i <= Len(Chain[tgt[v]]) /\ Chain[tgt[v]][i] = c
        BY DEF Passed
      <3>2. v # w
        BY <1>1, <3>1 DEF AncestorOf, t
      <3>3. QED
        BY <1>1, <3>1, <3>2, StoreErrorOthers DEF Passed, Others
    <2>4. QED
      BY <2>1, <2>2, <2>3
  <1>5. \A e \in Errors : e # err[w] \/ ~store[w] => (e \in Passed(c) <=> e \in Passed(c)')
    BY <1>2, StoreErrorOthers DEF Passed, Others
  <1>6. \A e \in Errors : e \in StoredUnder(c)' <=>
          e \in StoredUnder(c) \/ (store[w] /\ e = err[w] /\ AncestorOf(c, t))
    BY <1>1, <1>3 DEF StoredUnder
  <1>7. \A e \in Errors : e \in Accepted(c)' <=> e \in Accepted(c)
    BY <1>4, <1>5, <1>6 DEF Accepted
  <1>8. Accepted(c) \subseteq Errors /\ Accepted(c)' \subseteq Errors
    BY DEF Accepted, StoredUnder, Passed
  <1>9. QED
    BY <1>7, <1>8

\* What AddCounter does, in the terms of the collector it counts at.
LEMMA AddCounterFacts ==
  ASSUME TypeOK, NEW w \in Workers, AddCounter(w)
  PROVE  \E d \in Collectors :
           /\ pos[w] \in 1..Len(Chain[tgt[w]])
           /\ d = Chain[tgt[w]][pos[w]]
           /\ tgt[w] \in Collectors
           /\ pc[w] = "adding" /\ err[w] \in Errors
           /\ counter' = [counter EXCEPT ![d] = counter[d] + 1]
           /\ store'[w] = (store[w] /\ counter[d] + 1 <= MaxErrs[d])
           /\ pos'[w] = pos[w] + 1
           /\ UNCHANGED <<errs, used, pc, tgt, err>>
           /\ Others(w)
  <1> DEFINE d == Chain[tgt[w]][pos[w]]
  <1>1. /\ tgt[w] \in Collectors /\ err[w] \in Errors
        /\ pos[w] \in Nat \ {0} /\ pos[w] <= Len(Chain[tgt[w]])
    BY DEF AddCounter, TypeOK
  <1>2. pos[w] \in 1..Len(Chain[tgt[w]])
    BY <1>1, ChainFacts
  <1>3. d \in Collectors
    BY <1>1, <1>2, ChainFacts
  <1>4. /\ pc[w] = "adding"
        /\ counter' = [counter EXCEPT ![d] = counter[d] + 1]
        /\ store' = [store EXCEPT ![w] = store[w] /\ counter[d] + 1 <= MaxErrs[d]]
        /\ pos' = [pos EXCEPT ![w] = pos[w] + 1]
        /\ UNCHANGED <<errs, used, pc, tgt, err>>
    BY DEF AddCounter
  <1>5. d = Chain[tgt[w]][pos[w]]
    OBVIOUS
  <1> HIDE DEF d
  <1>6. store'[w] = (store[w] /\ counter[d] + 1 <= MaxErrs[d]) /\ pos'[w] = pos[w] + 1
    BY <1>4 DEF TypeOK
  <1>7. Others(w)
    BY <1>4 DEF Others, TypeOK
  <1>8. QED
    BY <1>1, <1>2, <1>3, <1>4, <1>5, <1>6, <1>7

\* Counting an error at d adds at most that error to what d has accepted, and
\* nothing at all once d is over its budget or at any other collector.
LEMMA AddCounterGrowsOne ==
  ASSUME TypeOK, NEW w \in Workers, AddCounter(w), NEW c \in Collectors
  PROVE  LET d == Chain[tgt[w]][pos[w]]
         IN  /\ Accepted(c)' \subseteq Accepted(c) \cup {err[w]}
             /\ c # d \/ counter[d] + 1 > MaxErrs[d] => Accepted(c)' \subseteq Accepted(c)
  <1> DEFINE d == Chain[tgt[w]][pos[w]]
  <1>1. /\ pos[w] \in 1..Len(Chain[tgt[w]])
        /\ d \in Collectors
        /\ pc[w] = "adding"
        /\ store'[w] = (store[w] /\ counter[d] + 1 <= MaxErrs[d])
        /\ pos'[w] = pos[w] + 1
        /\ UNCHANGED <<errs, used, pc, tgt, err>>
        /\ Others(w)
    BY AddCounterFacts
  <1>2. d = Chain[tgt[w]][pos[w]]
    OBVIOUS
  <1> HIDE DEF d
  <1>3. StoredUnder(c)' = StoredUnder(c)
    BY <1>1 DEF StoredUnder
  <1>4. ASSUME NEW e \in Errors, e \in Passed(c)'
        PROVE  \/ e \in Passed(c)
               \/ e = err[w] /\ c = d /\ counter[d] + 1 <= MaxErrs[d]
    <2>1. PICK v \in Workers :
            /\ pc'[v] = "adding" /\ store'[v] /\ err'[v] = e
            /\ \E i \in 1..(pos'[v] - 1) :
                 i <= Len(Chain[tgt'[v]]) /\ Chain[tgt'[v]][i] = c
      BY <1>4 DEF Passed
    <2>2. CASE v # w
      BY <1>1, <2>1, <2>2 DEF Others, Passed
    <2>3. CASE v = w
      <3>1. PICK i \in 1..(pos'[w] - 1) : i <= Len(Chain[tgt'[w]]) /\ Chain[tgt'[w]][i] = c
        BY <2>1, <2>3
      <3>2. store[w] /\ counter[d] + 1 <= MaxErrs[d] /\ err[w] = e
        BY <1>1, <2>1, <2>3
      <3>3. CASE i = pos[w]
        BY <1>1, <1>2, <3>1, <3>2, <3>3
      <3>4. CASE i # pos[w]
        <4>1. i \in 1..(pos[w] - 1) /\ i <= Len(Chain[tgt[w]]) /\ Chain[tgt[w]][i] = c
          BY <1>1, <3>1, <3>4
        <4>2. QED
          BY <1>1, <3>2, <4>1 DEF Passed
      <3>5. QED
        BY <3>3, <3>4
    <2>4. QED
      BY <2>2, <2>3
  <1>5. Passed(c)' \subseteq Errors
    BY DEF Passed
  <1>6. /\ Accepted(c)' \subseteq Accepted(c) \cup {err[w]}
        /\ c # d \/ counter[d] + 1 > MaxErrs[d] => Accepted(c)' \subseteq Accepted(c)
    <2>1. ASSUME c # d \/ counter[d] + 1 > MaxErrs[d], NEW e \in Errors, e \in Passed(c)'
          PROVE  e \in Passed(c)
      <3>1. d \in Collectors /\ counter[d] \in Nat /\ MaxErrs[d] \in Nat
        BY <1>1, MaxErrsAssumption DEF TypeOK
      <3>2. QED
        BY <1>4, <2>1, <3>1
    <2>2. QED
      BY <1>3, <1>4, <1>5, <2>1 DEF Accepted
  <1>7. QED
    BY <1>6 DEF d

\* Every step keeps what a collector has accepted within its counter and budget.
LEMMA BudgetStep ==
  ASSUME TypeOK, BudgetInv, [Next]_vars
  PROVE  BudgetInv'
  <1>1. CASE UNCHANGED vars
    BY <1>1 DEF vars, BudgetInv, Accepted, StoredUnder, Passed
  <1>2. ASSUME NEW w \in Workers, Quiet(w) PROVE BudgetInv'
    BY <1>2, QuietKeepsAccepted DEF BudgetInv, Quiet
  <1>3. ASSUME NEW w \in Workers, StoreError(w) PROVE BudgetInv'
    BY <1>3, StoreErrorKeepsAccepted, StoreErrorOthers DEF BudgetInv
  <1>4. ASSUME NEW w \in Workers, AddCounter(w) PROVE BudgetInv'
    <2> SUFFICES ASSUME NEW c \in Collectors
                 PROVE  /\ IsFiniteSet(Accepted(c)')
                        /\ Cardinality(Accepted(c)') <= counter'[c]
                        /\ Cardinality(Accepted(c)') <= MaxErrs[c]
      BY DEF BudgetInv
    <2> DEFINE d == Chain[tgt[w]][pos[w]]
    <2>1. /\ Accepted(c)' \subseteq Accepted(c) \cup {err[w]}
          /\ c # d \/ counter[d] + 1 > MaxErrs[d] => Accepted(c)' \subseteq Accepted(c)
      BY <1>4, AddCounterGrowsOne
    <2>2. d \in Collectors /\ counter' = [counter EXCEPT ![d] = counter[d] + 1]
      BY <1>4, AddCounterFacts
    <2> HIDE DEF d
    <2>3. /\ counter \in [Collectors -> Nat] /\ counter[c] \in Nat /\ counter[d] \in Nat
          /\ MaxErrs[c] \in Nat /\ MaxErrs[d] \in Nat
      BY <2>2, MaxErrsAssumption DEF TypeOK
    <2>4. /\ IsFiniteSet(Accepted(c))
          /\ Cardinality(Accepted(c)) <= counter[c]
          /\ Cardinality(Accepted(c)) <= MaxErrs[c]
      BY DEF BudgetInv
    <2>5. Cardinality(Accepted(c)) \in Nat
      BY <2>4, FS_CardinalityType
    <2>6. CASE c # d \/ counter[d] + 1 > MaxErrs[d]
      <3>1. /\ IsFiniteSet(Accepted(c)')
            /\ Cardinality(Accepted(c)') <= Cardinality(Accepted(c))
        BY <2>1, <2>4, <2>6, FS_Subset
      <3>2. Cardinality(Accepted(c)') \in Nat
        BY <3>1, FS_CardinalityType
      <3>3. counter'[c] \in Nat /\ counter[c] <= counter'[c]
        BY <2>2, <2>3
      <3>4. QED
        BY <2>3, <2>4, <2>5, <3>1, <3>2, <3>3
    <2>7. CASE c = d /\ counter[d] + 1 <= MaxErrs[d]
      <3>1. /\ IsFiniteSet(Accepted(c) \cup {err[w]})
            /\ Cardinality(Accepted(c) \cup {err[w]}) <= Cardinality(Accepted(c)) + 1
        <4> DEFINE A == Accepted(c)
        <4>1. IsFiniteSet(A)
          BY <2>4
        <4>2. Cardinality(A) \in Nat
          BY <2>5
        <4> HIDE DEF A
        <4>3. /\ IsFiniteSet(A \cup {err[w]})
              /\ Cardinality(A \cup {err[w]}) = IF err[w] \in A THEN Cardinality(A)
                                                               ELSE Cardinality(A) + 1
          BY <4>1, FS_AddElement, Zenon
        <4>4. /\ IsFiniteSet(A \cup {err[w]})
              /\ Cardinality(A \cup {err[w]}) <= Cardinality(A) + 1
          BY <4>2, <4>3
        <4>5. QED
          BY <4>4 DEF A
      <3>2. /\ IsFiniteSet(Accepted(c)')
            /\ Cardinality(Accepted(c)') <= Cardinality(Accepted(c) \cup {err[w]})
        BY <2>1, <3>1, FS_Subset
      <3>3. Cardinality(Accepted(c)') \in Nat /\ Cardinality(Accepted(c) \cup {err[w]}) \in Nat
        BY <3>1, <3>2, FS_CardinalityType
      <3>4. counter'[c] = counter[c] + 1
        BY <2>2, <2>3, <2>7
      <3>5. QED
        BY <2>3, <2>4, <2>5, <2>7, <3>1, <3>2, <3>3, <3>4
    <2>8. QED
      BY <2>3, <2>6, <2>7
  <1>5. QED
    BY <1>1, <1>2, <1>3, <1>4, StepKinds

LEMMA BudgetInit == Init => BudgetInv
  <1> SUFFICES ASSUME Init, NEW c \in Collectors
               PROVE  Accepted(c) = {} /\ counter[c] = 0 /\ MaxErrs[c] \in Nat
    BY FS_EmptySet DEF BudgetInv
  <1>1. StoredUnder(c) = {} /\ Passed(c) = {}
    BY DEF Init, StoredUnder, Passed
  <1>2. QED
    BY <1>1, MaxErrsAssumption DEF Accepted, Init

\* collector.go, Collect: however the increments and appends of concurrent calls
\* interleave, no subtree ever stores more errors than its collector's budget.
THEOREM BudgetHolds == Spec => []BudgetRespected
  <1>1. TypeOK /\ BudgetInv => BudgetRespected
    <2> SUFFICES ASSUME TypeOK, BudgetInv, NEW c \in Collectors
                 PROVE  Cardinality(StoredUnder(c)) <= MaxErrs[c]
      BY DEF BudgetRespected
    <2>1. /\ IsFiniteSet(StoredUnder(c))
          /\ Cardinality(StoredUnder(c)) <= Cardinality(Accepted(c))
      BY FS_Subset DEF BudgetInv, Accepted
    <2>2. Cardinality(StoredUnder(c)) \in Nat /\ Cardinality(Accepted(c)) \in Nat
      BY <2>1, FS_CardinalityType DEF BudgetInv
    <2>3. QED
      BY <2>1, <2>2, MaxErrsAssumption DEF BudgetInv
  <1>2. QED
    BY <1>1, TypeCorrect, BudgetInit, BudgetStep, PTL DEF Spec
-----------------------------------------------------------------------------
LEMMA ChainInjective ==
  ASSUME NEW t \in Collectors, NEW i \in 1..Len(Chain[t]), NEW j \in 1..Len(Chain[t]),
         Chain[t][i] = Chain[t][j]
  PROVE  i = j
  BY ChainAssumption

LEMMA ChainOfAncestor ==
  ASSUME NEW t \in Collectors, NEW i \in 1..Len(Chain[t])
  PROVE  /\ Len(Chain[Chain[t][i]]) = Len(Chain[t]) - i + 1
         /\ \A k \in 1..(Len(Chain[t]) - i + 1) : Chain[Chain[t][i]][k] = Chain[t][i + k - 1]
  BY ChainAssumption

LEMMA CounterGrows ==
  ASSUME TypeOK, NEW w \in Workers, AddCounter(w)
  PROVE  LET d == Chain[tgt[w]][pos[w]]
         IN  /\ d \in Collectors
             /\ counter'[d] = counter[d] + 1
             /\ \A c \in Collectors : /\ counter[c] \in Nat
                                       /\ counter'[c] \in Nat
                                       /\ counter[c] <= counter'[c]
                                       /\ MaxErrs[c] \in Nat
  <1> DEFINE d == Chain[tgt[w]][pos[w]]
  <1>1. d \in Collectors /\ counter' = [counter EXCEPT ![d] = counter[d] + 1]
    BY AddCounterFacts
  <1> HIDE DEF d
  <1>2. /\ d \in Collectors
        /\ counter'[d] = counter[d] + 1
        /\ \A c \in Collectors : /\ counter[c] \in Nat
                                  /\ counter'[c] \in Nat
                                  /\ counter[c] <= counter'[c]
                                  /\ MaxErrs[c] \in Nat
    <2>1. counter \in [Collectors -> Nat] /\ counter[d] \in Nat
      BY <1>1 DEF TypeOK
    <2>2. counter'[d] = counter[d] + 1
      BY <1>1, <2>1
    <2>3. \A c \in Collectors : c # d => counter'[c] = counter[c]
      BY <1>1, <2>1
    <2>4. \A c \in Collectors : /\ counter[c] \in Nat /\ counter'[c] \in Nat
                                /\ counter[c] <= counter'[c]
      BY <2>1, <2>2, <2>3
    <2>5. QED
      BY <1>1, <2>2, <2>4, MaxErrsAssumption
  <1>3. QED
    BY <1>2 DEF d

\* What is further up the chain of t than c is an ancestor of c.
LEMMA ChainSuffix ==
  ASSUME NEW t \in Collectors, NEW i \in 1..Len(Chain[t]), NEW j \in 1..Len(Chain[t]), i <= j
  PROVE  AncestorOf(Chain[t][j], Chain[t][i])
  <1> DEFINE k == j - i + 1
  <1>1. Len(Chain[t]) \in Nat
    BY ChainFacts
  <1>2. k \in 1..(Len(Chain[t]) - i + 1) /\ i + k - 1 = j
    BY <1>1
  <1> HIDE DEF k
  <1>3. Len(Chain[Chain[t][i]]) = Len(Chain[t]) - i + 1 /\ Chain[Chain[t][i]][k] = Chain[t][j]
    BY <1>2, ChainOfAncestor
  <1>4. QED
    BY <1>2, <1>3 DEF AncestorOf

LEMMA FreshStep ==
  ASSUME TypeOK, FreshInv, [Next]_vars
  PROVE  FreshInv'
  <1>1. CASE UNCHANGED vars
    BY <1>1 DEF vars, FreshInv
  <1>2. ASSUME NEW w \in Workers, NEW c \in Collectors, NEW e \in Errors, CollectError(w, c, e)
        PROVE  FreshInv'
    <2>1. /\ errs' = errs /\ used' = used \cup {e} /\ e \notin used
          /\ \A v \in Workers : v # w => pc'[v] = pc[v] /\ err'[v] = err[v]
          /\ err'[w] = e
      BY <1>2 DEF CollectError, TypeOK
    <2>2. QED
      BY <2>1 DEF FreshInv
  <1>3. ASSUME NEW w \in Workers, StoreError(w) PROVE FreshInv'
    <2>1. /\ pc[w] = "adding" /\ pc'[w] # "adding" /\ used' = used
          /\ \A c \in Collectors : errs'[c] \subseteq errs[c] \cup {err[w]}
          /\ \A v \in Workers : v # w => pc'[v] = pc[v] /\ err'[v] = err[v]
      BY <1>3, StoreErrorOthers DEF StoreError, TypeOK, Others
    <2>2. QED
      BY <2>1 DEF FreshInv
  <1>4. ASSUME NEW w \in Workers, AddCounter(w) PROVE FreshInv'
    BY <1>4 DEF AddCounter, FreshInv
  <1>5. ASSUME NEW w \in Workers, Quiet(w), pc'[w] # "adding", used' = used PROVE FreshInv'
    BY <1>5 DEF Quiet, Others, FreshInv
  <1>6. CASE Next
    <2>1. PICK w \in Workers :
            \/ \E c \in Collectors :
                 \/ NewChild(w, c)
                 \/ CollectNil(w, c)
                 \/ CollectJoined(w, c)
                 \/ \E e \in Errors : CollectError(w, c, e)
                 \/ CallJoin(w, c)
            \/ AddCounter(w)
            \/ StoreError(w)
            \/ JoinVisit(w)
            \/ JoinReturn(w)
      BY <1>6 DEF Next
    <2>2. ASSUME NEW c \in Collectors, NewChild(w, c) PROVE FreshInv'
      BY <2>2 DEF NewChild, FreshInv, call
    <2>3. ASSUME NEW c \in Collectors, CollectNil(w, c) \/ CollectJoined(w, c) PROVE FreshInv'
      BY <1>5, <2>3, JoinIfFullOthers DEF CollectNil, CollectJoined, Quiet, shared
    <2>4. ASSUME NEW c \in Collectors, CallJoin(w, c) PROVE FreshInv'
      BY <1>5, <2>4, BeginJoinOthers DEF CallJoin, Quiet, shared
    <2>5. ASSUME JoinVisit(w) PROVE FreshInv'
      BY <2>5 DEF JoinVisit, FreshInv, shared, call
    <2>6. ASSUME JoinReturn(w) PROVE FreshInv'
      BY <1>5, <2>6, ReturnOthers DEF JoinReturn, Quiet, shared
    <2>7. QED
      BY <1>2, <1>3, <1>4, <2>1, <2>2, <2>3, <2>4, <2>5, <2>6
  <1>7. QED
    BY <1>1, <1>6

LEMMA DropStep ==
  ASSUME TypeOK, DropInv, [Next]_vars
  PROVE  DropInv'
  <1>1. CASE UNCHANGED vars
    BY <1>1 DEF vars, DropInv
  <1>2. ASSUME NEW w \in Workers, Quiet(w) PROVE DropInv'
    <2> SUFFICES ASSUME NEW v \in Workers, pc'[v] = "adding", ~store'[v]
                 PROVE  \E i \in 1..(pos'[v] - 1) :
                          /\ i <= Len(Chain[tgt'[v]])
                          /\ counter'[Chain[tgt'[v]][i]] > MaxErrs[Chain[tgt'[v]][i]]
      BY DEF DropInv
    <2>1. CASE v # w
      BY <1>2, <2>1 DEF Quiet, Others, DropInv
    <2>2. CASE v = w
      BY <1>2, <2>2 DEF Quiet
    <2>3. QED
      BY <2>1, <2>2
  <1>3. ASSUME NEW w \in Workers, StoreError(w) PROVE DropInv'
    BY <1>3, StoreErrorOthers DEF Others, DropInv
  <1>4. ASSUME NEW w \in Workers, AddCounter(w) PROVE DropInv'
    <2> SUFFICES ASSUME NEW v \in Workers, pc'[v] = "adding", ~store'[v]
                 PROVE  \E i \in 1..(pos'[v] - 1) :
                          /\ i <= Len(Chain[tgt'[v]])
                          /\ counter'[Chain[tgt'[v]][i]] > MaxErrs[Chain[tgt'[v]][i]]
      BY DEF DropInv
    <2>1. PICK d \in Collectors :
            /\ pos[w] \in 1..Len(Chain[tgt[w]])
            /\ d = Chain[tgt[w]][pos[w]]
            /\ tgt[w] \in Collectors
            /\ counter' = [counter EXCEPT ![d] = counter[d] + 1]
            /\ store'[w] = (store[w] /\ counter[d] + 1 <= MaxErrs[d])
            /\ pos'[w] = pos[w] + 1
            /\ UNCHANGED <<errs, used, pc, tgt, err>>
            /\ Others(w)
      BY <1>4, AddCounterFacts
    <2>2. ASSUME NEW c \in Collectors, counter[c] > MaxErrs[c] PROVE counter'[c] > MaxErrs[c]
      <3>1. /\ counter[c] \in Nat /\ counter'[c] \in Nat /\ MaxErrs[c] \in Nat
            /\ counter[c] <= counter'[c]
        BY <1>4, CounterGrows
      <3>2. QED
        BY <2>2, <3>1
    <2>3. ASSUME NEW u \in Workers, pc[u] = "adding", ~store[u], pos'[u] >= pos[u], tgt'[u] = tgt[u]
          PROVE  \E i \in 1..(pos'[u] - 1) :
                   /\ i <= Len(Chain[tgt'[u]])
                   /\ counter'[Chain[tgt'[u]][i]] > MaxErrs[Chain[tgt'[u]][i]]
      <3>1. PICK i \in 1..(pos[u] - 1) :
              /\ i <= Len(Chain[tgt[u]])
              /\ counter[Chain[tgt[u]][i]] > MaxErrs[Chain[tgt[u]][i]]
        BY <2>3 DEF DropInv
      <3>2. tgt[u] \in Collectors /\ pos[u] \in Nat /\ pos'[u] \in Nat
        <4>1. tgt[u] \in Collectors /\ pos[u] \in Nat
          BY <2>3 DEF TypeOK
        <4>2. pos'[u] = pos[u] \/ pos'[u] = pos[u] + 1
          BY <2>1 DEF Others
        <4>3. QED
          BY <4>1, <4>2
      <3>3. i \in 1..Len(Chain[tgt[u]]) /\ i \in 1..(pos'[u] - 1)
        BY <2>3, <3>1, <3>2, ChainFacts
      <3>4. Chain[tgt[u]][i] \in Collectors
        BY <3>2, <3>3, ChainFacts
      <3>5. QED
        BY <2>2, <2>3, <3>1, <3>3, <3>4
    <2>4. CASE v # w
      <3>1. pos'[v] >= pos[v] /\ pos[v] \in Nat
        BY <2>1, <2>4 DEF Others, TypeOK
      <3>2. QED
        BY <2>1, <2>3, <2>4, <3>1 DEF Others
    <2>5. CASE v = w /\ ~store[w]
      <3>1. pos'[v] >= pos[v]
        BY <2>1, <2>5 DEF TypeOK
      <3>2. QED
        BY <2>1, <2>3, <2>5, <3>1
    <2>6. CASE v = w /\ store[w]
      <3>0. ~(counter[d] + 1 <= MaxErrs[d])
        BY <2>1, <2>6
      <3>1. counter[d] + 1 > MaxErrs[d] /\ counter'[d] = counter[d] + 1
        <4>1. counter'[d] = counter[d] + 1 /\ counter[d] \in Nat /\ MaxErrs[d] \in Nat
          BY <1>4, <2>1, CounterGrows
        <4>2. QED
          BY <3>0, <4>1
      <3>2. pos[w] \in 1..(pos'[v] - 1) /\ tgt'[v] = tgt[w] /\ pos[w] <= Len(Chain[tgt[w]])
        BY <2>1, <2>6
      <3>3. QED
        BY <2>1, <3>1, <3>2
    <2>7. QED
      BY <2>4, <2>5, <2>6
  <1>5. QED
    BY <1>1, <1>2, <1>3, <1>4, StepKinds

\* An error in flight is counted once at each collector of its chain.
LEMMA AddCounterNew ==
  ASSUME TypeOK, FreshInv, NEW w \in Workers, AddCounter(w)
  PROVE  err[w] \notin Accepted(Chain[tgt[w]][pos[w]])
  <1>1. PICK d \in Collectors :
          /\ pos[w] \in 1..Len(Chain[tgt[w]])
          /\ d = Chain[tgt[w]][pos[w]]
          /\ tgt[w] \in Collectors
          /\ pc[w] = "adding"
    BY AddCounterFacts
  <1>2. err[w] \notin StoredUnder(d)
    BY <1>1 DEF FreshInv, StoredUnder
  <1>3. err[w] \notin Passed(d)
    <2> SUFFICES ASSUME err[w] \in Passed(d) PROVE FALSE
      OBVIOUS
    <2>1. PICK v \in Workers :
            /\ pc[v] = "adding" /\ err[v] = err[w]
            /\ \E i \in 1..(pos[v] - 1) : i <= Len(Chain[tgt[v]]) /\ Chain[tgt[v]][i] = d
      BY DEF Passed
    <2>2. v = w
      BY <1>1, <2>1 DEF FreshInv
    <2>3. PICK i \in 1..(pos[w] - 1) : i <= Len(Chain[tgt[w]]) /\ Chain[tgt[w]][i] = d
      BY <2>1, <2>2
    <2>4. i \in 1..Len(Chain[tgt[w]]) /\ i # pos[w]
      BY <1>1, <2>3, ChainFacts
    <2>5. QED
      BY <1>1, <2>3, <2>4, ChainInjective
  <1>4. QED
    BY <1>1, <1>2, <1>3 DEF Accepted

\* As long as nothing related to c has run over its budget, counting an error at
\* d adds exactly that error to what d has accepted and changes nothing at c # d.
LEMMA AddCounterExact ==
  ASSUME TypeOK, DropInv, NEW w \in Workers, AddCounter(w), NEW c \in Collectors,
         \A d \in Collectors : Related(c, d) => counter'[d] <= MaxErrs[d]
  PROVE  LET d == Chain[tgt[w]][pos[w]]
         IN  /\ Accepted(c) \subseteq Accepted(c)'
             /\ c = d => err[w] \in Accepted(c)'
  <1>1. PICK d \in Collectors :
          /\ pos[w] \in 1..Len(Chain[tgt[w]])
          /\ d = Chain[tgt[w]][pos[w]]
          /\ tgt[w] \in Collectors
          /\ pc[w] = "adding" /\ err[w] \in Errors
          /\ counter' = [counter EXCEPT ![d] = counter[d] + 1]
          /\ store'[w] = (store[w] /\ counter[d] + 1 <= MaxErrs[d])
          /\ pos'[w] = pos[w] + 1
          /\ UNCHANGED <<errs, used, pc, tgt, err>>
          /\ Others(w)
    BY AddCounterFacts
  <1>2. StoredUnder(c)' = StoredUnder(c)
    BY <1>1 DEF StoredUnder
  <1>3. counter'[d] = counter[d] + 1 /\ \A b \in Collectors : counter[b] <= counter'[b]
    BY <1>1 DEF TypeOK
  <1>4. ASSUME AncestorOf(d, c) PROVE counter[d] + 1 <= MaxErrs[d]
    BY <1>1, <1>3, <1>4 DEF Related
  <1>5. ASSUME NEW e \in Errors, e \in Passed(c) PROVE e \in Passed(c)'
    <2>1. PICK v \in Workers :
            /\ pc[v] = "adding" /\ store[v] /\ err[v] = e
            /\ \E i \in 1..(pos[v] - 1) : i <= Len(Chain[tgt[v]]) /\ Chain[tgt[v]][i] = c
      BY <1>5 DEF Passed
    <2>2. CASE v # w
      BY <1>1, <2>1, <2>2 DEF Others, Passed
    <2>3. CASE v = w
      <3>1. PICK i \in 1..(pos[w] - 1) : i <= Len(Chain[tgt[w]]) /\ Chain[tgt[w]][i] = c
        BY <2>1, <2>3
      <3>2. i \in 1..Len(Chain[tgt[w]]) /\ i <= pos[w] /\ i \in 1..(pos'[w] - 1)
        BY <1>1, <3>1, ChainFacts
      <3>3. AncestorOf(d, c)
        BY <1>1, <3>1, <3>2, ChainSuffix
      <3>4. store'[w]
        BY <1>1, <1>4, <2>1, <2>3, <3>3
      <3>5. QED
        BY <1>1, <2>1, <2>3, <3>1, <3>2, <3>4 DEF Passed
    <2>4. QED
      BY <2>2, <2>3
  <1>6. ASSUME c = d PROVE err[w] \in Passed(c)'
    <2>1. AncestorOf(d, c)
      BY <1>1, <1>6, ChainSuffix
    <2>2. store[w]
      <3> SUFFICES ASSUME ~store[w] PROVE FALSE
        OBVIOUS
      <3>1. PICK i \in 1..(pos[w] - 1) :
              /\ i <= Len(Chain[tgt[w]])
              /\ counter[Chain[tgt[w]][i]] > MaxErrs[Chain[tgt[w]][i]]
        BY <1>1 DEF DropInv
      <3>2. i \in 1..Len(Chain[tgt[w]]) /\ i <= pos[w]
        BY <1>1, <3>1, ChainFacts
      <3>3. Chain[tgt[w]][i] \in Collectors /\ AncestorOf(d, Chain[tgt[w]][i])
        BY <1>1, <3>2, ChainFacts, ChainSuffix
      <3>4. counter'[Chain[tgt[w]][i]] <= MaxErrs[Chain[tgt[w]][i]]
        BY <1>6, <3>3 DEF Related
      <3> DEFINE b == Chain[tgt[w]][i]
      <3>5. b \in Collectors /\ counter'[b] <= MaxErrs[b] /\ counter[b] > MaxErrs[b]
        BY <3>1, <3>3, <3>4
      <3> HIDE DEF b
      <3>6. /\ counter[b] \in Nat /\ counter'[b] \in Nat /\ MaxErrs[b] \in Nat
            /\ counter[b] <= counter'[b]
        BY <3>5, CounterGrows
      <3>7. QED
        BY <3>5, <3>6
    <2>3. store'[w]
      BY <1>1, <1>4, <2>1, <2>2
    <2>4. pos[w] \in 1..(pos'[w] - 1) /\ pos[w] <= Len(Chain[tgt[w]])
      BY <1>1
    <2>5. QED
      BY <1>1, <1>6, <2>3, <2>4 DEF Passed
  <1>7. Passed(c) \subseteq Errors
    BY DEF Passed
  <1>8. QED
    BY <1>1, <1>2, <1>5, <1>6, <1>7 DEF Accepted

LEMMA NothingLostStep ==
  ASSUME TypeOK, BudgetInv, FreshInv, DropInv, NothingLostWithinBudget, [Next]_vars
  PROVE  NothingLostWithinBudget'
  <1>1. CASE UNCHANGED vars
    BY <1>1 DEF vars, NothingLostWithinBudget, Accepted, StoredUnder, Passed
  <1>2. ASSUME NEW w \in Workers, Quiet(w) PROVE NothingLostWithinBudget'
    BY <1>2, QuietKeepsAccepted DEF NothingLostWithinBudget, Quiet
  <1>3. ASSUME NEW w \in Workers, StoreError(w) PROVE NothingLostWithinBudget'
    BY <1>3, StoreErrorKeepsAccepted, StoreErrorOthers DEF NothingLostWithinBudget
  <1>4. ASSUME NEW w \in Workers, AddCounter(w) PROVE NothingLostWithinBudget'
    <2> SUFFICES ASSUME NEW c \in Collectors,
                        \A d \in Collectors : Related(c, d) => counter'[d] <= MaxErrs[d]
                 PROVE  counter'[c] = Cardinality(Accepted(c)')
      BY DEF NothingLostWithinBudget
    <2> DEFINE d == Chain[tgt[w]][pos[w]]
    <2>1. /\ Accepted(c)' \subseteq Accepted(c) \cup {err[w]}
          /\ c # d => Accepted(c)' \subseteq Accepted(c)
      BY <1>4, AddCounterGrowsOne
    <2>2. /\ Accepted(c) \subseteq Accepted(c)'
          /\ c = d => err[w] \in Accepted(c)'
      BY <1>4, AddCounterExact
    <2>3. err[w] \notin Accepted(d)
      BY <1>4, AddCounterNew
    <2>4. d \in Collectors /\ counter' = [counter EXCEPT ![d] = counter[d] + 1]
      BY <1>4, AddCounterFacts
    <2> HIDE DEF d
    <2>5. \A b \in Collectors : Related(c, b) => counter[b] <= MaxErrs[b]
      <3> SUFFICES ASSUME NEW b \in Collectors, Related(c, b) PROVE counter[b] <= MaxErrs[b]
        OBVIOUS
      <3>1. counter[b] <= counter'[b] /\ counter[b] \in Nat /\ counter'[b] \in Nat
        BY <2>4 DEF TypeOK
      <3>2. counter'[b] <= MaxErrs[b] /\ MaxErrs[b] \in Nat
        BY MaxErrsAssumption
      <3>3. QED
        BY <3>1, <3>2
    <2>6. counter[c] = Cardinality(Accepted(c)) /\ IsFiniteSet(Accepted(c))
      BY <2>5 DEF NothingLostWithinBudget, BudgetInv
    <2>7. CASE c # d
      <3>1. Accepted(c)' = Accepted(c)
        BY <2>1, <2>2, <2>7
      <3>2. counter'[c] = counter[c]
        BY <2>4, <2>7 DEF TypeOK
      <3>3. QED
        BY <2>6, <3>1, <3>2
    <2>8. CASE c = d
      <3>1. Accepted(c)' = Accepted(c) \cup {err[w]}
        BY <2>1, <2>2, <2>8
      <3>2. counter'[c] = counter[c] + 1
        BY <2>4, <2>8 DEF TypeOK
      <3> DEFINE A == Accepted(c)
      <3>3. IsFiniteSet(A) /\ err[w] \notin A /\ counter[c] = Cardinality(A)
        BY <2>3, <2>6, <2>8
      <3> HIDE DEF A
      <3>4. Cardinality(A \cup {err[w]}) = Cardinality(A) + 1
        BY <3>3, FS_AddElement, Zenon
      <3>5. QED
        BY <3>1, <3>2, <3>3, <3>4 DEF A
    <2>9. QED
      BY <2>7, <2>8
  <1>5. QED
    BY <1>1, <1>2, <1>3, <1>4, StepKinds

\* collector.go, Collect: as long as no counter on a path through c is over its
\* budget, c's counter is the number of errors in its subtree or on their way there.
THEOREM NothingLost == Spec => []NothingLostWithinBudget
  <1>1. Init => FreshInv /\ DropInv
    BY DEF Init, FreshInv, DropInv
  <1>2. Init => NothingLostWithinBudget
    <2> SUFFICES ASSUME Init, NEW c \in Collectors
                 PROVE  Accepted(c) = {} /\ counter[c] = 0
      BY FS_EmptySet DEF NothingLostWithinBudget
    <2>1. StoredUnder(c) = {} /\ Passed(c) = {}
      BY DEF Init, StoredUnder, Passed
    <2>2. QED
      BY <2>1 DEF Accepted, Init
  <1>3. QED
    BY <1>1, <1>2, TypeCorrect, BudgetInit, BudgetStep, FreshStep, DropStep,
       NothingLostStep, PTL DEF Spec
-----------------------------------------------------------------------------
\* Join.  The tree: what AncestorOf says of a collector, its parent, and the
\* collectors in between.
LEMMA SelfAncestor ==
  ASSUME NEW c \in Collectors
  PROVE  AncestorOf(c, c)
  BY ChainAssumption DEF AncestorOf

LEMMA AncestorTransitive ==
  ASSUME NEW a \in Collectors, NEW b \in Collectors, NEW c \in Collectors,
         AncestorOf(a, b), AncestorOf(b, c)
  PROVE  AncestorOf(a, c)
  <1>1. PICK i \in 1..Len(Chain[c]) : Chain[c][i] = b
    BY DEF AncestorOf
  <1>2. PICK k \in 1..Len(Chain[b]) : Chain[b][k] = a
    BY DEF AncestorOf
  <1>3. /\ Len(Chain[b]) = Len(Chain[c]) - i + 1
        /\ \A n \in 1..(Len(Chain[c]) - i + 1) : Chain[b][n] = Chain[c][i + n - 1]
    BY <1>1, ChainOfAncestor
  <1>4. i + k - 1 \in 1..Len(Chain[c]) /\ Chain[c][i + k - 1] = a
    BY <1>2, <1>3, ChainFacts
  <1>5. QED
    BY <1>4 DEF AncestorOf

LEMMA ParentChain ==
  ASSUME NEW c \in Collectors, ~IsRoot(c)
  PROVE  /\ Parent(c) \in Collectors
         /\ Chain[c][1] = c
         /\ Len(Chain[c]) \in Nat \ {0, 1}
         /\ Len(Chain[Parent(c)]) = Len(Chain[c]) - 1
         /\ \A k \in 1..(Len(Chain[c]) - 1) : Chain[Parent(c)][k] = Chain[c][k + 1]
  <1>1. Len(Chain[c]) \in Nat \ {0, 1} /\ Chain[c][1] = c
    BY ChainFacts, ChainAssumption DEF IsRoot
  <1>2. 2 \in 1..Len(Chain[c])
    <2>1. \A n \in Nat \ {0, 1} : 2 \in 1..n
      OBVIOUS
    <2>2. QED
      BY <1>1, <2>1
  <1>3. /\ Len(Chain[Chain[c][2]]) = Len(Chain[c]) - 2 + 1
        /\ \A k \in 1..(Len(Chain[c]) - 2 + 1) : Chain[Chain[c][2]][k] = Chain[c][2 + k - 1]
    BY <1>2, ChainOfAncestor
  <1>4. Chain[c][2] \in Collectors
    BY <1>2, ChainFacts
  <1>5. QED
    BY <1>1, <1>3, <1>4 DEF Parent

\* What is above c is c itself or above its parent.
LEMMA AboveParent ==
  ASSUME NEW c \in Collectors, ~IsRoot(c), NEW a \in Collectors
  PROVE  AncestorOf(a, c) <=> a = c \/ AncestorOf(a, Parent(c))
  <1>1. ASSUME AncestorOf(a, c), a # c PROVE AncestorOf(a, Parent(c))
    <2>1. PICK i \in 1..Len(Chain[c]) : Chain[c][i] = a
      BY <1>1 DEF AncestorOf
    <2>2. i - 1 \in 1..(Len(Chain[c]) - 1) /\ Chain[Parent(c)][i - 1] = a
      BY <1>1, <2>1, ParentChain
    <2>3. QED
      BY <2>2, ParentChain DEF AncestorOf
  <1>2. ASSUME AncestorOf(a, Parent(c)) PROVE AncestorOf(a, c)
    <2>1. PICK k \in 1..Len(Chain[Parent(c)]) : Chain[Parent(c)][k] = a
      BY <1>2 DEF AncestorOf
    <2>2. k + 1 \in 1..Len(Chain[c]) /\ Chain[c][k + 1] = a
      BY <2>1, ParentChain
    <2>3. QED
      BY <2>2 DEF AncestorOf
  <1>3. QED
    BY <1>1, <1>2, SelfAncestor

LEMMA NotAboveParent ==
  ASSUME NEW c \in Collectors, ~IsRoot(c)
  PROVE  ~AncestorOf(c, Parent(c))
  <1> SUFFICES ASSUME AncestorOf(c, Parent(c)) PROVE FALSE
    OBVIOUS
  <1>1. PICK k \in 1..Len(Chain[Parent(c)]) : Chain[Parent(c)][k] = c
    BY DEF AncestorOf
  <1>2. k + 1 \in 1..Len(Chain[c]) /\ 1 \in 1..Len(Chain[c]) /\ Chain[c][k + 1] = Chain[c][1] /\ k \in Nat \ {0}
    BY <1>1, ParentChain
  <1>3. QED
    BY <1>2, ChainInjective

LEMMA SiblingsApart ==
  ASSUME NEW c \in Collectors, NEW d \in Collectors, ~IsRoot(c), ~IsRoot(d),
         Parent(c) = Parent(d), AncestorOf(c, d)
  PROVE  c = d
  BY AboveParent, NotAboveParent

\* On the way from d up to a proper ancestor c lies a child of c.
LEMMA ChildOnTheWay ==
  ASSUME NEW c \in Collectors, NEW d \in Collectors, AncestorOf(c, d), c # d
  PROVE  \E b \in Collectors : ~IsRoot(b) /\ Parent(b) = c /\ AncestorOf(b, d)
  <1>1. PICK i \in 1..Len(Chain[d]) : Chain[d][i] = c
    BY DEF AncestorOf
  <1>2. Len(Chain[d]) \in Nat /\ i # 1 /\ Chain[d][1] = d
    BY <1>1, ChainFacts, ChainAssumption
  <1> DEFINE j == i - 1
  <1>3. j \in 1..Len(Chain[d]) /\ j + 1 = i /\ j + 1 <= Len(Chain[d])
    BY <1>2
  <1> HIDE DEF j
  <1> DEFINE b == Chain[d][j]
  <1>4. /\ b \in Collectors
        /\ Len(Chain[b]) = Len(Chain[d]) - j + 1
        /\ \A k \in 1..(Len(Chain[d]) - j + 1) : Chain[b][k] = Chain[d][j + k - 1]
    BY <1>3, ChainOfAncestor, ChainFacts
  <1>5. AncestorOf(b, d)
    BY <1>3 DEF AncestorOf
  <1> HIDE DEF b
  <1>6. Len(Chain[b]) # 1 /\ Chain[b][2] = c
    BY <1>1, <1>2, <1>3, <1>4
  <1>7. QED
    BY <1>4, <1>5, <1>6 DEF IsRoot, Parent
-----------------------------------------------------------------------------
\* The lists of children are those of the tree of live collectors, only these
\* hold errors, and an error is in one list.
TreeInv ==
  /\ \A d \in live, c \in Collectors : AncestorOf(c, d) => c \in live
  /\ \A d \in live : ~IsRoot(d) =>
       \E i \in 1..Len(children[Parent(d)]) : children[Parent(d)][i] = d
  /\ \A c \in Collectors : \A i \in 1..Len(children[c]) :
       /\ children[c][i] \in live /\ ~IsRoot(children[c][i])
       /\ Parent(children[c][i]) = c
  /\ \A c \in Collectors : \A i, j \in 1..Len(children[c]) :
       children[c][i] = children[c][j] => i = j
  /\ \A c \in Collectors : errs[c] # {} => c \in live
  /\ \A w \in Workers : pc[w] = "adding" => tgt[w] \in live
  /\ \A c, d \in Collectors, e \in Errors : e \in errs[c] /\ e \in errs[d] => c = d

\* A walk of Join below t, with the collectors q still to visit, the errors
\* counted so far, and those that were there at the start: q is an antichain
\* below t, what is counted is in no subtree of q, and what was there at the start
\* is counted or in one.
WalkOf(t, q, counted, start, lists) ==
  /\ \A i \in 1..Len(q) : AncestorOf(t, q[i])
  /\ \A i, j \in 1..Len(q) : AncestorOf(q[i], q[j]) => i = j
  /\ \A e \in Errors : counted[e] # 0 =>
       /\ counted[e] = 1
       /\ \E d \in Collectors : /\ e \in lists[d] /\ AncestorOf(t, d)
                                /\ \A i \in 1..Len(q) : ~AncestorOf(q[i], d)
  /\ \A e \in start : \/ counted[e] = 1
                      \/ \E d \in Collectors : /\ e \in lists[d]
                                               /\ \E i \in 1..Len(q) : AncestorOf(q[i], d)

WalkInv == \A w \in Workers : pc[w] = "joining" => WalkOf(tgt[w], todo[w], acc[w], before[w], errs)

\* A walk goes on being one when errors are added.
LEMMA WalkOfMore ==
  ASSUME NEW t, NEW q, NEW counted, NEW start, NEW lists, NEW more,
         WalkOf(t, q, counted, start, lists),
         \A d \in Collectors : lists[d] \subseteq more[d]
  PROVE  WalkOf(t, q, counted, start, more)
  BY DEF WalkOf

\* A walk begins with the collector that is joined, and no error counted.
LEMMA WalkOfBegin ==
  ASSUME NEW c \in Collectors, NEW lists
  PROVE  WalkOf(c, <<c>>, Nothing,
                {e \in Errors : \E d \in Collectors : AncestorOf(c, d) /\ e \in lists[d]}, lists)
  <1>1. AncestorOf(c, c)
    BY SelfAncestor
  <1> DEFINE q == <<c>>
  <1>2. Len(q) = 1 /\ q[1] = c
    OBVIOUS
  <1> HIDE DEF q
  <1>3. WalkOf(c, q, Nothing,
               {e \in Errors : \E d \in Collectors : AncestorOf(c, d) /\ e \in lists[d]}, lists)
    BY <1>1, <1>2 DEF WalkOf, Nothing
  <1>4. QED
    BY <1>3 DEF q

LEMMA Concatenation ==
  ASSUME NEW S, NEW u \in Seq(S), NEW t \in Seq(S)
  PROVE  /\ Len(u \o t) = Len(u) + Len(t)
         /\ \A i \in 1..Len(u) : (u \o t)[i] = u[i]
         /\ \A i \in 1..Len(t) : (u \o t)[Len(u) + i] = t[i]
  <1>1. Len(u \o t) = Len(u) + Len(t)
    OBVIOUS
  <1>2. \A i \in 1..Len(u) : (u \o t)[i] = u[i]
    OBVIOUS
  <1>3. ASSUME NEW i \in 1..Len(t) PROVE (u \o t)[Len(u) + i] = t[i]
    <2>1. Len(u) \in Nat /\ Len(t) \in Nat
      OBVIOUS
    <2>2. QED
      BY <2>1
  <1>4. QED
    BY <1>1, <1>2, <1>3

\* Where the elements of the next todo r come from: n children, and q but its head.
NextOf(kids, q, r, n) ==
  /\ Len(r) = n + Len(q) - 1
  /\ n \in Nat /\ Len(q) \in Nat \ {0}
  /\ \A i \in 1..n : r[i] = kids[i]
  /\ \A i \in 1..Len(r) : i > n => i - n + 1 \in 2..Len(q) /\ r[i] = q[i - n + 1]
  /\ \A i \in 2..Len(q) : n + i - 1 \in 1..Len(r) /\ r[n + i - 1] = q[i]

LEMMA NextTodoOf ==
  ASSUME NEW kids, NEW q, NEW t, NEW r, NEW n \in Nat,
         Len(q) \in Nat \ {0}, Len(t) = Len(q) - 1,
         \A i \in 1..Len(t) : t[i] = q[i + 1],
         Len(r) = n + Len(t),
         \A i \in 1..n : r[i] = kids[i],
         \A i \in 1..Len(t) : r[n + i] = t[i]
  PROVE  NextOf(kids, q, r, n)
  <1>1. n \in Nat /\ Len(t) \in Nat /\ Len(t) = Len(q) - 1 /\ Len(q) \in Nat \ {0}
    OBVIOUS
  <1>2. ASSUME NEW i \in 1..Len(r), i > n
        PROVE  i - n + 1 \in 2..Len(q) /\ r[i] = q[i - n + 1]
    <2> DEFINE k == i - n
    <2>1. k \in 1..Len(t) /\ i = n + k
      BY <1>1, <1>2
    <2> HIDE DEF k
    <2>2. r[i] = q[k + 1] /\ k + 1 = i - n + 1
      BY <1>1, <2>1
    <2>3. QED
      BY <1>1, <2>1, <2>2
  <1>3. ASSUME NEW i \in 2..Len(q)
        PROVE  n + i - 1 \in 1..Len(r) /\ r[n + i - 1] = q[i]
    <2> DEFINE k == i - 1
    <2>1. k \in 1..Len(t) /\ i = k + 1 /\ n + i - 1 = n + k
      BY <1>1
    <2> HIDE DEF k
    <2>2. n + k \in 1..Len(r) /\ r[n + k] = q[k + 1]
      BY <1>1, <2>1
    <2>3. QED
      BY <2>1, <2>2
  <1>4. QED
    BY <1>1, <1>2, <1>3 DEF NextOf

LEMMA NextTodo ==
  ASSUME NEW S, NEW kids \in Seq(S), NEW q \in Seq(S), q # <<>>
  PROVE  NextOf(kids, q, kids \o Tail(q), Len(kids))
  <1>1. /\ Tail(q) \in Seq(S) /\ Len(Tail(q)) = Len(q) - 1 /\ Len(q) \in Nat \ {0}
        /\ \A i \in 1..Len(Tail(q)) : Tail(q)[i] = q[i + 1]
        /\ Len(kids) \in Nat
    OBVIOUS
  <1>2. ASSUME NEW t \in Seq(S)
        PROVE  /\ Len(kids \o t) = Len(kids) + Len(t)
               /\ \A i \in 1..Len(kids) : (kids \o t)[i] = kids[i]
               /\ \A i \in 1..Len(t) : (kids \o t)[Len(kids) + i] = t[i]
    BY Concatenation
  <1>3. QED
    BY <1>1, <1>2, NextTodoOf, Zenon

\* A walk that visits the first collector and goes on with its children is one.
LEMMA WalkOfVisit ==
  ASSUME TypeOK, TreeInv, NEW t \in Collectors, NEW q \in Seq(Collectors), q # <<>>,
         NEW counted \in [Errors -> Nat], NEW start \in SUBSET Errors,
         WalkOf(t, q, counted, start, errs)
  PROVE  WalkOf(t, children[q[1]] \o Tail(q),
                [e \in Errors |-> counted[e] + (IF e \in errs[q[1]] THEN 1 ELSE 0)], start, errs)
  <1> DEFINE c == q[1] kids == children[q[1]] r == kids \o Tail(q) n == Len(kids)
             next == [e \in Errors |-> counted[e] + (IF e \in errs[c] THEN 1 ELSE 0)]
  <1>1. /\ c \in Collectors /\ 1 \in 1..Len(q)
        /\ \A i \in 1..Len(q) : q[i] \in Collectors
    OBVIOUS
  <1>2. kids \in Seq(Collectors)
    BY <1>1 DEF TypeOK
  <1>3. /\ \A i \in 1..n : kids[i] \in Collectors
        /\ \A i \in 1..n : kids[i] \in live /\ ~IsRoot(kids[i]) /\ Parent(kids[i]) = c
        /\ \A i, j \in 1..n : kids[i] = kids[j] => i = j
        /\ \A d \in live : ~IsRoot(d) /\ Parent(d) = c => \E i \in 1..n : kids[i] = d
    BY <1>1, <1>2 DEF TreeInv
  <1>4. NextOf(kids, q, r, n)
    BY <1>2, NextTodo, Zenon
  <1>5. \A e \in Errors : next[e] = counted[e] + (IF e \in errs[c] THEN 1 ELSE 0)
    OBVIOUS
  <1>6. \A d \in Collectors, e \in Errors : e \in errs[c] /\ e \in errs[d] => c = d
    BY <1>1 DEF TreeInv
  <1>7. /\ \A i \in 1..Len(q) : AncestorOf(t, q[i])
        /\ \A i, j \in 1..Len(q) : AncestorOf(q[i], q[j]) => i = j
        /\ \A e \in Errors : counted[e] # 0 =>
             /\ counted[e] = 1
             /\ \E d \in Collectors : /\ e \in errs[d] /\ AncestorOf(t, d)
                                      /\ \A i \in 1..Len(q) : ~AncestorOf(q[i], d)
        /\ \A e \in start : \/ counted[e] = 1
                            \/ \E d \in Collectors : /\ e \in errs[d]
                                                     /\ \E i \in 1..Len(q) : AncestorOf(q[i], d)
    BY DEF WalkOf
  <1> HIDE DEF c, kids, r, n, next
  <1> USE DEF NextOf
  <1>8. c = q[1] /\ AncestorOf(t, c) /\ AncestorOf(c, c)
    BY <1>1, <1>7, SelfAncestor DEF c
  \* what is below a child of c is below c; an element of r is below an element of q
  <1>9. \A i \in 1..n : \A d \in Collectors : AncestorOf(kids[i], d) => AncestorOf(c, d)
    BY <1>1, <1>3, <1>8, AboveParent, AncestorTransitive
  <1>10. \A i \in 1..Len(r) : /\ r[i] \in Collectors
                              /\ \E k \in 1..Len(q) : \A d \in Collectors :
                                   AncestorOf(r[i], d) => AncestorOf(q[k], d)
    <2> TAKE i \in 1..Len(r)
    <2>1. CASE i \in 1..n
      <3>1. r[i] = kids[i] /\ kids[i] \in Collectors
        BY <1>3, <1>4, <2>1
      <3>2. \A d \in Collectors : AncestorOf(r[i], d) => AncestorOf(q[1], d)
        BY <1>8, <1>9, <2>1, <3>1
      <3>3. QED
        BY <1>1, <3>1, <3>2
    <2>2. CASE i > n
      <3>1. i - n + 1 \in 1..Len(q) /\ r[i] = q[i - n + 1]
        BY <1>4, <2>2
      <3>2. QED
        BY <1>1, <3>1
    <2>3. QED
      BY <1>4, <2>1, <2>2
  <1>11. \A i \in 1..Len(r) : AncestorOf(t, r[i])
    <2> TAKE i \in 1..Len(r)
    <2>1. PICK k \in 1..Len(q) : AncestorOf(q[k], r[i])
      BY <1>10, SelfAncestor
    <2>2. AncestorOf(t, q[k]) /\ q[k] \in Collectors /\ r[i] \in Collectors
      BY <1>1, <1>7, <1>10
    <2>3. QED
      BY <2>1, <2>2, AncestorTransitive
  <1>12. ASSUME NEW i \in 1..Len(r), NEW j \in 1..Len(r), AncestorOf(r[i], r[j])
         PROVE  i = j
    <2>1. CASE i \in 1..n /\ j \in 1..n
      <3>1. r[i] = kids[i] /\ r[j] = kids[j]
        BY <1>4, <2>1
      <3>2. /\ kids[i] \in Collectors /\ ~IsRoot(kids[i]) /\ Parent(kids[i]) = c
            /\ kids[j] \in Collectors /\ ~IsRoot(kids[j]) /\ Parent(kids[j]) = c
        BY <1>3, <2>1
      <3>3. kids[i] = kids[j]
        BY <1>12, <3>1, <3>2, SiblingsApart
      <3>4. QED
        BY <1>3, <2>1, <3>3
    <2>2. CASE i \in 1..n /\ j > n
      <3>1. j - n + 1 \in 2..Len(q) /\ r[j] = q[j - n + 1]
        BY <1>4, <2>2
      <3>2. AncestorOf(c, q[j - n + 1])
        BY <1>1, <1>4, <1>9, <1>12, <2>2, <3>1
      <3>3. QED
        BY <1>1, <1>4, <1>7, <1>8, <3>1, <3>2
    <2>3. CASE i > n /\ j \in 1..n
      <3>1. i - n + 1 \in 2..Len(q) /\ r[i] = q[i - n + 1] /\ r[i] \in Collectors
        BY <1>4, <1>10, <2>3
      <3>2. r[j] \in Collectors /\ ~IsRoot(r[j]) /\ Parent(r[j]) = c
        BY <1>3, <1>4, <2>3
      <3>3. r[i] = r[j] \/ AncestorOf(r[i], c)
        BY <1>12, <3>1, <3>2, AboveParent
      <3>4. AncestorOf(c, r[j])
        BY <1>1, <1>8, <3>2, AboveParent
      <3>5. 1 \in 1..Len(q) /\ i - n + 1 \in 1..Len(q) /\ i - n + 1 # 1
        BY <1>1, <1>4, <2>3, <3>1
      <3>6. QED
        BY <1>7, <1>8, <3>1, <3>3, <3>4, <3>5
    <2>4. CASE i > n /\ j > n
      <3>1. /\ i - n + 1 \in 2..Len(q) /\ r[i] = q[i - n + 1]
            /\ j - n + 1 \in 2..Len(q) /\ r[j] = q[j - n + 1]
        BY <1>4, <2>4
      <3>2. i - n + 1 \in 1..Len(q) /\ j - n + 1 \in 1..Len(q)
        BY <1>4, <3>1
      <3>3. i - n + 1 = j - n + 1
        BY <1>7, <1>12, <3>1, <3>2
      <3>4. QED
        BY <1>4, <3>3
    <2>5. QED
      BY <1>4, <2>1, <2>2, <2>3, <2>4
  <1>13. ASSUME NEW e \in Errors, next[e] # 0
         PROVE  /\ next[e] = 1
                /\ \E d \in Collectors : /\ e \in errs[d] /\ AncestorOf(t, d)
                                         /\ \A i \in 1..Len(r) : ~AncestorOf(r[i], d)
    <2>1. CASE counted[e] # 0
      <3>1. PICK d \in Collectors : /\ e \in errs[d] /\ AncestorOf(t, d)
                                    /\ \A i \in 1..Len(q) : ~AncestorOf(q[i], d)
        BY <1>7, <2>1
      <3>2. e \notin errs[c]
        BY <1>1, <1>6, <1>8, <3>1
      <3>3. next[e] = 1
        BY <1>5, <1>7, <2>1, <3>2
      <3>4. QED
        BY <1>10, <3>1, <3>3
    <2>2. CASE counted[e] = 0
      <3>1. e \in errs[c] /\ next[e] = 1
        BY <1>5, <1>13, <2>2
      <3>2. ASSUME NEW i \in 1..Len(r), AncestorOf(r[i], c) PROVE FALSE
        <4>1. CASE i \in 1..n
          BY <1>3, <1>4, <3>2, <4>1, NotAboveParent
        <4>2. CASE i > n
          <5>1. i - n + 1 \in 2..Len(q) /\ r[i] = q[i - n + 1]
            BY <1>4, <4>2
          <5>2. QED
            BY <1>1, <1>4, <1>7, <1>8, <3>2, <5>1
        <4>3. QED
          BY <1>4, <4>1, <4>2
      <3>3. QED
        BY <1>1, <1>8, <3>1, <3>2
    <2>3. QED
      BY <2>1, <2>2
  <1>14. ASSUME NEW e \in start
         PROVE  \/ next[e] = 1
                \/ \E d \in Collectors : /\ e \in errs[d]
                                         /\ \E i \in 1..Len(r) : AncestorOf(r[i], d)
    <2>1. e \in Errors
      OBVIOUS
    <2>2. next[e] # 0 => next[e] = 1
      BY <1>13, <2>1
    <2>3. counted[e] \in Nat
      BY <2>1
    <2>4. CASE counted[e] = 1
      BY <1>5, <2>1, <2>2, <2>3, <2>4
    <2>5. CASE counted[e] # 1
      <3>1. PICK d \in Collectors, k \in 1..Len(q) : e \in errs[d] /\ AncestorOf(q[k], d)
        BY <1>7, <2>5
      <3>2. CASE d = c
        BY <1>5, <2>1, <2>2, <2>3, <3>1, <3>2
      <3>3. CASE d # c /\ k = 1
        <4>1. PICK b \in Collectors : ~IsRoot(b) /\ Parent(b) = c /\ AncestorOf(b, d)
          BY <1>1, <1>8, <3>1, <3>3, ChildOnTheWay
        <4>2. b \in live
          BY <3>1, <4>1 DEF TreeInv
        <4>3. PICK i \in 1..n : kids[i] = b
          BY <1>3, <4>1, <4>2
        <4>4. i \in 1..Len(r) /\ r[i] = b
          BY <1>4, <4>3
        <4>5. QED
          BY <3>1, <4>1, <4>4
      <3>4. CASE k # 1
        <4>1. k \in 2..Len(q)
          BY <1>4, <3>4
        <4>2. n + k - 1 \in 1..Len(r) /\ r[n + k - 1] = q[k]
          BY <1>4, <4>1
        <4>3. QED
          BY <3>1, <4>2
      <3>5. QED
        BY <3>2, <3>3, <3>4
    <2>6. QED
      BY <2>4, <2>5
  <1>15. WalkOf(t, r, next, start, errs)
    BY <1>11, <1>12, <1>13, <1>14 DEF WalkOf
  <1>16. QED
    BY <1>15 DEF r, next, kids, c
-----------------------------------------------------------------------------
LEMMA TreeNewChild ==
  ASSUME TypeOK, TreeInv, NEW w \in Workers, NEW c \in Collectors, NewChild(w, c)
  PROVE  TreeInv'
  <1> DEFINE p == Parent(c)
  <1>1. /\ c \notin live /\ ~IsRoot(c) /\ p \in live /\ live' = live \cup {c}
        /\ children' = [children EXCEPT ![p] = Append(children[p], c)]
        /\ UNCHANGED <<errs, pc, tgt>>
    BY DEF NewChild, call
  <1>2. p \in Collectors /\ children[p] \in Seq(Collectors)
    BY <1>1 DEF TypeOK
  <1>3. \A a \in Collectors : AncestorOf(a, c) => a = c \/ a \in live
    BY <1>1, <1>2, AboveParent DEF TreeInv
  <1> DEFINE kids == children[p] n == Len(kids)
  <1>4. /\ n \in Nat /\ Len(Append(kids, c)) = n + 1
        /\ \A i \in 1..n : Append(kids, c)[i] = kids[i]
        /\ Append(kids, c)[n + 1] = c
    BY <1>2
  <1>5. /\ children'[p] = Append(kids, c)
        /\ \A d \in Collectors : d # p => children'[d] = children[d]
    BY <1>1, <1>2 DEF TypeOK
  <1>6. /\ Len(children'[p]) = n + 1 /\ n \in Nat
        /\ \A i \in 1..n : children'[p][i] = children[p][i]
        /\ children'[p][n + 1] = c
    BY <1>4, <1>5
  <1>7. n = Len(children[p]) /\ p = Parent(c)
    OBVIOUS
  <1> HIDE DEF kids, n, p
  <1>8. \A d \in live', a \in Collectors : AncestorOf(a, d) => a \in live'
    BY <1>1, <1>3 DEF TreeInv
  <1>9. ASSUME NEW d \in live', ~IsRoot(d)
        PROVE  \E i \in 1..Len(children'[Parent(d)]) : children'[Parent(d)][i] = d
    <2>1. CASE d = c
      BY <1>6, <1>7, <2>1
    <2>2. CASE d # c
      <3>1. d \in live /\ d \in Collectors
        BY <1>1, <2>2 DEF TypeOK
      <3>2. PICK i \in 1..Len(children[Parent(d)]) : children[Parent(d)][i] = d
        BY <1>9, <3>1 DEF TreeInv
      <3>3. CASE Parent(d) = p
        BY <1>6, <1>7, <3>2, <3>3
      <3>4. CASE Parent(d) # p
        <4>1. Parent(d) \in Collectors
          BY <1>9, <3>1, ParentChain
        <4>2. QED
          BY <1>5, <3>2, <3>4, <4>1
      <3>5. QED
        BY <3>3, <3>4
    <2>3. QED
      BY <2>1, <2>2
  <1>10. ASSUME NEW d \in Collectors, NEW i \in 1..Len(children'[d])
         PROVE  /\ children'[d][i] \in live' /\ ~IsRoot(children'[d][i])
                /\ Parent(children'[d][i]) = d
    <2>1. CASE d = p
      <3>1. i \in 1..n \/ i = n + 1
        BY <1>6, <2>1
      <3>2. QED
        BY <1>1, <1>2, <1>6, <1>7, <2>1, <3>1 DEF TreeInv
    <2>2. CASE d # p
      BY <1>1, <1>5, <2>2 DEF TreeInv
    <2>3. QED
      BY <2>1, <2>2
  <1>11. ASSUME NEW d \in Collectors, NEW i \in 1..Len(children'[d]), NEW j \in 1..Len(children'[d]),
                children'[d][i] = children'[d][j]
         PROVE  i = j
    <2>1. CASE d = p
      <3>1. (i \in 1..n \/ i = n + 1) /\ (j \in 1..n \/ j = n + 1)
        BY <1>6, <2>1
      <3>2. \A k \in 1..n : children[p][k] # c
        BY <1>1, <1>2, <1>7 DEF TreeInv
      <3>3. \A k, m \in 1..n : children[p][k] = children[p][m] => k = m
        BY <1>2, <1>7 DEF TreeInv
      <3>4. QED
        BY <1>6, <1>11, <2>1, <3>1, <3>2, <3>3
    <2>2. CASE d # p
      BY <1>5, <1>11, <2>2 DEF TreeInv
    <2>3. QED
      BY <2>1, <2>2
  <1>12. /\ \A d \in Collectors : errs'[d] # {} => d \in live'
         /\ \A v \in Workers : pc'[v] = "adding" => tgt'[v] \in live'
         /\ \A b, d \in Collectors, e \in Errors : e \in errs'[b] /\ e \in errs'[d] => b = d
    BY <1>1 DEF TreeInv
  <1>13. QED
    BY <1>8, <1>9, <1>10, <1>11, <1>12 DEF TreeInv

\* Storing an error keeps it in one list, as no list held it while it was in flight.
LEMMA TreeStoreError ==
  ASSUME TypeOK, FreshInv, TreeInv, NEW w \in Workers, StoreError(w)
  PROVE  TreeInv'
  <1>1. /\ live' = live /\ children' = children
        /\ pc[w] = "adding" /\ tgt[w] \in Collectors
        /\ errs' = [errs EXCEPT ![tgt[w]] = IF store[w] THEN errs[tgt[w]] \cup {err[w]} ELSE errs[tgt[w]]]
        /\ \A v \in Workers : pc'[v] = "adding" => pc[v] = "adding" /\ tgt'[v] = tgt[v]
    BY StoreErrorOthers DEF StoreError, Others, TypeOK
  <1>2. \A d \in Collectors : /\ errs'[d] \subseteq errs[d] \cup {err[w]}
                              /\ d # tgt[w] => errs'[d] = errs[d]
    BY <1>1 DEF TypeOK
  <1>3. \A d \in Collectors : err[w] \notin errs[d]
    BY <1>1 DEF FreshInv
  <1>4. tgt[w] \in live
    BY <1>1 DEF TreeInv
  <1>5. \A d \in Collectors : errs'[d] # {} => d \in live'
    BY <1>1, <1>2, <1>4 DEF TreeInv
  <1>6. ASSUME NEW b \in Collectors, NEW d \in Collectors, NEW e \in Errors,
               e \in errs'[b], e \in errs'[d]
        PROVE  b = d
    <2>1. CASE e = err[w]
      BY <1>2, <1>3, <1>6, <2>1
    <2>2. CASE e # err[w]
      BY <1>2, <1>6, <2>2 DEF TreeInv
    <2>3. QED
      BY <2>1, <2>2
  <1>7. \A v \in Workers : pc'[v] = "adding" => tgt'[v] \in live'
    BY <1>1 DEF TreeInv
  <1>8. QED
    BY <1>1, <1>5, <1>6, <1>7 DEF TreeInv

LEMMA TreeStep ==
  ASSUME TypeOK, FreshInv, TreeInv, [Next]_vars
  PROVE  TreeInv'
  <1>1. ASSUME UNCHANGED <<live, children, errs>>,
               \A v \in Workers : pc'[v] = "adding" =>
                 tgt'[v] \in live \/ (pc[v] = "adding" /\ tgt'[v] = tgt[v])
        PROVE  TreeInv'
    BY <1>1 DEF TreeInv
  <1>2. CASE UNCHANGED vars
    BY <1>1, <1>2 DEF vars
  <1>3. CASE Next
    <2>1. PICK w \in Workers :
            \/ \E c \in Collectors :
                 \/ NewChild(w, c)
                 \/ CollectNil(w, c)
                 \/ CollectJoined(w, c)
                 \/ \E e \in Errors : CollectError(w, c, e)
                 \/ CallJoin(w, c)
            \/ AddCounter(w)
            \/ StoreError(w)
            \/ JoinVisit(w)
            \/ JoinReturn(w)
      BY <1>3 DEF Next
    <2>2. ASSUME NEW c \in Collectors, CollectNil(w, c) \/ CollectJoined(w, c) PROVE TreeInv'
      BY <1>1, <2>2, JoinIfFullOthers DEF CollectNil, CollectJoined, Others, shared
    <2>3. ASSUME NEW c \in Collectors, NEW e \in Errors, CollectError(w, c, e) PROVE TreeInv'
      BY <1>1, <2>3 DEF CollectError, TypeOK
    <2>4. ASSUME NEW c \in Collectors, CallJoin(w, c) PROVE TreeInv'
      BY <1>1, <2>4, BeginJoinOthers DEF CallJoin, Others, shared
    <2>5. ASSUME AddCounter(w) PROVE TreeInv'
      BY <1>1, <2>5 DEF AddCounter
    <2>6. ASSUME JoinVisit(w) PROVE TreeInv'
      BY <1>1, <2>6 DEF JoinVisit, shared, call
    <2>7. ASSUME JoinReturn(w) PROVE TreeInv'
      BY <1>1, <2>7, ReturnOthers DEF JoinReturn, Others, shared
    <2>8. QED
      BY <2>1, <2>2, <2>3, <2>4, <2>5, <2>6, <2>7, TreeNewChild, TreeStoreError
  <1>4. QED
    BY <1>2, <1>3

\* The joins of all goroutines but w are where they were.
OtherWalks(w) ==
  \A v \in Workers \ {w} : /\ pc'[v] = pc[v]
                           /\ tgt'[v] = tgt[v]
                           /\ todo'[v] = todo[v]
                           /\ acc'[v] = acc[v]
                           /\ before'[v] = before[v]

\* w begins to join c.
Begins(w, c) ==
  /\ tgt'[w] = c
  /\ todo'[w] = <<c>>
  /\ acc'[w] = Nothing
  /\ before'[w] = {e \in Errors : \E d \in Collectors : AncestorOf(c, d) /\ e \in errs[d]}

\* A step of w that leaves the walks of the others alone and takes no error away.
Walks(w) ==
  /\ OtherWalks(w)
  /\ \A d \in Collectors : errs[d] \subseteq errs'[d]
  /\ \/ pc'[w] # "joining"
     \/ \E c \in Collectors : Begins(w, c)
     \/ JoinVisit(w)

LEMMA BeginJoinWalks ==
  ASSUME TypeOK, NEW w \in Workers, NEW c \in Collectors, BeginJoin(w, c)
  PROVE  OtherWalks(w) /\ Begins(w, c)
  BY DEF TypeOK, BeginJoin, OtherWalks, Begins

LEMMA ReturnWalks ==
  ASSUME TypeOK, NEW w \in Workers, NEW e, Return(w, e)
  PROVE  OtherWalks(w) /\ pc'[w] # "joining"
  BY DEF TypeOK, Return, OtherWalks

LEMMA JoinIfFullWalks ==
  ASSUME TypeOK, NEW w \in Workers, NEW c \in Collectors, JoinIfFull(w, c), errs' = errs
  PROVE  Walks(w)
  BY BeginJoinWalks, ReturnWalks DEF JoinIfFull, Walks

LEMMA WalkKinds ==
  ASSUME TypeOK, Next
  PROVE  \E w \in Workers : Walks(w)
  <1>1. PICK w \in Workers :
          \/ \E c \in Collectors :
               \/ NewChild(w, c)
               \/ CollectNil(w, c)
               \/ CollectJoined(w, c)
               \/ \E e \in Errors : CollectError(w, c, e)
               \/ CallJoin(w, c)
          \/ AddCounter(w)
          \/ StoreError(w)
          \/ JoinVisit(w)
          \/ JoinReturn(w)
    BY DEF Next
  <1>2. ASSUME NEW c \in Collectors, NewChild(w, c) PROVE Walks(w)
    BY <1>2 DEF NewChild, Walks, OtherWalks, call, walk
  <1>3. ASSUME NEW c \in Collectors, CollectNil(w, c) \/ CollectJoined(w, c) PROVE Walks(w)
    BY <1>3, JoinIfFullWalks DEF CollectNil, CollectJoined, shared
  <1>4. ASSUME NEW c \in Collectors, NEW e \in Errors, CollectError(w, c, e) PROVE Walks(w)
    BY <1>4 DEF CollectError, Walks, OtherWalks, TypeOK, walk
  <1>5. ASSUME NEW c \in Collectors, CallJoin(w, c) PROVE Walks(w)
    BY <1>5, BeginJoinWalks DEF CallJoin, Walks, shared
  <1>6. ASSUME AddCounter(w) PROVE Walks(w)
    BY <1>6 DEF AddCounter, Walks, OtherWalks, walk
  <1>7. ASSUME StoreError(w) PROVE Walks(w)
    <2>1. \A d \in Collectors : errs[d] \subseteq errs'[d]
      BY <1>7 DEF StoreError, TypeOK
    <2>2. tgt[w] \in Collectors
      BY <1>7 DEF StoreError, TypeOK
    <2>3. BeginJoin(w, tgt[w]) \/ Return(w, Nil)
      BY <1>7 DEF StoreError
    <2>4. QED
      BY <2>1, <2>2, <2>3, BeginJoinWalks, ReturnWalks DEF Walks
  <1>8. ASSUME JoinVisit(w) PROVE Walks(w)
    BY <1>8 DEF JoinVisit, Walks, OtherWalks, TypeOK, shared, call
  <1>9. ASSUME JoinReturn(w) PROVE Walks(w)
    BY <1>9, ReturnWalks DEF JoinReturn, Walks, shared
  <1>10. QED
    BY <1>1, <1>2, <1>3, <1>4, <1>5, <1>6, <1>7, <1>8, <1>9

LEMMA WalkStep ==
  ASSUME TypeOK, TreeInv, WalkInv, [Next]_vars
  PROVE  WalkInv'
  <1>1. CASE UNCHANGED vars
    BY <1>1 DEF vars, WalkInv
  <1>2. ASSUME NEW w \in Workers, Walks(w) PROVE WalkInv'
    <2> SUFFICES ASSUME NEW v \in Workers, pc'[v] = "joining"
                 PROVE  WalkOf(tgt'[v], todo'[v], acc'[v], before'[v], errs')
      BY DEF WalkInv
    <2>1. CASE v # w
      <3>1. WalkOf(tgt[v], todo[v], acc[v], before[v], errs)
        BY <1>2, <2>1 DEF Walks, OtherWalks, WalkInv
      <3>2. WalkOf(tgt[v], todo[v], acc[v], before[v], errs')
        BY <1>2, <3>1, WalkOfMore DEF Walks
      <3>3. QED
        BY <1>2, <2>1, <3>2 DEF Walks, OtherWalks
    <2>2. ASSUME v = w, NEW c \in Collectors, Begins(w, c)
          PROVE  WalkOf(tgt'[v], todo'[v], acc'[v], before'[v], errs')
      <3>1. WalkOf(tgt'[v], todo'[v], acc'[v], before'[v], errs)
        BY <2>2, WalkOfBegin DEF Begins
      <3>2. QED
        BY <1>2, <3>1, WalkOfMore DEF Walks
    <2>3. CASE v = w /\ JoinVisit(w)
      <3>1. /\ pc[w] = "joining" /\ todo[w] # <<>> /\ errs' = errs
            /\ acc'[w] = [e \in Errors |-> acc[w][e] + (IF e \in errs[Head(todo[w])] THEN 1 ELSE 0)]
            /\ todo'[w] = children[Head(todo[w])] \o Tail(todo[w])
            /\ tgt'[w] = tgt[w] /\ before'[w] = before[w]
        BY <2>3 DEF JoinVisit, TypeOK, shared, call
      <3>2. /\ tgt[w] \in Collectors /\ todo[w] \in Seq(Collectors)
            /\ acc[w] \in [Errors -> Nat] /\ before[w] \in SUBSET Errors
        BY <3>1 DEF TypeOK
      <3>3. WalkOf(tgt[w], todo[w], acc[w], before[w], errs)
        BY <3>1 DEF WalkInv
      <3>4. Head(todo[w]) = todo[w][1]
        BY <3>1, <3>2
      <3>5. WalkOf(tgt[w], children[todo[w][1]] \o Tail(todo[w]),
                   [e \in Errors |-> acc[w][e] + (IF e \in errs[todo[w][1]] THEN 1 ELSE 0)],
                   before[w], errs)
        BY <3>1, <3>2, <3>3, WalkOfVisit
      <3>6. QED
        BY <2>3, <3>1, <3>4, <3>5, Zenon
    <2>4. QED
      BY <1>2, <2>1, <2>2, <2>3 DEF Walks
  <1>3. QED
    BY <1>1, <1>2, WalkKinds

\* collector.go, Join: whatever is added under it while it walks, it reports no
\* error twice and none of another subtree, and misses none that was there before.
THEOREM JoinIsExact == Spec => []JoinExact
  <1>1. Init => FreshInv /\ TreeInv /\ WalkInv
    <2> SUFFICES ASSUME Init PROVE FreshInv /\ TreeInv /\ WalkInv
      OBVIOUS
    <2>1. FreshInv /\ WalkInv
      BY DEF Init, FreshInv, WalkInv
    <2>2. ASSUME NEW d \in live, NEW a \in Collectors, AncestorOf(a, d) PROVE a \in live
      <3>1. d \in Collectors /\ Len(Chain[d]) = 1
        BY DEF Init, IsRoot
      <3>2. Chain[d][1] = d
        BY <3>1, ChainAssumption
      <3>3. a = d
        BY <2>2, <3>1, <3>2 DEF AncestorOf
      <3>4. QED
        BY <3>3
    <2>3. \A c \in Collectors : children[c] = <<>> /\ errs[c] = {}
      BY DEF Init
    <2>4. QED
      BY <2>1, <2>2, <2>3 DEF Init, TreeInv
  <1>2. TypeOK /\ WalkInv => JoinExact
    <2> SUFFICES ASSUME TypeOK, WalkInv, NEW w \in Workers, pc[w] = "joining"
                 PROVE  /\ \A e \in Errors : /\ acc[w][e] <= 1
                                             /\ acc[w][e] = 1 => e \in StoredUnder(tgt[w])
                        /\ todo[w] = <<>> => \A e \in before[w] : acc[w][e] = 1
      BY DEF JoinExact
    <2>1. WalkOf(tgt[w], todo[w], acc[w], before[w], errs)
      BY DEF WalkInv
    <2>2. \A e \in Errors : acc[w][e] = 0 \/ acc[w][e] = 1
      BY <2>1 DEF WalkOf
    <2>3. \A e \in Errors : acc[w][e] = 1 => e \in StoredUnder(tgt[w])
      BY <2>1 DEF WalkOf, StoredUnder
    <2>4. todo[w] = <<>> => \A e \in before[w] : acc[w][e] = 1
      BY <2>1 DEF WalkOf
    <2>5. QED
      BY <2>2, <2>3, <2>4
  <1>3. QED
    BY <1>1, <1>2, TypeCorrect, FreshStep, TreeStep, WalkStep, PTL DEF Spec
=============================================================================

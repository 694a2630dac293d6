------------------------- MODULE ReferredCacheProofs -------------------------
(***************************************************************************)
(* Theorems about ReferredCache: the map is filled once per refer, and as  *)
(* long as all parsers of the process work for one generator the cache     *)
(* implements ReferLookup.                                                 *)
(***************************************************************************)
EXTENDS ReferredCache, TLAPS

Busy == {"rlock", "reading", "lock", "waiting", "loading"}

\* Where a parser is and what it asks fit together, and the lock is exclusive.
Base == TypeOK /\ AtInv /\ LockInv /\ LoadsInv

\* The refer a busy parser is at is a refer text.
LEMMA ReferTyped ==
  ASSUME TypeOK, AtInv, NEW w \in Parsers, pc[w] \in Busy
  PROVE  /\ question[w] \in Questions
         /\ question[w].refers \in Seq(Refers)
         /\ question[w].value \in Values
         /\ Refer(w) \in Refers
         /\ SourcesOf(w) \in Seq((SUBSET Values) \cup {Bad})
<1>1. question[w] \in Questions
  BY DEF TypeOK, AtInv, Busy
<1>2. question[w].refers \in Seq(Refers) /\ question[w].value \in Values
  BY <1>1, CacheAssumption
<1>3. at[w] \in 1..Len(question[w].refers)
  BY DEF AtInv, Busy
<1>4. Refer(w) \in Refers
  BY <1>2, <1>3 DEF Refer
<1>5. SourcesOf(w) \in Seq((SUBSET Values) \cup {Bad})
  BY <1>4, CacheAssumption DEF SourcesOf
<1> QED
  BY <1>1, <1>2, <1>4, <1>5

\* An answer leaves the parser idle and everything about the others alone.
LEMMA AnswerKeeps ==
  ASSUME TypeOK, AtInv, NEW w \in Parsers, NEW a \in {"yes", "no", "error"}, Answer(w, a)
  PROVE  /\ pc' = [pc EXCEPT ![w] = "idle"]
         /\ pc' \in [Parsers -> {"idle", "begin"} \cup Busy]
         /\ question' \in [Parsers -> Questions \cup {None}]
         /\ answer' \in [Parsers -> {"yes", "no", "error", None}]
         /\ at' \in [Parsers -> Nat \ {0}]
         /\ AtInv'
<1>1. /\ pc' = [pc EXCEPT ![w] = "idle"]
      /\ pc' \in [Parsers -> {"idle", "begin"} \cup Busy]
      /\ question' \in [Parsers -> Questions \cup {None}]
      /\ answer' \in [Parsers -> {"yes", "no", "error", None}]
      /\ at' \in [Parsers -> Nat \ {0}]
  BY DEF TypeOK, Answer, Busy
<1>2. AtInv'
  <2> SUFFICES ASSUME NEW v \in Parsers
               PROVE  /\ pc'[v] = "idle" <=> question'[v] = None
                      /\ pc'[v] = "begin" => at'[v] = 1
                      /\ pc'[v] \in Busy =>
                           ~Lookup!Unchecked(question'[v]) /\ at'[v] \in 1..Len(question'[v].refers)
    BY DEF AtInv, Busy, Lookup!Unchecked
  <2>1. CASE v = w
    BY <2>1 DEF Answer, TypeOK, Busy
  <2>2. CASE v # w
    BY <2>2 DEF Answer, TypeOK, AtInv, Busy, Lookup!Unchecked
  <2> QED
    BY <2>1, <2>2
<1> QED
  BY <1>1, <1>2

\* The three ways ExistsValue ends: in each the parser leaves the lock.
LEMMA ExistsKeeps ==
  ASSUME TypeOK, AtInv, NEW w \in Parsers, pc[w] \in Busy, NEW vs, Exists(w, vs)
  PROVE  /\ \E s \in {"idle", "rlock"} : pc' = [pc EXCEPT ![w] = s]
         /\ pc' \in [Parsers -> {"idle", "begin"} \cup Busy]
         /\ question' \in [Parsers -> Questions \cup {None}]
         /\ answer' \in [Parsers -> {"yes", "no", "error", None}]
         /\ at' \in [Parsers -> Nat \ {0}]
         /\ AtInv'
<1>1. CASE \E a \in {"yes", "no"} : Answer(w, a)
  BY <1>1, AnswerKeeps
<1>2. CASE /\ at[w] < Len(question[w].refers)
           /\ pc' = [pc EXCEPT ![w] = "rlock"]
           /\ at' = [at EXCEPT ![w] = @ + 1]
           /\ UNCHANGED <<question, answer>>
  <2>1. Len(question[w].refers) \in Nat
    BY ReferTyped
  <2>2. /\ pc' \in [Parsers -> {"idle", "begin"} \cup Busy]
        /\ at' \in [Parsers -> Nat \ {0}]
        /\ at'[w] \in 1..Len(question[w].refers)
    BY <1>2, <2>1 DEF TypeOK, Busy
  <2>3. AtInv'
    <3> SUFFICES ASSUME NEW v \in Parsers
                 PROVE  /\ pc'[v] = "idle" <=> question'[v] = None
                        /\ pc'[v] = "begin" => at'[v] = 1
                        /\ pc'[v] \in Busy =>
                             ~Lookup!Unchecked(question'[v]) /\ at'[v] \in 1..Len(question'[v].refers)
      BY DEF AtInv, Busy, Lookup!Unchecked
    <3>1. CASE v = w
      BY <3>1, <1>2, <2>2 DEF TypeOK, AtInv, Busy, Lookup!Unchecked
    <3>2. CASE v # w
      BY <3>2, <1>2 DEF TypeOK, AtInv, Busy, Lookup!Unchecked
    <3> QED
      BY <3>1, <3>2
  <2> QED
    BY <1>2, <2>2, <2>3 DEF TypeOK
<1> QED
  BY <1>1, <1>2 DEF Exists

LEMMA BaseInit == Init => Base
<1> SUFFICES ASSUME Init PROVE Base
  OBVIOUS
<1>1. TypeOK
  BY CacheAssumption DEF Init, TypeOK
<1>2. AtInv /\ LockInv /\ LoadsInv
  BY CacheAssumption DEF Init, AtInv, LockInv, LoadsInv
<1> QED
  BY <1>1, <1>2 DEF Base

\* A step that only moves a busy or starting parser, neither in nor out of the
\* lock, and leaves the map alone.
LEMMA BeginStep ==
  ASSUME Base, NEW w \in Parsers, Begin(w)
  PROVE  Base'
<1>1. CASE Answer(w, "yes")
  <2>1. AtInv' /\ TypeOK'
    BY <1>1, AnswerKeeps DEF Base, TypeOK, Begin, load, Busy
  <2>2. LockInv' /\ LoadsInv'
    BY <1>1 DEF Base, Begin, Answer, LockInv, LoadsInv, TypeOK, load, Refer
  <2> QED
    BY <2>1, <2>2 DEF Base
<1>2. CASE /\ ~Lookup!Unchecked(question[w])
           /\ pc' = [pc EXCEPT ![w] = "rlock"]
           /\ UNCHANGED <<question, answer, at>>
  <2>1. question[w] \in Questions
    BY DEF Base, AtInv, TypeOK, Begin
  <2>2. question[w].refers \in Seq(Refers) /\ question[w].refers # <<>>
    BY <1>2, <2>1, CacheAssumption DEF Lookup!Unchecked
  <2>3. at[w] \in 1..Len(question[w].refers)
    BY <2>2 DEF Base, AtInv, Begin
  <2>4. TypeOK'
    BY <1>2 DEF Base, TypeOK, Begin, load
  <2>5. AtInv'
    BY <1>2, <2>1, <2>3, CacheAssumption DEF Base, AtInv, TypeOK, Begin, Lookup!Unchecked
  <2>6. LockInv' /\ LoadsInv'
    BY <1>2 DEF Base, Begin, LockInv, LoadsInv, TypeOK, load, Refer
  <2> QED
    BY <2>4, <2>5, <2>6 DEF Base
<1> QED
  BY <1>1, <1>2 DEF Begin

LEMMA AskStep ==
  ASSUME Base, NEW w \in Parsers, NEW q \in Questions, Ask(w, q)
  PROVE  Base'
<1>1. TypeOK'
  BY CacheAssumption DEF Base, TypeOK, Ask, load
<1>2. AtInv'
  BY CacheAssumption DEF Base, AtInv, TypeOK, Ask, Lookup!Unchecked
<1>3. LockInv' /\ LoadsInv'
  BY DEF Base, Ask, LockInv, LoadsInv, TypeOK, load, Refer
<1> QED
  BY <1>1, <1>2, <1>3 DEF Base

LEMMA RLockStep ==
  ASSUME Base, NEW w \in Parsers, RLock(w)
  PROVE  Base'
<1>1. TypeOK'
  BY DEF Base, TypeOK, RLock, load
<1>2. AtInv'
  BY DEF Base, AtInv, TypeOK, RLock, Lookup!Unchecked
<1>3. LockInv' /\ LoadsInv'
  BY CacheAssumption DEF Base, RLock, LockInv, LoadsInv, TypeOK, load, Refer
<1> QED
  BY <1>1, <1>2, <1>3 DEF Base

LEMMA LockStep ==
  ASSUME Base, NEW w \in Parsers, Lock(w)
  PROVE  Base'
<1>1. TypeOK'
  BY DEF Base, TypeOK, Lock, load
<1>2. AtInv'
  BY DEF Base, AtInv, TypeOK, Lock, Lookup!Unchecked
<1>3. LockInv' /\ LoadsInv'
  BY CacheAssumption DEF Base, Lock, LockInv, LoadsInv, TypeOK, load, Refer
<1> QED
  BY <1>1, <1>2, <1>3 DEF Base

LEMMA RUnlockStep ==
  ASSUME Base, NEW w \in Parsers, RUnlock(w)
  PROVE  Base'
<1>0. pc[w] \in Busy
  BY DEF RUnlock, Busy
<1>1. CASE Exists(w, references[Refer(w)])
  <2>1. AtInv' /\ TypeOK'
    BY <1>0, <1>1, ExistsKeeps DEF Base, TypeOK, RUnlock, load, Busy
  <2>2. PICK s \in {"idle", "rlock"} : pc' = [pc EXCEPT ![w] = s]
    BY <1>0, <1>1, ExistsKeeps DEF Base
  <2>3. \A v \in Parsers \ {w} : question'[v] = question[v] /\ at'[v] = at[v]
    BY <1>1 DEF Base, Exists, Answer, TypeOK
  <2>4. LockInv' /\ LoadsInv'
    BY <2>2, <2>3 DEF Base, RUnlock, LockInv, LoadsInv, TypeOK, load, Refer
  <2> QED
    BY <2>1, <2>4 DEF Base
<1>2. CASE pc' = [pc EXCEPT ![w] = "lock"] /\ UNCHANGED <<question, answer, at>>
  <2>1. TypeOK'
    BY <1>2 DEF Base, TypeOK, RUnlock, load
  <2>2. AtInv'
    BY <1>2 DEF Base, AtInv, TypeOK, RUnlock, Lookup!Unchecked
  <2>3. LockInv' /\ LoadsInv'
    BY <1>2 DEF Base, RUnlock, LockInv, LoadsInv, TypeOK, load, Refer
  <2> QED
    BY <2>1, <2>2, <2>3 DEF Base
<1> QED
  BY <1>1, <1>2 DEF RUnlock

LEMMA RecheckStep ==
  ASSUME Base, NEW w \in Parsers, Recheck(w)
  PROVE  Base'
<1>0. pc[w] \in Busy
  BY DEF Recheck, Busy
<1>1. CASE /\ Exists(w, references[Refer(w)])
           /\ writer' = None
           /\ UNCHANGED load
  <2>1. AtInv' /\ TypeOK'
    BY <1>0, <1>1, ExistsKeeps DEF Base, TypeOK, Recheck, load, Busy
  <2>2. PICK s \in {"idle", "rlock"} : pc' = [pc EXCEPT ![w] = s]
    BY <1>0, <1>1, ExistsKeeps DEF Base
  <2>3. \A v \in Parsers \ {w} : question'[v] = question[v] /\ at'[v] = at[v]
    BY <1>1 DEF Base, Exists, Answer, TypeOK
  <2>4. LockInv' /\ LoadsInv'
    BY <1>1, <2>2, <2>3, CacheAssumption DEF Base, Recheck, LockInv, LoadsInv, TypeOK, load, Refer
  <2> QED
    BY <2>1, <2>4 DEF Base
<1>2. CASE /\ references[Refer(w)] = NotLoaded
           /\ pc' = [pc EXCEPT ![w] = "loading"]
           /\ part' = [part EXCEPT ![w] = 0]
           /\ space' = [space EXCEPT ![w] = {}]
           /\ UNCHANGED <<writer, question, answer, at>>
  <2>1. TypeOK'
    BY <1>2 DEF Base, TypeOK, Recheck, load
  <2>2. AtInv'
    BY <1>2 DEF Base, AtInv, TypeOK, Recheck, Lookup!Unchecked
  <2>3. LockInv' /\ LoadsInv'
    BY <1>2 DEF Base, Recheck, LockInv, LoadsInv, TypeOK, load, Refer
  <2> QED
    BY <2>1, <2>2, <2>3 DEF Base
<1> QED
  BY <1>1, <1>2 DEF Recheck

LEMMA LoadFailsStep ==
  ASSUME Base, NEW w \in Parsers, LoadFails(w)
  PROVE  Base'
<1>1. AtInv' /\ TypeOK'
  BY AnswerKeeps DEF Base, TypeOK, LoadFails, load, Busy
<1>2. LockInv' /\ LoadsInv'
  BY CacheAssumption DEF Base, LoadFails, Answer, LockInv, LoadsInv, TypeOK, load, Refer
<1> QED
  BY <1>1, <1>2 DEF Base

LEMMA LoadSourceStep ==
  ASSUME Base, NEW w \in Parsers, LoadSource(w)
  PROVE  Base'
<1>1. SourcesOf(w)[part[w] + 1] \in SUBSET Values
  <2>1. SourcesOf(w) \in Seq((SUBSET Values) \cup {Bad}) /\ part[w] \in Nat
    BY ReferTyped DEF Base, LoadSource, Busy, TypeOK
  <2>2. part[w] + 1 \in 1..Len(SourcesOf(w))
    BY <2>1 DEF LoadSource
  <2> QED
    BY <2>1, <2>2 DEF LoadSource
<1>2. TypeOK'
  BY <1>1 DEF Base, TypeOK, LoadSource, call
<1>3. AtInv' /\ LockInv' /\ LoadsInv'
  BY DEF Base, LoadSource, LockInv, LoadsInv, AtInv, call, Refer, Lookup!Unchecked
<1> QED
  BY <1>2, <1>3 DEF Base

LEMMA PublishStep ==
  ASSUME Base, NEW w \in Parsers, Publish(w)
  PROVE  Base'
<1>0. pc[w] \in Busy
  BY DEF Publish, Busy
<1>1. Refer(w) \in Refers /\ space[w] \in SUBSET Values /\ space[w] # NotLoaded
  BY <1>0, ReferTyped, CacheAssumption DEF Base, TypeOK
<1>2. AtInv' /\ TypeOK'
  BY <1>0, <1>1, ExistsKeeps DEF Base, TypeOK, Publish, load, Busy
<1>3. PICK s \in {"idle", "rlock"} : pc' = [pc EXCEPT ![w] = s]
  BY <1>0, ExistsKeeps DEF Base, Publish
<1>4. LockInv'
  BY <1>3, CacheAssumption DEF Base, Publish, LockInv, TypeOK, load
<1>5. LoadsInv'
  BY <1>1 DEF Base, Publish, LoadsInv, LockInv, TypeOK
<1> QED
  BY <1>2, <1>4, <1>5 DEF Base

LEMMA BaseStep == Base /\ [Next]_vars => Base'
<1> SUFFICES ASSUME Base, [Next]_vars PROVE Base'
  OBVIOUS
<1>1. CASE UNCHANGED vars
  BY <1>1 DEF Base, vars, TypeOK, AtInv, LockInv, LoadsInv, Refer, Lookup!Unchecked
<1>2. ASSUME NEW w \in Parsers, NEW q \in Questions, Ask(w, q) PROVE Base'
  BY <1>2, AskStep
<1>3. ASSUME NEW w \in Parsers, Step(w) PROVE Base'
  BY <1>3, BeginStep, RLockStep, RUnlockStep, LockStep, RecheckStep, LoadFailsStep,
     LoadSourceStep, PublishStep DEF Step
<1> QED
  BY <1>1, <1>2, <1>3 DEF Next

\* Every reachable state of the cache is well typed, whatever the sheets hold
\* and however many goroutines use it.
THEOREM CacheTypeCorrect == Spec => []TypeOK
<1>1. Base => TypeOK
  BY DEF Base
<1> QED
  BY <1>1, BaseInit, BaseStep, PTL DEF Spec

\* No interleaving of lookups that miss puts a refer in the map twice, the
\* "load value space once" of ExistsValue.
THEOREM LoadsAreSingle == Spec => []LoadedOnce
<1>1. Base => LoadedOnce
  BY DEF Base, LoadsInv, LoadedOnce
<1> QED
  BY <1>1, BaseInit, BaseStep, PTL DEF Spec

-----------------------------------------------------------------------------
\* All parsers of the process work for the same generator.
OneGenerator == \A v, w \in Parsers : Run[v] = Run[w]

\* The refers that parser v has behind it do not decide its question.
Passed(v) == \A k \in 1..(at[v] - 1) : ~Lookup!Decides(Run[v], question[v], k)

\* A lookup that finishes in a step of w: its outcome is truthful, and the
\* others still have only undecided refers behind them.
Truthful(w) ==
  /\ \/ \E a \in {"yes", "no", "error"} : Lookup!Answer(w, a)
     \/ UNCHANGED <<question, answer>>
  /\ pc'[w] \in Busy => Passed(w)'
  /\ \A v \in Parsers \ {w} : pc'[v] = pc[v] /\ question'[v] = question[v] /\ at'[v] = at[v]

\* The three ways an answer is among the truths.
LEMMA TruthOf ==
  ASSUME Base, NEW w \in Parsers, pc[w] \in Busy, Passed(w)
  PROVE  /\ ~Lookup!Loads(Run[w], Refer(w)) => "error" \in Lookup!Truth(Run[w], question[w])
         /\ Lookup!Loads(Run[w], Refer(w)) /\ question[w].value \in Lookup!Space(Run[w], Refer(w))
              => "yes" \in Lookup!Truth(Run[w], question[w])
         /\ (/\ Lookup!Loads(Run[w], Refer(w))
             /\ question[w].value \notin Lookup!Space(Run[w], Refer(w))
             /\ at[w] = Len(question[w].refers))
              => "no" \in Lookup!Truth(Run[w], question[w])
<1> DEFINE q == question[w]
           k == at[w]
           g == Run[w]
<1>1. /\ q.refers \in Seq(Refers) /\ DOMAIN q.refers = 1..Len(q.refers)
      /\ Len(q.refers) \in Nat
      /\ k \in DOMAIN q.refers
      /\ ~Lookup!Unchecked(q)
  BY ReferTyped DEF Base, AtInv, Busy
<1>2. \A i \in 1..(k - 1) : ~Lookup!Decides(g, q, i)
  BY DEF Passed
<1>3. Lookup!Decides(g, q, k) =>
        /\ Lookup!Loads(g, q.refers[k]) => "yes" \in Lookup!Truth(g, q)
        /\ ~Lookup!Loads(g, q.refers[k]) => "error" \in Lookup!Truth(g, q)
  <2> SUFFICES ASSUME Lookup!Decides(g, q, k)
               PROVE  /\ Lookup!Loads(g, q.refers[k]) => "yes" \in Lookup!Truth(g, q)
                      /\ ~Lookup!Loads(g, q.refers[k]) => "error" \in Lookup!Truth(g, q)
    OBVIOUS
  <2>1. k \in {j \in DOMAIN q.refers :
                 Lookup!Decides(g, q, j) /\ \A i \in 1..(j - 1) : ~Lookup!Decides(g, q, i)}
    BY <1>1, <1>2
  <2> HIDE DEF q, k, g
  <2> QED
    BY <1>1, <2>1 DEF Lookup!Truth
<1>4. (~Lookup!Decides(g, q, k) /\ k = Len(q.refers)) =>
        "no" \in Lookup!Truth(g, q)
  <2> SUFFICES ASSUME ~Lookup!Decides(g, q, k), k = Len(q.refers)
               PROVE  \A i \in DOMAIN q.refers : ~Lookup!Decides(g, q, i)
    BY <1>1 DEF Lookup!Truth
  <2>1. \A i \in 1..k : i = k \/ i \in 1..(k - 1)
    BY <1>1
  <2> HIDE DEF q, k, g
  <2> QED
    BY <1>1, <1>2, <2>1
<1>5. Refer(w) = q.refers[k]
  BY DEF Refer
<1>6. Lookup!Decides(g, q, k) <=>
        ~Lookup!Loads(g, q.refers[k]) \/ q.value \in Lookup!Space(g, q.refers[k])
  BY DEF Lookup!Decides
<1>7. ~Lookup!Loads(g, Refer(w)) => "error" \in Lookup!Truth(g, q)
  BY <1>3, <1>5, <1>6
<1>8. Lookup!Loads(g, Refer(w)) /\ q.value \in Lookup!Space(g, Refer(w))
        => "yes" \in Lookup!Truth(g, q)
  BY <1>3, <1>5, <1>6
<1>9. (Lookup!Loads(g, Refer(w)) /\ q.value \notin Lookup!Space(g, Refer(w)) /\ k = Len(q.refers))
        => "no" \in Lookup!Truth(g, q)
  BY <1>4, <1>5, <1>6
<1> QED
  BY <1>7, <1>8, <1>9

\* Exists on the true space of the refer answers truthfully or goes on.
LEMMA ExistsTruthful ==
  ASSUME Base, NEW w \in Parsers, pc[w] \in Busy, Passed(w),
         Lookup!Loads(Run[w], Refer(w)), Exists(w, Lookup!Space(Run[w], Refer(w)))
  PROVE  Truthful(w)
<1> DEFINE vs == Lookup!Space(Run[w], Refer(w))
<1>0. question[w] # None
  BY DEF Base, AtInv, Busy
<1>1. CASE question[w].value \in vs /\ Answer(w, "yes")
  BY <1>0, <1>1, TruthOf DEF Truthful, Answer, Lookup!Answer, Base, TypeOK, Busy
<1>2. CASE question[w].value \notin vs /\ at[w] = Len(question[w].refers) /\ Answer(w, "no")
  BY <1>0, <1>2, TruthOf DEF Truthful, Answer, Lookup!Answer, Base, TypeOK, Busy
<1>3. CASE /\ question[w].value \notin vs
           /\ pc' = [pc EXCEPT ![w] = "rlock"]
           /\ at' = [at EXCEPT ![w] = @ + 1]
           /\ UNCHANGED <<question, answer>>
  <2>1. ~Lookup!Decides(Run[w], question[w], at[w])
    BY <1>3 DEF Lookup!Decides, Refer
  <2>2. at[w] \in Nat /\ at'[w] = at[w] + 1
    BY <1>3 DEF Base, TypeOK
  <2>3. \A k \in 1..(at'[w] - 1) : ~Lookup!Decides(Run[w], question[w], k)
    BY <2>1, <2>2 DEF Passed
  <2>4. question'[w] = question[w]
    BY <1>3
  <2>5. Passed(w)'
    BY <2>3, <2>4 DEF Passed
  <2> QED
    BY <1>3, <2>5 DEF Truthful, Base, TypeOK
<1> QED
  BY <1>1, <1>2, <1>3 DEF Exists

\* When a load has read every workbook it holds the true space.
LEMMA PublishTrue ==
  ASSUME Base, CacheInv, NEW w \in Parsers, Publish(w)
  PROVE  /\ Lookup!Loads(Run[w], Refer(w))
         /\ space[w] = Lookup!Space(Run[w], Refer(w))
<1>1. SourcesOf(w) \in Seq((SUBSET Values) \cup {Bad}) /\ part[w] \in Nat
  BY ReferTyped DEF Base, Publish, Busy, TypeOK
<1>2. DOMAIN SourcesOf(w) = 1..part[w]
  BY <1>1 DEF Publish
<1>3. Refer(w) \notin Unresolved[Run[w]]
  BY <1>1 DEF Publish, CacheInv
<1>4. /\ \A i \in 1..part[w] : SourcesOf(w)[i] # Bad
      /\ space[w] = UNION {SourcesOf(w)[i] : i \in 1..part[w]}
  BY DEF Publish, CacheInv
<1> QED
  BY <1>2, <1>3, <1>4 DEF Lookup!Loads, Lookup!Space, SourcesOf

\* A lookup that finds the refer in the map finds its true space.
LEMMA MapTrue ==
  ASSUME Base, CacheInv, NEW w \in Parsers, pc[w] \in Busy, references[Refer(w)] # NotLoaded
  PROVE  /\ Lookup!Loads(Run[w], Refer(w))
         /\ references[Refer(w)] = Lookup!Space(Run[w], Refer(w))
BY ReferTyped DEF Base, CacheInv

\* A failing load means that the refer does not load.
LEMMA FailsTrue ==
  ASSUME Base, CacheInv, NEW w \in Parsers, LoadFails(w)
  PROVE  ~Lookup!Loads(Run[w], Refer(w))
<1>1. SourcesOf(w) \in Seq((SUBSET Values) \cup {Bad}) /\ part[w] \in Nat
  BY ReferTyped DEF Base, LoadFails, Busy, TypeOK
<1> QED
  BY <1>1 DEF LoadFails, Lookup!Loads, SourcesOf

LEMMA PassedOthers ==
  ASSUME NEW w \in Parsers, Truthful(w), CacheInv
  PROVE  \A v \in Parsers : pc'[v] \in Busy => Passed(v)'
BY DEF Truthful, CacheInv, Passed, Busy

LEMMA StepTruthful ==
  ASSUME Base, CacheInv, NEW w \in Parsers, Step(w)
  PROVE  Truthful(w)
<1>0. pc[w] \in Busy => Passed(w)
  BY DEF CacheInv, Busy, Passed
<1>1. CASE Begin(w)
  <2>1. question[w] # None /\ at[w] = 1
    BY <1>1 DEF Begin, Base, AtInv
  <2>2. CASE Lookup!Unchecked(question[w]) /\ Answer(w, "yes")
    <3>1. "yes" \in Lookup!Truth(Run[w], question[w])
      BY <2>2 DEF Lookup!Truth
    <3> QED
      BY <2>1, <2>2, <3>1 DEF Truthful, Answer, Lookup!Answer, Base, TypeOK, Busy
  <2>3. CASE pc' = [pc EXCEPT ![w] = "rlock"] /\ UNCHANGED <<question, answer, at>>
    BY <2>1, <2>3 DEF Truthful, Passed, Base, TypeOK
  <2> QED
    BY <1>1, <2>2, <2>3 DEF Begin
<1>2. CASE RUnlock(w)
  <2>1. CASE references[Refer(w)] # NotLoaded /\ Exists(w, references[Refer(w)])
    BY <1>0, <1>2, <2>1, MapTrue, ExistsTruthful DEF RUnlock, Busy
  <2>2. CASE pc' = [pc EXCEPT ![w] = "lock"] /\ UNCHANGED <<question, answer, at>>
    BY <1>0, <1>2, <2>2 DEF RUnlock, Truthful, Passed, Base, TypeOK, Busy
  <2> QED
    BY <1>2, <2>1, <2>2 DEF RUnlock
<1>3. CASE Recheck(w)
  <2>1. CASE references[Refer(w)] # NotLoaded /\ Exists(w, references[Refer(w)])
    BY <1>0, <1>3, <2>1, MapTrue, ExistsTruthful DEF Recheck, Busy
  <2>2. CASE pc' = [pc EXCEPT ![w] = "loading"] /\ UNCHANGED <<question, answer, at>>
    BY <1>0, <1>3, <2>2 DEF Recheck, Truthful, Passed, Base, TypeOK, Busy
  <2> QED
    BY <1>3, <2>1, <2>2 DEF Recheck
<1>4. CASE LoadFails(w)
  <2>1. pc[w] \in Busy /\ question[w] # None
    BY <1>4 DEF LoadFails, Busy, Base, AtInv
  <2>2. "error" \in Lookup!Truth(Run[w], question[w])
    BY <1>0, <1>4, <2>1, FailsTrue, TruthOf
  <2> QED
    BY <1>4, <2>1, <2>2 DEF LoadFails, Truthful, Answer, Lookup!Answer, Base, TypeOK, Busy
<1>5. CASE Publish(w)
  BY <1>0, <1>5, PublishTrue, ExistsTruthful DEF Publish, Busy
<1>6. CASE RLock(w) \/ Lock(w) \/ LoadSource(w)
  BY <1>0, <1>6 DEF RLock, Lock, LoadSource, call, Truthful, Passed, Base, TypeOK, Busy
<1> QED
  BY <1>1, <1>2, <1>3, <1>4, <1>5, <1>6 DEF Step

\* The map only gets true spaces.
LEMMA MapStep ==
  ASSUME Base, CacheInv, OneGenerator, NEW w \in Parsers, Step(w)
  PROVE  \A v \in Parsers, r \in Refers : references'[r] # NotLoaded =>
           Lookup!Loads(Run[v], r) /\ references'[r] = Lookup!Space(Run[v], r)
<1>1. CASE Publish(w)
  <2>1. Refer(w) \in Refers
    BY <1>1, ReferTyped DEF Publish, Busy, Base
  <2>2. \A v \in Parsers : Lookup!Loads(Run[v], Refer(w)) /\ space[w] = Lookup!Space(Run[v], Refer(w))
    BY <1>1, PublishTrue DEF OneGenerator
  <2>3. references' = [references EXCEPT ![Refer(w)] = space[w]]
    BY <1>1 DEF Publish
  <2> QED
    BY <2>1, <2>2, <2>3 DEF CacheInv, Base, TypeOK
<1>2. CASE ~Publish(w)
  <2>1. references' = references
    BY <1>2 DEF Step, Begin, RLock, RUnlock, Lock, Recheck, LoadFails, LoadSource
  <2> QED
    BY <2>1 DEF CacheInv
<1> QED
  BY <1>1, <1>2

\* What a load in progress holds.
Loading(v) ==
  /\ part[v] \in 0..Len(SourcesOf(v))
  /\ part[v] > 0 => Refer(v) \notin Unresolved[Run[v]]
  /\ \A i \in 1..part[v] : SourcesOf(v)[i] # Bad
  /\ space[v] = UNION {SourcesOf(v)[i] : i \in 1..part[v]}

LEMMA LoadingStep ==
  ASSUME Base, CacheInv, NEW w \in Parsers, Step(w), NEW v \in Parsers, pc'[v] = "loading"
  PROVE  Loading(v)'
<1>1. CASE v # w
  <2>1. pc[v] = "loading" /\ question'[v] = question[v] /\ at'[v] = at[v]
    BY <1>1, StepTruthful DEF Truthful
  <2>2. part'[v] = part[v] /\ space'[v] = space[v]
    BY <1>1 DEF Step, Begin, RLock, RUnlock, Lock, Recheck, LoadFails, LoadSource, Publish,
       load, Base, TypeOK
  <2>3. Loading(v)
    BY <2>1 DEF CacheInv, Loading
  <2> QED
    BY <2>1, <2>2, <2>3 DEF Loading, SourcesOf, Refer
<1>2. CASE v = w /\ Recheck(w)
  <2>1. part'[w] = 0 /\ space'[w] = {}
    BY <1>2, ExistsKeeps DEF Recheck, Base, TypeOK, Busy
  <2>2. Refer(w)' = Refer(w) /\ SourcesOf(w)' = SourcesOf(w)
    BY <1>2, ExistsKeeps DEF Recheck, Base, TypeOK, Busy, Refer, SourcesOf
  <2>3. Len(SourcesOf(w)) \in Nat
    BY <1>2, ReferTyped DEF Recheck, Base, Busy
  <2> QED
    BY <1>2, <2>1, <2>2, <2>3 DEF Loading
<1>3. CASE v = w /\ LoadSource(w)
  <2>1. SourcesOf(w) \in Seq((SUBSET Values) \cup {Bad}) /\ part[w] \in Nat
    BY <1>3, ReferTyped DEF Base, LoadSource, Busy, TypeOK
  <2>2. Refer(w)' = Refer(w) /\ SourcesOf(w)' = SourcesOf(w)
    BY <1>3 DEF LoadSource, call, Refer, SourcesOf
  <2>3. /\ part'[w] = part[w] + 1
        /\ space'[w] = space[w] \cup SourcesOf(w)[part[w] + 1]
    BY <1>3 DEF LoadSource, Base, TypeOK
  <2>4. Loading(w)
    BY <1>3 DEF LoadSource, CacheInv, Loading
  <2>5. 1..(part[w] + 1) = 1..part[w] \cup {part[w] + 1}
    BY <2>1
  <2>6. space'[w] = UNION {SourcesOf(w)[i] : i \in 1..(part[w] + 1)}
    BY <2>3, <2>4, <2>5 DEF Loading
  <2> QED
    BY <1>3, <2>1, <2>2, <2>3, <2>4, <2>5, <2>6 DEF Loading, LoadSource
<1>4. CASE v = w /\ ~Recheck(w) /\ ~LoadSource(w)
  <2>1. CASE Begin(w) \/ RLock(w) \/ Lock(w) \/ LoadFails(w)
    BY <1>4, <2>1 DEF Begin, RLock, Lock, LoadFails, Answer, Base, TypeOK
  <2>2. CASE RUnlock(w)
    <3>1. CASE Exists(w, references[Refer(w)])
      BY <1>4, <2>2, <3>1, ExistsKeeps DEF RUnlock, Base, TypeOK, Busy
    <3>2. CASE pc' = [pc EXCEPT ![w] = "lock"]
      BY <1>4, <3>2 DEF Base, TypeOK
    <3> QED
      BY <2>2, <3>1, <3>2 DEF RUnlock
  <2>3. CASE Publish(w)
    <3>1. PICK s \in {"idle", "rlock"} : pc' = [pc EXCEPT ![w] = s]
      BY <2>3, ExistsKeeps DEF Publish, Base, Busy
    <3> QED
      BY <1>4, <3>1 DEF Base, TypeOK
  <2> QED
    BY <1>4, <2>1, <2>2, <2>3 DEF Step
<1> QED
  BY <1>1, <1>2, <1>3, <1>4

LEMMA CacheStep == OneGenerator /\ Base /\ CacheInv /\ [Next]_vars => CacheInv'
<1> SUFFICES ASSUME OneGenerator, Base, CacheInv, [Next]_vars PROVE CacheInv'
  OBVIOUS
<1>1. CASE UNCHANGED vars
  BY <1>1 DEF CacheInv, vars, SourcesOf, Refer, Lookup!Decides
<1>2. ASSUME NEW w \in Parsers, NEW q \in Questions, Ask(w, q) PROVE CacheInv'
  <2>1. \A v \in Parsers : pc'[v] \in Busy =>
          v # w /\ pc[v] = pc'[v] /\ question'[v] = question[v] /\ at'[v] = at[v]
    BY <1>2 DEF Ask, Base, TypeOK, Busy
  <2>2. \A v \in Parsers : pc'[v] \in Busy => Passed(v)'
    BY <2>1 DEF CacheInv, Passed, Busy
  <2>3. \A v \in Parsers : pc'[v] = "loading" => Loading(v)'
    BY <1>2, <2>1 DEF CacheInv, Loading, Ask, load, SourcesOf, Refer, Busy
  <2> QED
    BY <1>2, <2>2, <2>3 DEF CacheInv, Passed, Loading, Busy, Ask
<1>3. ASSUME NEW w \in Parsers, Step(w) PROVE CacheInv'
  <2>1. \A v \in Parsers : pc'[v] \in Busy => Passed(v)'
    BY <1>3, StepTruthful, PassedOthers
  <2>2. \A v \in Parsers : pc'[v] = "loading" => Loading(v)'
    BY <1>3, LoadingStep
  <2> QED
    BY <1>3, <2>1, <2>2, MapStep DEF CacheInv, Passed, Loading, Busy
<1> QED
  BY <1>1, <1>2, <1>3 DEF Next

LEMMA CacheInit == Init => CacheInv
BY DEF Init, CacheInv

\* With one generator per process the map never holds anything but the complete
\* columns of the sheets, and no refer that fails to load.
THEOREM CacheFaithful == ASSUME OneGenerator PROVE Spec => []CacheInv
<1>1. Base /\ CacheInv /\ [Next]_vars => (Base /\ CacheInv)'
  BY BaseStep, CacheStep
<1> QED
  BY <1>1, BaseInit, CacheInit, PTL DEF Spec

\* With one generator per process the cache with its locks implements the
\* lookup that reads the referred sheets itself.
THEOREM CacheImplementsLookup == ASSUME OneGenerator PROVE Spec => AnswersAsIfRead
<1>1. Init => Lookup!Init
  BY DEF Init, Lookup!Init
<1>2. Base /\ CacheInv /\ [Next]_vars => [Lookup!Next]_<<question, answer>>
  <2> SUFFICES ASSUME Base, CacheInv, [Next]_vars
               PROVE  [Lookup!Next]_<<question, answer>>
    OBVIOUS
  <2>1. CASE UNCHANGED vars
    BY <2>1 DEF vars
  <2>2. ASSUME NEW w \in Parsers, NEW q \in Questions, Ask(w, q)
        PROVE  Lookup!Next
    BY <2>2 DEF Ask, Lookup!Ask, Lookup!Next, Base, AtInv
  <2>3. ASSUME NEW w \in Parsers, Step(w)
        PROVE  [Lookup!Next]_<<question, answer>>
    BY <2>3, StepTruthful DEF Truthful, Lookup!Next
  <2> QED
    BY <2>1, <2>2, <2>3 DEF Next
<1>3. Spec => [](Base /\ CacheInv)
  <2>1. Base /\ CacheInv /\ [Next]_vars => (Base /\ CacheInv)'
    BY BaseStep, CacheStep
  <2> QED
    BY <2>1, BaseInit, CacheInit, PTL DEF Spec
<1> QED
  BY <1>1, <1>2, <1>3, PTL DEF Spec, AnswersAsIfRead, Lookup!Spec
=============================================================================

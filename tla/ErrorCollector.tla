--------------------------- MODULE ErrorCollector ---------------------------
(***************************************************************************)
(* The concurrent error collector of internal/x/xerrors/collector.go.      *)
(*                                                                         *)
(* Collectors form trees (NewChild).  Each keeps an atomic counter and,    *)
(* under its own mutex, a list of errors and a list of children.  Collect  *)
(* increments the counter of every ancestor one atomic Add at a time and   *)
(* stores the error only if every Add was within the ancestor's budget;    *)
(* Join walks the subtree and locks one collector at a time.  Goroutines   *)
(* (Workers) interleave between any two of these steps.                    *)
(***************************************************************************)
EXTENDS Integers, Sequences, FiniteSets

CONSTANTS
  Collectors,  \* every collector a run may create
  Chain,       \* Chain[c]: c, its parent, ..., its root (the parent pointers)
  MaxErrs,     \* the normalised budget of each collector
  Workers,     \* goroutines that use the collectors
  Uses,        \* Uses[w]: the collectors goroutine w hands errors to
  Errors,      \* identities of the ordinary errors they hand in
  Nil          \* the nil error

\* c is d itself or one of its ancestors.
AncestorOf(c, d) == \E i \in 1..Len(Chain[d]) : Chain[d][i] = c

Root(c) == Chain[c][Len(Chain[c])]

IsRoot(c) == Len(Chain[c]) = 1

SameTreeAs(c, d) == Root(c) = Root(d)

\* A parent pointer is set once, when the child is made from its parent, so the
\* chain of an ancestor is the rest of the collector's own chain.
ASSUME ChainAssumption ==
  /\ Chain \in [Collectors -> Seq(Collectors)]
  /\ \A c \in Collectors :
       /\ Len(Chain[c]) > 0
       /\ Chain[c][1] = c
       /\ \A i, j \in 1..Len(Chain[c]) : Chain[c][i] = Chain[c][j] => i = j
       /\ \A i \in 1..Len(Chain[c]) :
            /\ Len(Chain[Chain[c][i]]) = Len(Chain[c]) - i + 1
            /\ \A k \in 1..(Len(Chain[c]) - i + 1) :
                 Chain[Chain[c][i]][k] = Chain[c][i + k - 1]

\* normalizeMax leaves no budget below one.
ASSUME MaxErrsAssumption == MaxErrs \in [Collectors -> Nat \ {0}]

ASSUME UsesAssumption == Uses \in [Workers -> SUBSET Collectors]

\* nil is neither an error nor a collector.
ASSUME NilAssumption == Nil \notin Collectors /\ Nil \notin Errors

VARIABLES
  live,      \* collectors created so far
  children,  \* children[c], in the order NewChild registered them
  counter,   \* counter[c], the atomic counter
  errs,      \* errs[c], the errors stored in c itself
  used,      \* the ordinary errors handed in so far
  pc,        \* where each goroutine is
  tgt,       \* receiver of the goroutine's current call
  err,       \* argument of the current Collect
  pos,       \* next link of Chain[tgt] whose counter Collect increments
  anyFull,   \* local of Collect
  store,     \* local of Collect
  todo,      \* collectors the current Join has still to visit
  acc,       \* how often the current Join has gathered each error
  before,    \* history: errors in the subtree when the current Join began
  ret        \* result of the goroutine's last call: Nil, or a joined error,
             \* known by the collector that made it (its origin)

shared == <<live, children, counter, errs, used>>
call   == <<tgt, err, pos, anyFull, store>>
walk   == <<todo, acc, before>>
vars   == <<live, children, counter, errs, used, pc,
            tgt, err, pos, anyFull, store, todo, acc, before, ret>>

Nothing == [e \in Errors |-> 0]

Parent(c) == Chain[c][2]

\* Errors stored in the subtree of c: what c.Join() is to return.
StoredUnder(c) ==
  {e \in Errors : \E d \in Collectors : AncestorOf(c, d) /\ e \in errs[d]}

\* The loads of IsFull are not atomic together, but counters only grow: a true
\* answer still holds at the last load and a false one held at the first, so
\* one atomic step has the same outcomes.
IsFull(c) == \E i \in 1..Len(Chain[c]) :
                counter[Chain[c][i]] >= MaxErrs[Chain[c][i]]

HasErrors(c) == counter[c] > 0

TypeOK ==
  /\ live \subseteq Collectors
  /\ children \in [Collectors -> Seq(Collectors)]
  /\ counter \in [Collectors -> Nat]
  /\ errs \in [Collectors -> SUBSET Errors]
  /\ used \subseteq Errors
  /\ pc \in [Workers -> {"idle", "adding", "joining"}]
  /\ tgt \in [Workers -> Collectors \cup {Nil}]
  /\ err \in [Workers -> Errors \cup {Nil}]
  /\ pos \in [Workers -> Nat \ {0}]
  /\ anyFull \in [Workers -> BOOLEAN]
  /\ store \in [Workers -> BOOLEAN]
  /\ todo \in [Workers -> Seq(Collectors)]
  /\ acc \in [Workers -> [Errors -> Nat]]
  /\ before \in [Workers -> SUBSET Errors]
  /\ ret \in [Workers -> Collectors \cup {Nil}]
  /\ \A w \in Workers : /\ pc[w] # "idle" => tgt[w] \in Collectors
                        /\ pc[w] = "adding" => err[w] \in Errors
-----------------------------------------------------------------------------
Init ==
  /\ live = {c \in Collectors : IsRoot(c)}
  /\ children = [c \in Collectors |-> <<>>]
  /\ counter = [c \in Collectors |-> 0]
  /\ errs = [c \in Collectors |-> {}]
  /\ used = {}
  /\ pc = [w \in Workers |-> "idle"]
  /\ tgt = [w \in Workers |-> Nil]
  /\ err = [w \in Workers |-> Nil]
  /\ pos = [w \in Workers |-> 1]
  /\ anyFull = [w \in Workers |-> FALSE]
  /\ store = [w \in Workers |-> TRUE]
  /\ todo = [w \in Workers |-> <<>>]
  /\ acc = [w \in Workers |-> Nothing]
  /\ before = [w \in Workers |-> {}]
  /\ ret = [w \in Workers |-> Nil]

\* NewChild: the child is appended to its parent's list under the parent's lock.
NewChild(w, c) ==
  /\ pc[w] = "idle"
  /\ c \notin live
  /\ ~IsRoot(c)
  /\ Parent(c) \in live
  /\ live' = live \cup {c}
  /\ children' = [children EXCEPT ![Parent(c)] = Append(@, c)]
  /\ UNCHANGED <<counter, errs, used, pc, call, walk, ret>>

\* The goroutine enters c.Join().
BeginJoin(w, c) ==
  /\ pc' = [pc EXCEPT ![w] = "joining"]
  /\ tgt' = [tgt EXCEPT ![w] = c]
  /\ todo' = [todo EXCEPT ![w] = <<c>>]
  /\ acc' = [acc EXCEPT ![w] = Nothing]
  /\ before' = [before EXCEPT ![w] = {e \in Errors : \E d \in Collectors :
                                        AncestorOf(c, d) /\ e \in errs[d]}]

\* The call returns e; the locals of the call are gone.
Return(w, e) ==
  /\ pc' = [pc EXCEPT ![w] = "idle"]
  /\ tgt' = [tgt EXCEPT ![w] = Nil]
  /\ err' = [err EXCEPT ![w] = Nil]
  /\ pos' = [pos EXCEPT ![w] = 1]
  /\ anyFull' = [anyFull EXCEPT ![w] = FALSE]
  /\ store' = [store EXCEPT ![w] = TRUE]
  /\ todo' = [todo EXCEPT ![w] = <<>>]
  /\ acc' = [acc EXCEPT ![w] = Nothing]
  /\ before' = [before EXCEPT ![w] = {}]
  /\ ret' = [ret EXCEPT ![w] = e]

\* "if c.IsFull() { return c.Join() }; return nil"
JoinIfFull(w, c) ==
  \/ /\ IsFull(c)
     /\ BeginJoin(w, c)
     /\ UNCHANGED <<err, pos, anyFull, store, ret>>
  \/ /\ ~IsFull(c)
     /\ Return(w, Nil)

\* Collect(nil).
CollectNil(w, c) ==
  /\ pc[w] = "idle"
  /\ c \in live \cap Uses[w]
  /\ JoinIfFull(w, c)
  /\ UNCHANGED shared

\* Collect of the joined error the goroutine holds, from c's own tree: it is not
\* counted again.  (Its outer wrapping is remembered on the origin; the wrapping
\* only labels the report and is modelled where labels matter, in ConfGen.)
CollectJoined(w, c) ==
  /\ pc[w] = "idle"
  /\ c \in live \cap Uses[w]
  /\ ret[w] # Nil
  /\ SameTreeAs(ret[w], c)
  /\ JoinIfFull(w, c)
  /\ UNCHANGED <<live, children, counter, errs, used>>

\* Collect of an ordinary error.  A joined error of another tree falls through
\* to this case too: it is a new error for c.
CollectError(w, c, e) ==
  /\ pc[w] = "idle"
  /\ c \in live \cap Uses[w]
  /\ e \notin used
  /\ used' = used \cup {e}
  /\ pc' = [pc EXCEPT ![w] = "adding"]
  /\ tgt' = [tgt EXCEPT ![w] = c]
  /\ err' = [err EXCEPT ![w] = e]
  /\ pos' = [pos EXCEPT ![w] = 1]
  /\ anyFull' = [anyFull EXCEPT ![w] = FALSE]
  /\ store' = [store EXCEPT ![w] = TRUE]
  /\ UNCHANGED <<live, children, counter, errs, walk, ret>>

\* (mutants of AddCounter: the budget off by one either way)
AddCounterLax(w) ==
  /\ pc[w] = "adding" /\ pos[w] <= Len(Chain[tgt[w]])
  /\ LET cur == Chain[tgt[w]][pos[w]]
         n   == counter[cur] + 1
     IN  /\ counter' = [counter EXCEPT ![cur] = n]
         /\ anyFull' = [anyFull EXCEPT ![w] = @ \/ n >= MaxErrs[cur]]
         /\ store' = [store EXCEPT ![w] = @ /\ n <= MaxErrs[cur] + 1]
  /\ pos' = [pos EXCEPT ![w] = @ + 1]
  /\ UNCHANGED <<live, children, errs, used, pc, tgt, err, walk, ret>>

AddCounterStrict(w) ==
  /\ pc[w] = "adding" /\ pos[w] <= Len(Chain[tgt[w]])
  /\ LET cur == Chain[tgt[w]][pos[w]]
         n   == counter[cur] + 1
     IN  /\ counter' = [counter EXCEPT ![cur] = n]
         /\ anyFull' = [anyFull EXCEPT ![w] = @ \/ n >= MaxErrs[cur]]
         /\ store' = [store EXCEPT ![w] = @ /\ n < MaxErrs[cur]]
  /\ pos' = [pos EXCEPT ![w] = @ + 1]
  /\ UNCHANGED <<live, children, errs, used, pc, tgt, err, walk, ret>>

\* One iteration of the ancestor loop: n := cur.counter.Add(1).
AddCounter(w) ==
  /\ pc[w] = "adding"
  /\ pos[w] <= Len(Chain[tgt[w]])
  /\ LET cur == Chain[tgt[w]][pos[w]]
         n   == counter[cur] + 1
     IN  /\ counter' = [counter EXCEPT ![cur] = n]
         /\ anyFull' = [anyFull EXCEPT ![w] = @ \/ n >= MaxErrs[cur]]
         /\ store' = [store EXCEPT ![w] = @ /\ n <= MaxErrs[cur]]
  /\ pos' = [pos EXCEPT ![w] = @ + 1]
  /\ UNCHANGED <<live, children, errs, used, pc, tgt, err, walk, ret>>

\* After the loop: append under the lock if within every budget, then join if
\* any ancestor is full.
StoreError(w) ==
  /\ pc[w] = "adding"
  /\ pos[w] > Len(Chain[tgt[w]])
  /\ errs' = [errs EXCEPT ![tgt[w]] = IF store[w] THEN @ \cup {err[w]} ELSE @]
  /\ \/ /\ anyFull[w]
        /\ BeginJoin(w, tgt[w])
        /\ UNCHANGED <<err, pos, anyFull, store, ret>>
     \/ /\ ~anyFull[w]
        /\ Return(w, Nil)
  /\ UNCHANGED <<live, children, counter, used>>

\* Join called directly (by a parser or by Group.Wait).
CallJoin(w, c) ==
  /\ pc[w] = "idle"
  /\ c \in live \cap Uses[w]
  /\ BeginJoin(w, c)
  /\ UNCHANGED <<shared, err, pos, anyFull, store, ret>>

\* (mutant of JoinVisit: the children are not joined)
JoinVisitShallow(w) ==
  /\ pc[w] = "joining" /\ todo[w] # <<>>
  /\ acc' = [acc EXCEPT ![w] = [e \in Errors |->
                 @[e] + (IF e \in errs[Head(todo[w])] THEN 1 ELSE 0)]]
  /\ todo' = [todo EXCEPT ![w] = Tail(@)]
  /\ UNCHANGED <<shared, pc, call, before, ret>>

\* One level of the recursive Join: copy errors and children under the lock,
\* then go on with the children in order.
JoinVisit(w) ==
  /\ pc[w] = "joining"
  /\ todo[w] # <<>>
  /\ LET c == Head(todo[w])
     IN  /\ acc' = [acc EXCEPT ![w] =
                      [e \in Errors |-> @[e] + (IF e \in errs[c] THEN 1 ELSE 0)]]
         /\ todo' = [todo EXCEPT ![w] = children[c] \o Tail(@)]
  /\ UNCHANGED <<shared, pc, call, before, ret>>

\* Join returns: nil when nothing was gathered, else one error marked collected.
JoinReturn(w) ==
  /\ pc[w] = "joining"
  /\ todo[w] = <<>>
  /\ Return(w, IF acc[w] = Nothing THEN Nil ELSE tgt[w])
  /\ UNCHANGED shared

Next ==
  \E w \in Workers :
    \/ \E c \in Collectors :
         \/ NewChild(w, c)
         \/ CollectNil(w, c)
         \/ CollectJoined(w, c)
         \/ \E e \in Errors : CollectError(w, c, e)
         \/ CallJoin(w, c)
    \/ AddCounter(w)
    \/ StoreError(w)
    \/ JoinVisit(w)
    \/ JoinReturn(w)

Spec == Init /\ [][Next]_vars
-----------------------------------------------------------------------------
\* Errors in flight that Collect has counted at c and still intends to store.
Passed(c) ==
  {e \in Errors : \E w \in Workers :
     /\ pc[w] = "adding" /\ store[w] /\ err[w] = e
     /\ \E i \in 1..(pos[w] - 1) : i <= Len(Chain[tgt[w]]) /\ Chain[tgt[w]][i] = c}

Accepted(c) == StoredUnder(c) \cup Passed(c)

Related(c, d) == AncestorOf(c, d) \/ AncestorOf(d, c)

\* The budget of a collector bounds the errors stored in its whole subtree, in
\* every interleaving of the counter increments and appends of Collect.
BudgetRespected ==
  \A c \in Collectors : Cardinality(StoredUnder(c)) <= MaxErrs[c]

\* No error vanishes below the limits: as long as no counter on a path through
\* c has gone over its budget, c's counter is exactly the number of errors
\* stored in its subtree plus those on their way to it.
NothingLostWithinBudget ==
  \A c \in Collectors :
    (\A d \in Collectors : Related(c, d) => counter[d] <= MaxErrs[d])
      => counter[c] = Cardinality(Accepted(c))

\* What makes the two invariants above inductive.
BudgetInv ==
  \A c \in Collectors :
    /\ IsFiniteSet(Accepted(c))
    /\ Cardinality(Accepted(c)) <= counter[c]
    /\ Cardinality(Accepted(c)) <= MaxErrs[c]

\* Errors are handed in once, so one in flight is in no list and in no other call.
FreshInv ==
  /\ \A c \in Collectors : errs[c] \subseteq used
  /\ \A w \in Workers : pc[w] = "adding" =>
       /\ err[w] \in used
       /\ \A c \in Collectors : err[w] \notin errs[c]
       /\ \A v \in Workers : pc[v] = "adding" /\ err[v] = err[w] => v = w

\* Collect drops an error only after a counter it incremented ran over.
DropInv ==
  \A w \in Workers : pc[w] = "adding" /\ ~store[w] =>
    \E i \in 1..(pos[w] - 1) :
      /\ i <= Len(Chain[tgt[w]])
      /\ counter[Chain[tgt[w]][i]] > MaxErrs[Chain[tgt[w]][i]]

\* Join reports an error at most once and only errors of its own subtree, even
\* while children and errors are added under it, and when it returns it has
\* missed no error that was stored in the subtree before it was called.
JoinExact ==
  \A w \in Workers : pc[w] = "joining" =>
    /\ \A e \in Errors : /\ acc[w][e] <= 1
                          /\ acc[w][e] = 1 => e \in StoredUnder(tgt[w])
    /\ todo[w] = <<>> => \A e \in before[w] : acc[w][e] = 1
=============================================================================

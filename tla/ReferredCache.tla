--------------------------- MODULE ReferredCache ---------------------------
(***************************************************************************)
(* The cache of referred value spaces, internal/confgen/fieldprop/refer.go.*)
(*                                                                         *)
(* One package-level map from refer texts to value spaces serves every     *)
(* goroutine and every generator of the process.  A lookup reads the map   *)
(* under the read lock; on a miss it takes the write lock, looks again, and*)
(* reads the referred sheets while it holds it.                            *)
(***************************************************************************)
EXTENDS Integers, Sequences

CONSTANTS Parsers, Run, Refers, Questions, Unresolved, Sources, Bad, None,
  Values,   \* cell data
  NotLoaded,  \* no entry in the map
  MaxAsks   \* checks of one parser (a bound of the model)

VARIABLES
  references,  \* the map
  readers,     \* holders of the read lock
  writer,      \* who has the writer's mutex, waiting for readers or writing
  pc, question, answer,
  at,          \* place in question.refers
  part,        \* workbooks of the referred sheet read so far
  space,       \* the value space being loaded
  asks,        \* checks made so far (for the bound)
  loads        \* history: how often each refer was put in the map

call == <<pc, question, answer, at>>
load == <<part, space>>
vars == <<references, readers, writer, pc, question, answer, at, part, space, asks, loads>>

Lookup == INSTANCE ReferLookup

ASSUME CacheAssumption ==
  /\ \A g \in {Run[w] : w \in Parsers}, r \in Refers :
       /\ Sources[g][r] \in Seq((SUBSET Values) \cup {Bad})
  /\ \A q \in Questions :
       /\ q.refers \in Seq(Refers)
       /\ q.value \in Values
       /\ q.present \in BOOLEAN /\ q.required \in BOOLEAN
  /\ None \notin Questions /\ None \notin Parsers
  /\ \A V \in SUBSET Values : V # NotLoaded /\ V # Bad
  /\ MaxAsks \in Nat

Refer(w) == question[w].refers[at[w]]
SourcesOf(w) == Sources[Run[w]][Refer(w)]
-----------------------------------------------------------------------------
Init ==
  /\ references = [r \in Refers |-> NotLoaded]
  /\ readers = {} /\ writer = None
  /\ pc = [w \in Parsers |-> "idle"]
  /\ question = [w \in Parsers |-> None]
  /\ answer = [w \in Parsers |-> None]
  /\ at = [w \in Parsers |-> 1]
  /\ part = [w \in Parsers |-> 0]
  /\ space = [w \in Parsers |-> {}]
  /\ asks = [w \in Parsers |-> 0]
  /\ loads = [r \in Refers |-> 0]

\* parseFieldValue calls InReferredSpace for a cell.
Ask(w, q) ==
  /\ pc[w] = "idle"
  /\ asks[w] < MaxAsks
  /\ asks' = [asks EXCEPT ![w] = @ + 1]
  /\ pc' = [pc EXCEPT ![w] = "begin"]
  /\ question' = [question EXCEPT ![w] = q]
  /\ at' = [at EXCEPT ![w] = 1]
  /\ UNCHANGED <<references, readers, writer, answer, load, loads>>

\* InReferredSpace returns.
Answer(w, a) ==
  /\ pc' = [pc EXCEPT ![w] = "idle"]
  /\ question' = [question EXCEPT ![w] = None]
  /\ answer' = [answer EXCEPT ![w] = a]
  /\ UNCHANGED at

\* The early returns, or the first refer.
Begin(w) ==
  /\ pc[w] = "begin"
  /\ \/ /\ Lookup!Unchecked(question[w])
        /\ Answer(w, "yes")
     \/ /\ ~Lookup!Unchecked(question[w])
        /\ pc' = [pc EXCEPT ![w] = "rlock"]
        /\ UNCHANGED <<question, answer, at>>
  /\ UNCHANGED <<references, readers, writer, load, asks, loads>>

\* (mutant of Exists: the next refer is the same again)
ExistsAgain(w, vs) ==
  \/ /\ question[w].value \in vs
     /\ Answer(w, "yes")
  \/ /\ question[w].value \notin vs
     /\ at[w] = Len(question[w].refers)
     /\ Answer(w, "no")
  \/ /\ question[w].value \notin vs
     /\ at[w] < Len(question[w].refers)
     /\ pc' = [pc EXCEPT ![w] = "rlock"]
     /\ UNCHANGED <<at, question, answer>>

\* ExistsValue returns whether vs contains the value; InReferredSpace goes on.
Exists(w, vs) ==
  \/ /\ question[w].value \in vs
     /\ Answer(w, "yes")
  \/ /\ question[w].value \notin vs
     /\ at[w] = Len(question[w].refers)
     /\ Answer(w, "no")
  \/ /\ question[w].value \notin vs
     /\ at[w] < Len(question[w].refers)
     /\ pc' = [pc EXCEPT ![w] = "rlock"]
     /\ at' = [at EXCEPT ![w] = @ + 1]
     /\ UNCHANGED <<question, answer>>

\* sync.RWMutex: a writer that waits keeps new readers out.
RLock(w) ==
  /\ pc[w] = "rlock"
  /\ writer = None
  /\ readers' = readers \cup {w}
  /\ pc' = [pc EXCEPT ![w] = "reading"]
  /\ UNCHANGED <<references, writer, question, answer, at, load, asks, loads>>

RUnlock(w) ==
  /\ pc[w] = "reading"
  /\ readers' = readers \ {w}
  /\ \/ /\ references[Refer(w)] # NotLoaded
        /\ Exists(w, references[Refer(w)])
     \/ /\ references[Refer(w)] = NotLoaded
        /\ pc' = [pc EXCEPT ![w] = "lock"]
        /\ UNCHANGED <<question, answer, at>>
  /\ UNCHANGED <<references, writer, load, asks, loads>>

Lock(w) ==
  /\ pc[w] = "lock"
  /\ writer = None
  /\ writer' = w
  /\ pc' = [pc EXCEPT ![w] = "waiting"]
  /\ UNCHANGED <<references, readers, question, answer, at, load, asks, loads>>

\* (mutant of Recheck: the map is not read again under the write lock)
RecheckNot(w) ==
  /\ pc[w] = "waiting"
  /\ readers = {}
  /\ pc' = [pc EXCEPT ![w] = "loading"]
  /\ part' = [part EXCEPT ![w] = 0]
  /\ space' = [space EXCEPT ![w] = {}]
  /\ UNCHANGED <<writer, question, answer, at, references, readers, asks, loads>>

\* The write lock is held; another goroutine may have loaded the space.
Recheck(w) ==
  /\ pc[w] = "waiting"
  /\ readers = {}
  /\ \/ /\ references[Refer(w)] # NotLoaded
        /\ Exists(w, references[Refer(w)])
        /\ writer' = None
        /\ UNCHANGED load
     \/ /\ references[Refer(w)] = NotLoaded
        /\ pc' = [pc EXCEPT ![w] = "loading"]
        /\ part' = [part EXCEPT ![w] = 0]
        /\ space' = [space EXCEPT ![w] = {}]
        /\ UNCHANGED <<writer, question, answer, at>>
  /\ UNCHANGED <<references, readers, asks, loads>>

\* loadValueSpace fails: the lock is released and nothing is cached.
LoadFails(w) ==
  /\ pc[w] = "loading"
  /\ \/ part[w] = 0 /\ Refer(w) \in Unresolved[Run[w]]
     \/ part[w] < Len(SourcesOf(w)) /\ SourcesOf(w)[part[w] + 1] = Bad
  /\ Answer(w, "error")
  /\ writer' = None
  /\ UNCHANGED <<references, readers, load, asks, loads>>

\* (mutant of LoadSource: the values of the next workbook replace the others)
LoadSourceOnly(w) ==
  /\ pc[w] = "loading" /\ part[w] < Len(SourcesOf(w))
  /\ ~(part[w] = 0 /\ Refer(w) \in Unresolved[Run[w]])
  /\ SourcesOf(w)[part[w] + 1] # Bad
  /\ space' = [space EXCEPT ![w] = SourcesOf(w)[part[w] + 1]]
  /\ part' = [part EXCEPT ![w] = @ + 1]
  /\ UNCHANGED <<references, readers, writer, call, asks, loads>>

\* AddFromTable for the next workbook of the referred sheet.
LoadSource(w) ==
  /\ pc[w] = "loading"
  /\ part[w] < Len(SourcesOf(w))
  /\ ~(part[w] = 0 /\ Refer(w) \in Unresolved[Run[w]])
  /\ SourcesOf(w)[part[w] + 1] # Bad
  /\ space' = [space EXCEPT ![w] = @ \cup SourcesOf(w)[part[w] + 1]]
  /\ part' = [part EXCEPT ![w] = @ + 1]
  /\ UNCHANGED <<references, readers, writer, call, asks, loads>>

\* The space goes into the map, the lock is released.
Publish(w) ==
  /\ pc[w] = "loading"
  /\ part[w] = Len(SourcesOf(w))
  /\ ~(part[w] = 0 /\ Refer(w) \in Unresolved[Run[w]])
  /\ references' = [references EXCEPT ![Refer(w)] = space[w]]
  /\ loads' = [loads EXCEPT ![Refer(w)] = @ + 1]
  /\ writer' = None
  /\ Exists(w, space[w])
  /\ UNCHANGED <<readers, load, asks>>

Step(w) ==
  \/ Begin(w) \/ RLock(w) \/ RUnlock(w) \/ Lock(w) \/ Recheck(w)
  \/ LoadFails(w) \/ LoadSource(w) \/ Publish(w)

Done == \A w \in Parsers : pc[w] = "idle" /\ asks[w] = MaxAsks

Next ==
  \/ \E w \in Parsers : (\E q \in Questions : Ask(w, q)) \/ Step(w)
  \/ Done /\ UNCHANGED vars

\* Every goroutine that can run does.
Fairness == \A w \in Parsers : WF_vars(Step(w))

Spec == Init /\ [][Next]_vars /\ Fairness
-----------------------------------------------------------------------------
TypeOK ==
  /\ references \in [Refers -> (SUBSET Values) \cup {NotLoaded}]
  /\ readers \subseteq Parsers
  /\ writer \in Parsers \cup {None}
  /\ pc \in [Parsers -> {"idle", "begin", "rlock", "reading", "lock", "waiting", "loading"}]
  /\ question \in [Parsers -> Questions \cup {None}]
  /\ answer \in [Parsers -> {"yes", "no", "error", None}]
  /\ at \in [Parsers -> Nat \ {0}]
  /\ part \in [Parsers -> Nat]
  /\ space \in [Parsers -> SUBSET Values]
  /\ asks \in [Parsers -> 0..MaxAsks]
  /\ loads \in [Refers -> Nat]

\* A parser in the middle of a check is at one of its refers.
AtInv ==
  \A w \in Parsers :
    /\ pc[w] = "idle" <=> question[w] = None
    /\ pc[w] = "begin" => at[w] = 1
    /\ pc[w] \in {"rlock", "reading", "lock", "waiting", "loading"} =>
         ~Lookup!Unchecked(question[w]) /\ at[w] \in 1..Len(question[w].refers)

\* The write lock excludes readers and other writers.
LockInv ==
  \A w \in Parsers :
    /\ pc[w] \in {"waiting", "loading"} <=> writer = w
    /\ pc[w] = "reading" <=> w \in readers
    /\ pc[w] = "loading" => readers = {} /\ references[Refer(w)] = NotLoaded

\* A refer is loaded into the map once, however many goroutines miss it at the
\* same time ("load value space once").
LoadedOnce == \A r \in Refers : loads[r] <= 1

LoadsInv == \A r \in Refers : loads[r] = IF references[r] = NotLoaded THEN 0 ELSE 1

\* What the map and a load in progress hold is what the sheets hold, and the
\* refers passed so far do not decide the question.
CacheInv ==
  /\ \A w \in Parsers, r \in Refers : references[r] # NotLoaded =>
       Lookup!Loads(Run[w], r) /\ references[r] = Lookup!Space(Run[w], r)
  /\ \A w \in Parsers : pc[w] \in {"rlock", "reading", "lock", "waiting", "loading"} =>
       \A k \in 1..(at[w] - 1) : ~Lookup!Decides(Run[w], question[w], k)
  /\ \A w \in Parsers : pc[w] = "loading" =>
       /\ part[w] \in 0..Len(SourcesOf(w))
       /\ part[w] > 0 => Refer(w) \notin Unresolved[Run[w]]
       /\ \A i \in 1..part[w] : SourcesOf(w)[i] # Bad
       /\ space[w] = UNION {SourcesOf(w)[i] : i \in 1..part[w]}

\* Every answer is the one that reading the referred sheets gives, whoever
\* filled the cache and whatever other goroutines do meanwhile.
AnswersAsIfRead == Lookup!Spec

\* Every check is answered: no goroutine waits for the lock for ever.
EveryCheckAnswered == \A w \in Parsers : pc[w] = "begin" ~> pc[w] = "idle"
=============================================================================

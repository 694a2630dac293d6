---------------------------- MODULE ReferLookup ----------------------------
(***************************************************************************)
(* What a refer check of internal/confgen/fieldprop promises: the answer   *)
(* for a cell is the one that reading the referred sheets of its own run   *)
(* gives ("checks whether the cell data is at least in one of the other    *)
(* sheets' column value space", refer.go).                                 *)
(***************************************************************************)
EXTENDS Integers, Sequences

CONSTANTS
  Parsers,     \* goroutines that parse rows
  Run,         \* Run[w]: the generator w works for
  Refers,      \* refer texts, "Sheet(Alias).Column"
  Questions,   \* the checks: [refers, value, present, required]
  Unresolved,  \* Unresolved[g]: refers that do not parse, name no message or
               \* whose workbooks cannot be opened
  Sources,     \* Sources[g][r]: for each workbook of r's sheet the values in
               \* the column, or Bad
  Bad,         \* the sheet or the column is missing
  None

VARIABLES
  question,    \* what each parser is asking, or None
  answer       \* its last answer: "yes", "no" or "error"

Loads(g, r) ==
  /\ r \notin Unresolved[g]
  /\ \A i \in DOMAIN Sources[g][r] : Sources[g][r][i] # Bad

Space(g, r) == UNION {Sources[g][r][i] : i \in DOMAIN Sources[g][r]}

\* An absent value that need not be present is not checked.
Unchecked(q) == q.refers = <<>> \/ (~q.present /\ ~q.required)

\* The k-th refer of q decides: it fails to load, or it has the value.
Decides(g, q, k) ==
  ~Loads(g, q.refers[k]) \/ q.value \in Space(g, q.refers[k])

\* Possible outcomes of reading the refers of q in order.
Truth(g, q) ==
  IF Unchecked(q) THEN {"yes"}
  ELSE {IF Loads(g, q.refers[k]) THEN "yes" ELSE "error" :
          k \in {j \in DOMAIN q.refers :
                   Decides(g, q, j) /\ \A i \in 1..(j - 1) : ~Decides(g, q, i)}}
       \cup (IF \A k \in DOMAIN q.refers : ~Decides(g, q, k) THEN {"no"} ELSE {})

Init ==
  /\ question = [w \in Parsers |-> None]
  /\ answer = [w \in Parsers |-> None]

Ask(w, q) ==
  /\ question[w] = None
  /\ question' = [question EXCEPT ![w] = q]
  /\ UNCHANGED answer

Answer(w, a) ==
  /\ question[w] # None
  /\ a \in Truth(Run[w], question[w])
  /\ question' = [question EXCEPT ![w] = None]
  /\ answer' = [answer EXCEPT ![w] = a]

Next == \E w \in Parsers :
  \/ \E q \in Questions : Ask(w, q)
  \/ \E a \in {"yes", "no", "error"} : Answer(w, a)

Spec == Init /\ [][Next]_<<question, answer>>
=============================================================================

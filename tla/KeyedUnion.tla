---------------------------- MODULE KeyedUnion ----------------------------
(***************************************************************************)
(* What merging the messages of several importers promises, whatever the   *)
(* order in which the importers finish: all of them or an error, each key  *)
(* from the one importer that has it, every list in blocks that are in one *)
(* order for all lists, and an error that names two workbooks which really *)
(* have the same key.                                                      *)
(***************************************************************************)
EXTENDS Integers, Sequences

CONSTANTS
  Importers,
  Maps, Lists, Singles,  \* top-level fields of the message, by kind
  Keys,
  Contents               \* what an importer's message may be:
                         \*   keys[f]: the keys of its map f,
                         \*   populated: its lists and other fields not empty

VARIABLES
  content,   \* each importer's message
  broken,    \* the importers whose sheet does not parse
  outcome    \* what ParseMessage returns

NoOutcome == [kind |-> "none"]
Failed == [kind |-> "failed"]

Shares(a, b, f, k) == a # b /\ k \in content[a].keys[f] /\ k \in content[b].keys[f]

\* E2009 with the field, the key and the two workbooks' names.
Duplicates ==
  [kind : {"duplicate"}, field : Maps, key : Keys, books : SUBSET Importers]

NamesTwo(d) ==
  \E a \in Importers, b \in Importers :
    d.books = {a, b} /\ Shares(a, b, d.field, d.key)

\* "field: %v is not list or map", with the workbook's name.
Unsupporteds == [kind : {"unsupported"}, field : Singles, book : Importers]

HasSingle(u) == u.field \in content[u.book].populated

Mergeable ==
  /\ \A a \in Importers : content[a].populated \cap Singles = {}
  /\ \A a \in Importers, b \in Importers, f \in Maps, k \in Keys : ~Shares(a, b, f, k)

\* The entries of map f: each key with the importer its value is from.
Union(f) == {e \in Keys \X Importers : e[1] \in content[e[2]].keys[f]}

\* l is the importers that have list f, in the order R.
InOrderOf(R, f, l) ==
  /\ \A a \in Importers : (\E m \in DOMAIN l : l[m] = a) <=> f \in content[a].populated
  /\ \A m \in DOMAIN l, n \in DOMAIN l : m < n => <<l[m], l[n]>> \in R

\* A strict order of the importers.
IsOrder(R) ==
  /\ \A a \in Importers, b \in Importers : a # b => <<a, b>> \in R \/ <<b, a>> \in R
  /\ \A a \in Importers : <<a, a>> \notin R
  /\ \A a \in Importers, b \in Importers, c \in Importers :
       <<a, b>> \in R /\ <<b, c>> \in R => <<a, c>> \in R

IsMerged(o) ==
  /\ o.kind = "merged"
  /\ \A f \in Maps : o.maps[f] = Union(f)
  /\ \E R \in SUBSET (Importers \X Importers) :
       IsOrder(R) /\ \A f \in Lists : InOrderOf(R, f, o.lists[f])

Init ==
  /\ content \in [Importers -> Contents]
  /\ broken \in SUBSET Importers
  /\ outcome = NoOutcome

Reduce ==
  /\ outcome = NoOutcome
  /\ \/ broken # {} /\ outcome' = Failed
     \/ broken = {} /\ ~Mergeable /\ \E d \in Duplicates : NamesTwo(d) /\ outcome' = d
     \/ broken = {} /\ ~Mergeable /\ \E u \in Unsupporteds : HasSingle(u) /\ outcome' = u
     \/ broken = {} /\ Mergeable /\ IsMerged(outcome')
  /\ UNCHANGED <<content, broken>>

Spec == Init /\ [][Reduce]_<<content, broken, outcome>>
=============================================================================

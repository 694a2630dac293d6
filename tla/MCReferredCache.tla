-------------------------- MODULE MCReferredCache --------------------------
(***************************************************************************)
(* Small instances of ReferredCache.                                       *)
(***************************************************************************)
EXTENDS ReferredCache, TLC

CONSTANTS w1, w2, w3, g1, g2, item, hero, ghost, torn, x, y

OneRun == [w \in Parsers |-> g1]

Unknown == [g \in {g1, g2} |-> {ghost}]

\* item is a sheet of two workbooks; the second workbook of torn lacks the
\* column; another generator has different items.
Contents ==
  (g1 :> (item :> <<{x}, {}>>  @@ hero :> <<{y}>> @@ torn :> <<{x}, Bad>> @@ ghost :> <<{}>>)) @@
  (g2 :> (item :> <<{}, {y}>> @@ hero :> <<{y}>> @@ torn :> <<{x}, Bad>> @@ ghost :> <<{}>>))

Check(refers, value) == [refers |-> refers, value |-> value, present |-> TRUE, required |-> FALSE]

Checks ==
  { Check(<<item>>, x), Check(<<item, hero>>, y), Check(<<hero, torn>>, x),
    Check(<<ghost, item>>, x), [Check(<<item>>, y) EXCEPT !.present = FALSE] }
=============================================================================

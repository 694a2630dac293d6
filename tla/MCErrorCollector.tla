-------------------------- MODULE MCErrorCollector --------------------------
(***************************************************************************)
(* Small instances of ErrorCollector.                                      *)
(***************************************************************************)
EXTENDS ErrorCollector, TLC

CONSTANTS root, a, b, w1, w2

\* The shape of confgen: generator, workbook, sheet.
ThreeChain == (root :> <<root>>) @@ (a :> <<a, root>>) @@ (b :> <<b, a, root>>)

Max221 == (root :> 2) @@ (a :> 2) @@ (b :> 1)

AllUse == [w \in Workers |-> Collectors]

Symmetry == Permutations(Errors)
=============================================================================

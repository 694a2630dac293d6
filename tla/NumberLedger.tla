---------------------------- MODULE NumberLedger ----------------------------
(***************************************************************************)
(* What a message promises to the data written with its older generations: *)
(* a field that stays keeps its number, a new field gets one that no field *)
(* has or had, and the number of a field that goes is retired.             *)
(***************************************************************************)
EXTENDS Integers

CONSTANT Names

VARIABLES active,   \* the number of each field, 0 if there is no such field
          retired   \* numbers not to be used again

Present(numbers) == {f \in Names : numbers[f] # 0}

Init == active = [f \in Names |-> 0] /\ retired = {}

(* A new generation: which fields stay, come and go is the user's choice.   *)
Evolve ==
  /\ active' \in [Names -> Nat]
  /\ \A f \in Present(active) \cap Present(active') : active'[f] = active[f]
  /\ \A f \in Present(active') \ Present(active) :
       /\ active'[f] \notin retired
       /\ \A g \in Names : active'[f] # active[g]
  /\ \A f, g \in Present(active') : active'[f] = active'[g] => f = g
  /\ retired \subseteq retired'
  /\ \A f \in Present(active) \ Present(active') : active[f] \in retired'
  /\ \A f \in Present(active') : active'[f] \notin retired'

(* The message is no longer generated, and nothing of it is remembered.     *)
Forget == active' = [f \in Names |-> 0] /\ retired' = {}

Next == Evolve \/ Forget

Spec == Init /\ [][Next]_<<active, retired>>
=============================================================================

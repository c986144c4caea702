------------------------- MODULE MCDataOrchestrator -------------------------
(* Instances of DataOrchestrator for TLC. *)
EXTENDS DataOrchestrator, TLC

CONSTANTS root, dir

ThreeOfRoot == (root :> 3) @@ [p \in Prefixes |-> 1]

Nothing == {}

FirstOfRoot == {<<root, 1>>}
=============================================================================

---------------------------- MODULE MCDistServe -----------------------------
(* Small instances of the disaggregated configuration for TLC.             *)
EXTENDS DistServe

MCTwo == 0..1

(* A request that grows into two blocks, and one that grows into three.    *)
MCShapes == {[prompt |-> 1, maxTokens |-> 3], [prompt |-> 3, maxTokens |-> 4]}

(* With one that exceeds the prompt limit.                                 *)
MCLong == MCShapes \cup {[prompt |-> 5, maxTokens |-> 1]}

=============================================================================

--------------------------- MODULE MCHighPriority ---------------------------
(* Small instances of the high-priority instance for TLC.                  *)
EXTENDS HighPriorityEngine

MCTwo == 1..2
MCSeqs == 1..3

(* A request that fits one block and ends soon, and one that grows over    *)
(* several blocks and, once preempted, past the prompt limit.              *)
MCShapes == {[prompt |-> 1, maxTokens |-> 2], [prompt |-> 3, maxTokens |-> 4]}

(* A short request and one that exceeds the prompt limit from the start.   *)
MCLong == {[prompt |-> 1, maxTokens |-> 2], [prompt |-> 7, maxTokens |-> 1]}
=============================================================================

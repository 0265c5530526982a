--------------------------- MODULE MCLowPriority ----------------------------
(* Small instances of the low-priority instance for TLC.                   *)
EXTENDS LowPriorityEngine

MCOne == {1}
MCTwo == 1..2
MCSeqs == 1..3

(* A request that fits one block and ends soon, and one that grows over    *)
(* several blocks, so that three of them overflow the cache.               *)
MCShapes == {[prompt |-> 1, maxTokens |-> 2], [prompt |-> 3, maxTokens |-> 3]}

(* One request whose tokens fill the whole cache.                          *)
MCFilling == {[prompt |-> 2, maxTokens |-> 6]}
=============================================================================

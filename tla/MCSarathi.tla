----------------------------- MODULE MCSarathi ------------------------------
(* Small instances of the chunked-prefill scheduler for TLC.               *)
EXTENDS SarathiEngine

MCSeqs == 1..4

(* A prompt of three chunks, and one that outgrows its blocks in decoding. *)
MCShapes == {[prompt |-> 5, maxTokens |-> 2], [prompt |-> 2, maxTokens |-> 4]}
=============================================================================

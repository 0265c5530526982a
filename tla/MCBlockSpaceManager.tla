------------------------ MODULE MCBlockSpaceManager -------------------------
(* A small instance of the block manager for TLC.                          *)
EXTENDS BlockSpaceManager, TLC

MCSymmetry == Permutations(Blocks)
=============================================================================

--------------------------- MODULE MCPaceCluster ----------------------------
(* Small instances of the cluster for TLC.                                 *)
EXTENDS PaceCluster

MCTwo == 1..2
=============================================================================

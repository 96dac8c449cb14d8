------------------------------- MODULE MCPBFT -------------------------------
(***************************************************************************)
(* Instances of PBFT for TLC: n0 leads; the configurations choose how many *)
(* of the other nodes belong to the shard and which of them are down.      *)
(***************************************************************************)
EXTENDS PBFT

CONSTANTS n0, n1, n2, n3
=============================================================================

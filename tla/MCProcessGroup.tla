---------------------------- MODULE MCProcessGroup ----------------------------
(***************************************************************************)
(* Instances of ProcessGroup for TLC: two consensus nodes and the          *)
(* supervisor.                                                             *)
(***************************************************************************)
EXTENDS ProcessGroup

CONSTANTS n1, n2
==============================================================================

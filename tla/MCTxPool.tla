------------------------------- MODULE MCTxPool -------------------------------
(***************************************************************************)
(* Instances of TxPool for TLC: two transactions of this shard, a short    *)
(* and a long one, and one of another shard.                               *)
(***************************************************************************)
EXTENDS TxPool

CONSTANTS t1, t2, t3

MCEncodedSize == [t \in Tx |-> IF t = t2 THEN 6 ELSE 2]
==============================================================================

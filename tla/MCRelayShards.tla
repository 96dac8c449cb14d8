---------------------------- MODULE MCRelayShards ----------------------------
(***************************************************************************)
(* Instances of RelayShards for TLC: two shards, account a in the first    *)
(* and b in the second, and up to two transfers of different values, one   *)
(* in each direction.  A repartition may bring both accounts together or   *)
(* swap them, so every transfer can become an inner one and back.          *)
(***************************************************************************)
EXTENDS RelayShards

CONSTANTS s1, s2, a, b

MCDefaultAccountLoc == [x \in Account |-> IF x = b THEN s2 ELSE s1]

\* Without b, transfers stay with a.
MCSender    == [t \in Tx |-> IF t = 2 /\ b \in Account THEN b ELSE a]
MCRecipient == [t \in Tx |-> IF t = 1 /\ b \in Account THEN b ELSE a]
MCValue     == [t \in Tx |-> t]
==============================================================================

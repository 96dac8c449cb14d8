---------------------------- MODULE MCBrokerShards ----------------------------
(***************************************************************************)
(* Instances of BrokerShards for TLC: two shards, account a in the first   *)
(* and b in the second, and a broker who cannot pay all transfers at once, *)
(* so that they compete for it and some are relayed.                       *)
(***************************************************************************)
EXTENDS BrokerShards

CONSTANTS s1, s2, a, b, x

MCDefaultAccountLoc == [acc \in Account |-> IF acc = b THEN s2 ELSE s1]

\* The first transfer goes the other way: it brings the broker money in the
\* second shard, which the others take out.
MCSender    == [t \in Tx |-> IF t = 1 THEN b ELSE a]
MCRecipient == [t \in Tx |-> IF t = 1 THEN a ELSE b]
MCValue     == [t \in Tx |-> IF t = 1 THEN 2 ELSE 1]
==============================================================================

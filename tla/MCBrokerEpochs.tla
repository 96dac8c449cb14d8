----------------------------- MODULE MCBrokerEpochs -----------------------------
(***************************************************************************)
(* Instances of BrokerEpochs for TLC: two shards and a repartition that    *)
(* may bring accounts together or separate them.                           *)
(***************************************************************************)
EXTENDS BrokerEpochs

CONSTANTS s1, s2, a, b, x

\* Both accounts start in one shard: the transfer between them is an inner one
\* until a repartition separates them.
MCDefaultAccountLoc == [acc \in Account |-> s1]

MCSender    == [t \in Tx |-> a]
MCRecipient == [t \in Tx |-> b]
MCValue     == [t \in Tx |-> t]
=================================================================================

------------------------------- MODULE ShardLog -------------------------------
(***************************************************************************)
(* What a shard promises to the rest of the system: one log of blocks that *)
(* only grows, and of which every node holds a beginning.  Only a node     *)
(* that has the whole log adds a block to it, so every block was executed  *)
(* on the state its predecessor left behind; a node that is behind moves   *)
(* on along the log, by one block or, after a catch-up, by many.           *)
(*                                                                         *)
(* RelayShards and BrokerShards see a shard in this way.  PBFT implements  *)
(* it: a node stores its blocks one by one or in the batch of a reply,     *)
(* late replies repeat old blocks, and nobody but the leader generates.    *)
(***************************************************************************)
EXTENDS Integers

CONSTANTS
    Node,
    Genesis         \* the first block of every node

VARIABLES
    log,            \* the blocks of the shard
    copy            \* copy[n]: the blocks that node n holds

logVars == <<log, copy>>

Init ==
    /\ log = {Genesis}
    /\ copy = [n \in Node |-> {Genesis}]

IsLast(b) == b \in log /\ \A c \in log : c.number <= b.number

Prefix(height) == {b \in log : b.number <= height}

Append(n) ==
    /\ copy[n] = log
    /\ \E last \in log, b \in log' :
         /\ IsLast(last)
         /\ b.number = last.number + 1
         /\ b.parent = last.hash
         /\ log' = log \cup {b}
    /\ copy' = [copy EXCEPT ![n] = log']

Learn(n) ==
    /\ \E b \in log \ copy[n] : copy' = [copy EXCEPT ![n] = Prefix(b.number)]
    /\ UNCHANGED log

Next == \E n \in Node : Append(n) \/ Learn(n)

Spec == Init /\ [][Next]_logVars
===============================================================================

------------------------------ MODULE AgentLedger ------------------------------
(***************************************************************************)
(* The ledgers of the agents (agentsupervisor/agentcsv.go): after a run    *)
(* the blocks of all shards are read back and executed once more, in one   *)
(* global order that is made from their timestamps, and every agent gets   *)
(* the list of its transfers with the running balance.                     *)
(*                                                                         *)
(* The ledgers are a function of the blocks that Measure lets the shards   *)
(* commit, so there is no state of their own, and they can be compared     *)
(* with the execution (trail) in every state a run may end in.             *)
(***************************************************************************)
EXTENDS Measure

\* txRef: a transaction, and where it lies.
RefAt(s, h, i) ==
    [shard |-> s, height |-> h, index |-> i, time |-> blocks[s][h].time, tx |-> blocks[s][h].txs[i]]

Refs ==
    UNION {UNION {{RefAt(s, h, i) : i \in DOMAIN blocks[s][h].txs} : h \in DOMAIN blocks[s]} :
           s \in Shard}

\* Mutant of Before: shard by shard.
BeforeByShard(r, q) ==
    \/ r.shard < q.shard
    \/ r.shard = q.shard /\ r.height < q.height
    \/ r.shard = q.shard /\ r.height = q.height /\ r.index < q.index

\* The order of the global pass: the time of the block, then shard, height
\* and index.
Before(r, q) ==
    \/ r.time < q.time
    \/ r.time = q.time /\ r.shard < q.shard
    \/ r.time = q.time /\ r.shard = q.shard /\ r.height < q.height
    \/ r.time = q.time /\ r.shard = q.shard /\ r.height = q.height /\ r.index < q.index

\* RelayStage tells the halves of a relay only: to the ledger a half of a
\* broker transfer is a whole transfer.
SenderRow(c)    == IF c.stage # "relay2" THEN {Sender[c.tx]} ELSE {}
RecipientRow(c) == IF c.stage # "relay1" THEN {Recipient[c.tx]} ELSE {}

\* The sorted references: the n-th is the one that n - 1 others precede.
InOrder ==
    [n \in 1 .. Cardinality(Refs) |->
        CHOOSE r \in Refs : Cardinality({q \in Refs : Before(q, r)}) = n - 1]

\* The rows of one transaction.  txHexHash: both halves of a transfer bear
\* the hash of the original.
AddRows(rows, r) ==
    LET c == r.tx
    IN  Moved(Moved(rows, SenderRow(c), c.tx, 0 - Value[c.tx]), RecipientRow(c), c.tx, Value[c.tx])

BuildAgentRows == FoldLeft(AddRows, [a \in Account |-> <<>>], InOrder)

\* In relay mode the ledger of every account lists its transfers, each side
\* once, in the order and with the balances with which the shards executed
\* them, although the account may have moved between shards and the blocks
\* of different shards are stamped before they are committed.
LedgerAsExecuted == kind = "relay" => BuildAgentRows = trail
================================================================================

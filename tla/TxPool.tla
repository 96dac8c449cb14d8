-------------------------------- MODULE TxPool --------------------------------
(***************************************************************************)
(* The transaction pool of a leader (pkg/core/txpool/queue) and the loop   *)
(* that fills a block from it (packValidTxsInRelay).  The loop pops at     *)
(* most the room that is left, keeps the transactions whose account is in  *)
(* this shard, puts the others aside for their own shard, and goes on      *)
(* until the block is full or the pool is empty.                           *)
(*                                                                         *)
(* RelayShards treats the pool as a set and takes the result of the loop   *)
(* in one step; the properties here say that it may.                       *)
(***************************************************************************)
EXTENDS Integers, Sequences, FiniteSetsExt

CONSTANTS
    Tx,
    Here,           \* transactions whose account is in this shard
    EncodedSize,    \* EncodedSize[t]: bytes of t
    PoolType,       \* "number" or "byte"
    BlockSizeLimit,
    MaxAdded        \* bound: transactions added in a behaviour

ASSUME PoolAssumption ==
    /\ Here \subseteq Tx
    /\ EncodedSize \in [Tx -> Nat \ {0}]
    /\ PoolType \in {"number", "byte"}
    /\ BlockSizeLimit \in Nat \ {0}
    /\ MaxAdded \in Nat

VARIABLES
    queue,      \* the pool
    phase,      \* "idle", "packing", "packed"
    batch,      \* popped in this iteration, not yet looked at
    txsPacked,  \* transactions for the block
    away,       \* transactions for other shards
    added,      \* history: everything ever added, in order
    popped      \* history: everything ever popped, in order

vars == <<queue, phase, batch, txsPacked, away, added, popped>>

TypeOK ==
    /\ queue \in Seq(Tx)
    /\ phase \in {"idle", "packing", "packed"}
    /\ batch \in Seq(Tx)
    /\ txsPacked \in Seq(Here)
    /\ away \in Seq(Tx \ Here)
    /\ added \in Seq(Tx)
    /\ popped \in Seq(Tx)

Init ==
    /\ queue = <<>>
    /\ phase = "idle"
    /\ batch = <<>>
    /\ txsPacked = <<>>
    /\ away = <<>>
    /\ added = <<>>
    /\ popped = <<>>

-----------------------------------------------------------------------------

\* getCurSizeOfByte
SizeOfByte(q) == MapThenSumSet(LAMBDA i : EncodedSize[q[i]], 1 .. Len(q))

\* GetTxListSize
GetTxListSize(q) == IF PoolType = "number" THEN Len(q) ELSE SizeOfByte(q)

\* Mutant of EndOfNum: one too few.
EndOfNumLessOne(q, n) == IF Len(q) >= n THEN n - 1 ELSE Len(q)

\* packTxsByGivenNum: how many transactions it takes from the front.
EndOfNum(q, n) == IF Len(q) > n THEN n ELSE Len(q)

\* packTxsByGivenBytes: it stops at the first transaction that is smaller
\* than what is left of n.
EndOfBytes(q, n) ==
    LET goesOn(i) == EncodedSize[q[i]] >= n - SizeOfByte(SubSeq(q, 1, i - 1))
    IN  Max({0} \cup {k \in 1 .. Len(q) : \A i \in 1 .. k : goesOn(i)})

\* The number of transactions PackTxs returns.
EndIdx(q, n) == IF PoolType = "number" THEN EndOfNum(q, n) ELSE EndOfBytes(q, n)

AddTxs(txs) ==
    /\ phase = "idle"
    /\ Len(added) + Len(txs) <= MaxAdded
    /\ queue' = queue \o txs
    /\ added' = added \o txs
    /\ UNCHANGED <<phase, batch, txsPacked, away, popped>>

BeginPacking ==
    /\ phase = "idle"
    /\ phase' = "packing"
    /\ UNCHANGED <<queue, batch, txsPacked, away, added, popped>>

\* size - curCnt
RoomLeft == BlockSizeLimit - GetTxListSize(txsPacked)

\* Mutant of Remaining: the last transaction popped stays in the pool.
RemainingWithLast(k) == SubSeq(queue, IF k = 0 THEN 1 ELSE k, Len(queue))

\* The pool after k transactions have been popped.
Remaining(k) == SubSeq(queue, k + 1, Len(queue))

\* An iteration of the loop begins: fetchTxsAndAccountStates.
FetchTxs ==
    /\ phase = "packing"
    /\ batch = <<>>
    /\ RoomLeft > 0
    /\ LET k == EndIdx(queue, RoomLeft)
       IN  /\ k > 0
           /\ batch' = SubSeq(queue, 1, k)
           /\ queue' = Remaining(k)
           /\ popped' = popped \o SubSeq(queue, 1, k)
    /\ UNCHANGED <<phase, txsPacked, away, added>>

BelongsHere(t) == t \in Here

\* The iteration looks at every transaction it has fetched.
SplitTx ==
    /\ phase = "packing"
    /\ batch # <<>>
    /\ batch' = Tail(batch)
    /\ \/ /\ BelongsHere(Head(batch))
          /\ txsPacked' = Append(txsPacked, Head(batch))
          /\ away' = away
       \/ /\ ~BelongsHere(Head(batch))
          /\ txsPacked' = txsPacked
          /\ away' = Append(away, Head(batch))
    /\ UNCHANGED <<queue, phase, added, popped>>

\* The block is full, or nothing was popped.
EndPacking ==
    /\ phase = "packing"
    /\ batch = <<>>
    /\ RoomLeft <= 0 \/ EndIdx(queue, RoomLeft) = 0
    /\ phase' = "packed"
    /\ UNCHANGED <<queue, batch, txsPacked, away, added, popped>>

\* The block goes to consensus and the others to their shards.
Propose ==
    /\ phase = "packed"
    /\ phase' = "idle"
    /\ txsPacked' = <<>>
    /\ away' = <<>>
    /\ UNCHANGED <<queue, batch, added, popped>>

Next ==
    \/ \E t \in Tx : AddTxs(<<t>>)
    \/ BeginPacking
    \/ FetchTxs
    \/ SplitTx
    \/ EndPacking
    \/ Propose

Spec == Init /\ [][Next]_vars

-----------------------------------------------------------------------------
(***************************************************************************)
(* Properties                                                              *)
(***************************************************************************)

\* First in, first out: over all the iterations of all blocks, transactions
\* leave the pool in the order in which they came, none twice and none
\* lost.
FifoOrder == added = popped \o queue

\* "The size of transactions will be limited by the given parameter"
\* (TxPool in txpool.go), although the loop asks the pool several times.
\* A transaction that is too large by itself is not held against it.
WithinLimit == Len(txsPacked) > 1 => GetTxListSize(txsPacked) <= BlockSizeLimit

\* A block is smaller than the limit only when the pool has been emptied:
\* this is what RelayShards takes the loop to do (PackedTxs).
FullOrEmptied ==
    phase = "packed" => GetTxListSize(txsPacked) = BlockSizeLimit \/ queue = <<>>
=============================================================================

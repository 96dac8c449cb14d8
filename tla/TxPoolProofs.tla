----------------------------- MODULE TxPoolProofs -----------------------------
(***************************************************************************)
(* Proofs about a pool that packs by number: for every set of transactions *)
(* and every limit it is first in, first out, a block never exceeds the    *)
(* limit, and it is only smaller when the pool has been emptied.           *)
(***************************************************************************)
EXTENDS TxPool, SequenceTheorems, TLAPS

\* What the iteration has fetched still fits into the block.
BatchFits == Len(txsPacked) + Len(batch) <= BlockSizeLimit

\* The lists of the loop are empty outside the loop.
LoopIsClean ==
    /\ phase = "idle" => txsPacked = <<>>
    /\ phase # "packing" => batch = <<>>

\* The inductive invariant.
IInv ==
    /\ TypeOK
    /\ FifoOrder
    /\ BatchFits
    /\ LoopIsClean
    /\ FullOrEmptied

-----------------------------------------------------------------------------
\* Splitting a queue anywhere and joining the parts gives the queue back.
LEMMA SplitAndJoin ==
    ASSUME NEW p \in Seq(Tx), NEW q \in Seq(Tx), NEW k \in Nat, k <= Len(q)
    PROVE  /\ SubSeq(q, 1, k) \in Seq(Tx) /\ Len(SubSeq(q, 1, k)) = k
           /\ SubSeq(q, k + 1, Len(q)) \in Seq(Tx)
           /\ p \o q = (p \o SubSeq(q, 1, k)) \o SubSeq(q, k + 1, Len(q))
<1> DEFINE front == SubSeq(q, 1, k)
           rest  == SubSeq(q, k + 1, Len(q))
<1>1. Len(q) \in Nat /\ \A i \in 1 .. Len(q) : q[i] \in Tx
  BY LenProperties
<1>2. front \in Seq(Tx) /\ Len(front) = k
  <2>1. \A i \in 1 .. k : q[i] \in Tx
    BY <1>1
  <2> QED
    BY <1>1, <2>1, SubSeqProperties
<1>3. rest \in Seq(Tx)
  <2>1. \A i \in k + 1 .. Len(q) : q[i] \in Tx
    BY <1>1
  <2>2. k + 1 \in Int /\ Len(q) \in Int
    BY <1>1
  <2> QED
    BY <2>1, <2>2, SubSeqProperties
<1>4. front \o rest = q
  <2>1. 1 \in 1 .. Len(q) + 1 /\ k \in 1 - 1 .. Len(q) /\ Len(q) \in k .. Len(q)
    BY <1>1
  <2>2. front \o rest = SubSeq(q, 1, Len(q))
    BY <2>1, ConcatAdjacentSubSeq
  <2> QED
    BY <2>2, SubSeqFull
<1>5. (p \o front) \o rest = p \o (front \o rest)
  <2>1. ASSUME NEW f \in Seq(Tx), NEW r \in Seq(Tx)
        PROVE  (p \o f) \o r = p \o (f \o r)
    OBVIOUS
  <2> QED
    BY <1>2, <1>3, <2>1
<1> QED
  BY <1>2, <1>3, <1>4, <1>5

\* The empty pool satisfies the invariant.
LEMMA InitIInv == Init => IInv
<1> SUFFICES ASSUME Init PROVE IInv
  OBVIOUS
<1>1. TypeOK
  BY DEF Init, TypeOK
<1>2. FifoOrder
  BY DEF Init, FifoOrder
<1>3. BatchFits
  BY PoolAssumption DEF Init, BatchFits
<1> QED
  BY <1>1, <1>2, <1>3 DEF Init, IInv, LoopIsClean, FullOrEmptied

\* A transaction that arrives goes to the end.
LEMMA AddStep ==
    ASSUME IInv, NEW t \in Tx, AddTxs(<<t>>)
    PROVE  IInv'
<1>1. /\ queue' = queue \o <<t>>
      /\ added' = added \o <<t>>
      /\ popped' = popped
      /\ <<t>> \in Seq(Tx)
  BY DEF AddTxs
<1>2. (popped \o queue) \o <<t>> = popped \o (queue \o <<t>>)
  BY <1>1, ConcatAssociative DEF IInv, TypeOK
<1>3. queue' \in Seq(Tx) /\ added' \in Seq(Tx)
  BY <1>1, ConcatProperties DEF IInv, TypeOK
<1>4. TypeOK'
  BY <1>3 DEF IInv, TypeOK, AddTxs
<1>5. FifoOrder'
  BY <1>1, <1>2 DEF IInv, FifoOrder
<1> QED
  BY <1>4, <1>5 DEF IInv, BatchFits, LoopIsClean, FullOrEmptied, AddTxs

\* Fetching keeps the order and takes no more than there is room for.
LEMMA FetchStep ==
    ASSUME PoolType = "number", IInv, FetchTxs
    PROVE  IInv'
<1> DEFINE k == EndIdx(queue, RoomLeft)
<1>1. Len(queue) \in Nat /\ Len(txsPacked) \in Nat
  BY LenProperties DEF IInv, TypeOK
<1>2. RoomLeft = BlockSizeLimit - Len(txsPacked)
  BY DEF RoomLeft, GetTxListSize
<1>3. k \in Nat /\ k <= Len(queue) /\ k <= RoomLeft
  BY <1>1, <1>2, PoolAssumption DEF EndIdx, EndOfNum, FetchTxs
<1>4. /\ batch' = SubSeq(queue, 1, k)
      /\ queue' = SubSeq(queue, k + 1, Len(queue))
      /\ popped' = popped \o SubSeq(queue, 1, k)
      /\ UNCHANGED <<phase, txsPacked, away, added>>
      /\ phase = "packing"
  BY DEF FetchTxs, Remaining
<1> HIDE DEF k
<1>5. /\ batch' \in Seq(Tx) /\ Len(batch') = k
      /\ queue' \in Seq(Tx)
      /\ popped \o queue = (popped \o batch') \o queue'
  <2>1. queue \in Seq(Tx) /\ popped \in Seq(Tx)
    BY DEF IInv, TypeOK
  <2>2. /\ SubSeq(queue, 1, k) \in Seq(Tx) /\ Len(SubSeq(queue, 1, k)) = k
        /\ SubSeq(queue, k + 1, Len(queue)) \in Seq(Tx)
        /\ popped \o queue
             = (popped \o SubSeq(queue, 1, k)) \o SubSeq(queue, k + 1, Len(queue))
    <3>1. ASSUME NEW n \in Nat, n <= Len(queue)
          PROVE  /\ SubSeq(queue, 1, n) \in Seq(Tx) /\ Len(SubSeq(queue, 1, n)) = n
                 /\ SubSeq(queue, n + 1, Len(queue)) \in Seq(Tx)
                 /\ popped \o queue
                      = (popped \o SubSeq(queue, 1, n)) \o SubSeq(queue, n + 1, Len(queue))
      BY <2>1, <3>1, SplitAndJoin
    <3> QED
      BY <1>3, <3>1
  <2> QED
    BY <1>4, <2>2
<1>6. popped' \in Seq(Tx)
  BY <1>4, <1>5, ConcatProperties DEF IInv, TypeOK
<1>7. TypeOK'
  BY <1>4, <1>5, <1>6 DEF IInv, TypeOK
<1>8. FifoOrder'
  BY <1>4, <1>5 DEF IInv, FifoOrder
<1>9. BatchFits'
  BY <1>1, <1>2, <1>3, <1>4, <1>5, PoolAssumption DEF BatchFits
<1> QED
  BY <1>4, <1>7, <1>8, <1>9 DEF IInv, LoopIsClean, FullOrEmptied

\* A transaction moves from what was fetched into the block or aside.
LEMMA SplitStep ==
    ASSUME IInv, SplitTx
    PROVE  IInv'
<1> DEFINE t == Head(batch)
<1>1. /\ batch \in Seq(Tx) /\ batch # <<>>
      /\ batch' = Tail(batch)
      /\ phase = "packing"
      /\ UNCHANGED <<queue, phase, added, popped>>
  BY DEF IInv, TypeOK, SplitTx
<1>2. t \in Tx /\ batch' \in Seq(Tx) /\ Len(batch') = Len(batch) - 1
  BY <1>1, HeadTailProperties
<1>3. Len(batch) \in Nat /\ Len(txsPacked) \in Nat
  BY LenProperties DEF IInv, TypeOK
<1> HIDE DEF t
<1>4. CASE t \in Here /\ txsPacked' = Append(txsPacked, t) /\ away' = away
  <2>1. txsPacked' \in Seq(Here) /\ Len(txsPacked') = Len(txsPacked) + 1
    BY <1>4 DEF IInv, TypeOK
  <2>2. TypeOK'
    BY <1>1, <1>2, <1>4, <2>1 DEF IInv, TypeOK
  <2>3. BatchFits'
    BY <1>2, <1>3, <2>1, PoolAssumption DEF IInv, BatchFits
  <2> QED
    BY <1>1, <2>2, <2>3 DEF IInv, FifoOrder, LoopIsClean, FullOrEmptied
<1>5. CASE t \notin Here /\ txsPacked' = txsPacked /\ away' = Append(away, t)
  <2>1. away' \in Seq(Tx \ Here)
    BY <1>2, <1>5 DEF IInv, TypeOK
  <2>2. TypeOK'
    BY <1>1, <1>2, <1>5, <2>1 DEF IInv, TypeOK
  <2>3. BatchFits'
    BY <1>2, <1>3, <1>5, PoolAssumption DEF IInv, BatchFits
  <2> QED
    BY <1>1, <2>2, <2>3 DEF IInv, FifoOrder, LoopIsClean, FullOrEmptied
<1> QED
  BY <1>4, <1>5 DEF SplitTx, BelongsHere, t

\* The loop ends with a full block or an empty pool.
LEMMA EndStep ==
    ASSUME PoolType = "number", IInv, EndPacking
    PROVE  IInv'
<1>1. Len(queue) \in Nat /\ Len(txsPacked) \in Nat /\ Len(batch) \in Nat
  BY LenProperties DEF IInv, TypeOK
<1>2. /\ GetTxListSize(txsPacked) = Len(txsPacked)
      /\ RoomLeft = BlockSizeLimit - Len(txsPacked)
  BY DEF RoomLeft, GetTxListSize
<1>3. Len(txsPacked) <= BlockSizeLimit
  BY <1>1, PoolAssumption DEF IInv, BatchFits
<1>4. Len(txsPacked) = BlockSizeLimit \/ queue = <<>>
  <2>1. CASE RoomLeft <= 0
    BY <1>1, <1>2, <1>3, <2>1, PoolAssumption
  <2>2. CASE RoomLeft > 0 /\ EndIdx(queue, RoomLeft) = 0
    <3>1. Len(queue) = 0
      BY <1>1, <1>2, <2>2, PoolAssumption DEF EndIdx, EndOfNum
    <3> QED
      BY <3>1 DEF IInv, TypeOK
  <2>3. RoomLeft <= 0 \/ RoomLeft > 0
    BY <1>1, <1>2, PoolAssumption
  <2> QED
    BY <2>1, <2>2, <2>3 DEF EndPacking
<1>5. FullOrEmptied'
  BY <1>2, <1>4 DEF FullOrEmptied, EndPacking, GetTxListSize
<1>6. TypeOK'
  BY DEF IInv, TypeOK, EndPacking
<1> QED
  BY <1>5, <1>6 DEF IInv, FifoOrder, BatchFits, LoopIsClean, EndPacking

\* Every step keeps the invariant.
LEMMA StepIInv ==
    ASSUME PoolType = "number", IInv, [Next]_vars
    PROVE  IInv'
<1>1. CASE BeginPacking
  <2>1. TypeOK'
    BY <1>1 DEF IInv, TypeOK, BeginPacking
  <2> QED
    BY <1>1, <2>1 DEF IInv, FifoOrder, BatchFits, LoopIsClean, FullOrEmptied, BeginPacking
<1>2. CASE Propose
  <2>1. TypeOK'
    BY <1>2 DEF IInv, TypeOK, Propose
  <2>2. batch' = <<>> /\ txsPacked' = <<>>
    BY <1>2 DEF IInv, LoopIsClean, Propose
  <2>3. BatchFits'
    BY <2>2, PoolAssumption DEF BatchFits
  <2> QED
    BY <1>2, <2>1, <2>2, <2>3 DEF IInv, FifoOrder, LoopIsClean, FullOrEmptied, Propose
<1>3. CASE UNCHANGED vars
  <2>1. TypeOK'
    BY <1>3 DEF IInv, TypeOK, vars
  <2> QED
    BY <1>3, <2>1 DEF IInv, FifoOrder, BatchFits, LoopIsClean, FullOrEmptied, GetTxListSize,
                      SizeOfByte, vars
<1> QED
  BY <1>1, <1>2, <1>3, AddStep, FetchStep, SplitStep, EndStep DEF Next

-----------------------------------------------------------------------------
\* The invariant holds in every state of a pool that packs by number.
LEMMA Invariance ==
    ASSUME PoolType = "number"
    PROVE  Spec => []IInv
<1>1. IInv /\ [Next]_vars => IInv'
  BY StepIInv
<1> QED
  BY <1>1, InitIInv, PTL DEF Spec

\* Transactions leave the pool in the order in which they came, none twice
\* and none lost.
THEOREM PoolIsFifo ==
    ASSUME PoolType = "number"
    PROVE  Spec => []FifoOrder
<1>1. IInv => FifoOrder
  BY DEF IInv
<1> QED
  BY <1>1, Invariance, PTL

\* A block never holds more than the limit.
THEOREM BlocksWithinLimit ==
    ASSUME PoolType = "number"
    PROVE  Spec => []WithinLimit
<1>1. IInv => WithinLimit
  <2> SUFFICES ASSUME IInv PROVE Len(txsPacked) <= BlockSizeLimit
    BY DEF WithinLimit, GetTxListSize
  <2>1. Len(batch) \in Nat /\ Len(txsPacked) \in Nat
    BY LenProperties DEF IInv, TypeOK
  <2> QED
    BY <2>1, PoolAssumption DEF IInv, BatchFits
<1> QED
  BY <1>1, Invariance, PTL

\* A block is full or has emptied the pool.
THEOREM BlocksFullOrPoolEmptied ==
    ASSUME PoolType = "number"
    PROVE  Spec => []FullOrEmptied
<1>1. IInv => FullOrEmptied
  BY DEF IInv
<1> QED
  BY <1>1, Invariance, PTL

\* Pool, block and batches hold transactions, and a block only such as belong
\* to this shard.
THEOREM PoolTyped ==
    ASSUME PoolType = "number"
    PROVE  Spec => []TypeOK
<1>1. IInv => TypeOK
  BY DEF IInv
<1> QED
  BY <1>1, Invariance, PTL
=============================================================================

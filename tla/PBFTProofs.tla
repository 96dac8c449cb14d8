----------------------------- MODULE PBFTProofs -----------------------------
(***************************************************************************)
(* Proofs about PBFT for any set of nodes, any thresholds and any bounds.  *)
(***************************************************************************)
EXTENDS PBFT, FiniteSetTheorems, TLAPS

\* The only block there can be at height k: its hash is its height, because
\* the leader generates one block per height.
BlockAt(k) == [number |-> k, parent |-> k - 1, hash |-> k]

\* A proposal made by the leader: sequence number s carries height s + 2.
GoodProposal(p) ==
    /\ p.seq \in Nat
    /\ p.block = BlockAt(p.seq + 2)
    /\ p.seq + 2 <= generated

\* A node's sequence number, head and block storage tell the same story.
ChainInv ==
    \A n \in Node :
        /\ curHeader[n] = BlockAt(curSeq[n] + 1)
        /\ curHeader[n] \in stored[n]
        /\ \A b \in stored[n] :
              /\ b.number >= 1
              /\ b = BlockAt(b.number)
              /\ \A k \in 1 .. b.number : BlockAt(k) \in stored[n]

\* At most one proposal is outstanding, and the leader knows it.
LeaderInv ==
    /\ generated = curSeq[Leader] + (IF proposed[Leader] THEN 2 ELSE 1)
    /\ ~catchupStarted[Leader]

\* The proposal of the round in progress belongs to that round.
RoundInv ==
    \A n \in Node :
        /\ curPreprepare[n] # NoPreprepare =>
              /\ curPreprepare[n].seq = curSeq[n]
              /\ GoodProposal(curPreprepare[n])
        /\ stage[n] # "preprepare" => curPreprepare[n] # NoPreprepare

PoolInv ==
    \A n \in Node :
        /\ \A p \in preprepares[n] : GoodProposal(p)
        /\ latestSeq[n] # 0 => latestSeq[n] + 2 <= generated

\* A request asks for the block after one its sender has stored, and the
\* leader is at least CatchUpThreshold blocks further.
GoodReq(m) ==
    /\ m.to = Leader
    /\ m.body.start >= 2
    /\ BlockAt(m.body.start - 1) \in stored[m.body.from]
    /\ m.body.start + CatchUpThreshold <= curSeq[Leader] + 2

\* A reply ends with the head that belongs to its sequence number, and joins
\* the chain of its receiver without a gap.
GoodResp(m) ==
    /\ m.body.from = Leader
    /\ BlockAt(m.body.next + 1) \in m.body.blocks
    /\ \A b \in m.body.blocks :
          /\ b.number >= 1 /\ b.number <= m.body.next + 1
          /\ b = BlockAt(b.number)
          /\ \A k \in 1 .. b.number : BlockAt(k) \in m.body.blocks \cup stored[m.to]
    /\ \E lo, hi \in m.body.blocks : hi.number - lo.number >= CatchUpThreshold - 1

NetInv ==
    \A m \in net :
        /\ m.type = "preprepare"  => GoodProposal(m.body)
        /\ m.type = "catchupReq"  => GoodReq(m)
        /\ m.type = "catchupResp" => GoodResp(m)

IInv ==
    /\ TypeOK
    /\ ChainInv
    /\ LeaderInv
    /\ RoundInv
    /\ PoolInv
    /\ NetInv

-----------------------------------------------------------------------------

\* BlockAt(k) is a block, and two heights have different blocks.
LEMMA BlockAtType ==
    \A k \in Nat : k >= 1 => /\ BlockAt(k) \in Block
                             /\ BlockAt(k).number = k
                             /\ BlockAt(k).hash = k
                             /\ BlockAt(k).parent = k - 1
  BY DEF BlockAt, Block

\* A shard in which every node has only the genesis block satisfies the
\* invariant.
LEMMA InitIInv == Init => IInv
<1> SUFFICES ASSUME Init PROVE IInv
  OBVIOUS
<1> USE NodeAssumption DEF Init
<1>1. TypeOK
  <2>1. /\ exited \in [Node -> BOOLEAN]
        /\ closed \in [Node -> BOOLEAN]
        /\ proposed \in [Node -> BOOLEAN]
        /\ catchupStarted \in [Node -> BOOLEAN]
    OBVIOUS
  <2>2. /\ curSeq \in [Node -> Nat]
        /\ stage \in [Node -> Stages]
        /\ curPreprepare \in [Node -> Proposal \cup {NoPreprepare}]
        /\ prepareSet \in [Node -> SUBSET Node]
        /\ commitSet \in [Node -> SUBSET Node]
        /\ latestSeq \in [Node -> Nat]
    BY DEF Stages
  <2>3. /\ preprepares \in [Node -> SUBSET Proposal]
        /\ prepares \in [Node -> SUBSET Vote]
        /\ commits \in [Node -> SUBSET Vote]
        /\ curHeader \in [Node -> Block]
        /\ stored \in [Node -> SUBSET Block]
    BY DEF Genesis, Block
  <2>4. /\ net \in SUBSET Message
        /\ generated \in Nat
        /\ lost \in Nat
        /\ stopSent \in BOOLEAN
        /\ running \in SUBSET Node
    OBVIOUS
  <2> QED
    BY <2>1, <2>2, <2>3, <2>4 DEF TypeOK
<1>2. ChainInv
  BY DEF ChainInv, BlockAt, Genesis
<1>3. LeaderInv
  BY DEF LeaderInv
<1>4. RoundInv /\ PoolInv /\ NetInv
  BY DEF RoundInv, PoolInv, NetInv
<1> QED
  BY <1>1, <1>2, <1>3, <1>4 DEF IInv

\* The good state of what lies in the network and in the pools survives any
\* step that moves no sequence number back and forgets no block.
LEMMA GoodStable ==
    ASSUME generated \in Nat, generated' \in Nat, generated <= generated',
           curSeq[Leader] \in Nat, curSeq'[Leader] \in Nat,
           curSeq[Leader] <= curSeq'[Leader],
           CatchUpThreshold \in Nat,
           \A n \in Node : stored[n] \subseteq stored'[n]
    PROVE  /\ \A p : GoodProposal(p) => GoodProposal(p)'
           /\ \A m \in Message : m.type = "catchupReq" /\ GoodReq(m) => GoodReq(m)'
           /\ \A m \in Message : m.type = "catchupResp" /\ GoodResp(m) => GoodResp(m)'
<1>1. ASSUME NEW p, GoodProposal(p) PROVE GoodProposal(p)'
  BY <1>1 DEF GoodProposal
<1>2. ASSUME NEW m \in Message, m.type = "catchupReq", GoodReq(m)
      PROVE  GoodReq(m)'
  BY <1>2 DEF GoodReq, Message
<1>3. ASSUME NEW m \in Message, m.type = "catchupResp", GoodResp(m)
      PROVE  GoodResp(m)'
  BY <1>3 DEF GoodResp, Message
<1> QED
  BY <1>1, <1>2, <1>3

\* A step that leaves rounds, chains and proposals alone and sends no
\* proposal, request or reply keeps everything but types for free.
LEMMA QuietStep ==
    ASSUME IInv,
           UNCHANGED <<roundVars, catchupVars, preprepares, chainVars, generated>>,
           \A m \in net' : m \in net \/ m.type \in {"prepare", "commit", "stop"}
    PROVE  ChainInv' /\ LeaderInv' /\ RoundInv' /\ PoolInv' /\ NetInv'
<1> USE DEF IInv, roundVars, catchupVars, chainVars
<1>1. ChainInv'
  BY DEF ChainInv
<1>2. LeaderInv'
  BY DEF LeaderInv
<1>3. RoundInv' /\ PoolInv'
  BY DEF RoundInv, PoolInv, GoodProposal
<1>4. NetInv'
  BY DEF NetInv, GoodProposal, GoodReq, GoodResp
<1> QED
  BY <1>1, <1>2, <1>3, <1>4

\* handleStopConsensus: a stop message only closes the node.
LEMMA StopStep ==
    ASSUME IInv, NEW m \in net, HandleStopConsensus(m.to, m)
    PROVE  IInv'
<1>1. m.to \in Node
  BY DEF IInv, TypeOK, Message
<1>2. TypeOK'
  BY <1>1 DEF HandleStopConsensus, Receive, IInv, TypeOK, roundVars, catchupVars,
              poolVars, chainVars
<1>3. ChainInv' /\ LeaderInv' /\ RoundInv' /\ PoolInv' /\ NetInv'
  <2>1. /\ UNCHANGED <<roundVars, catchupVars, preprepares, chainVars, generated>>
        /\ net' \subseteq net
    BY DEF HandleStopConsensus, Receive, poolVars
  <2> QED
    BY <2>1, QuietStep
<1> QED
  BY <1>2, <1>3 DEF IInv

\* handlePrepare: a vote only goes into the message pool.
LEMMA PrepareStep ==
    ASSUME IInv, NEW m \in net, HandlePrepare(m.to, m)
    PROVE  IInv'
<1>1. m.to \in Node /\ m.body \in Vote
  BY DEF IInv, TypeOK, Message, HandlePrepare, Receive
<1>2. TypeOK'
  BY <1>1 DEF HandlePrepare, Receive, IInv, TypeOK, roundVars, catchupVars,
              lifeVars, chainVars
<1>3. ChainInv' /\ LeaderInv' /\ RoundInv' /\ PoolInv' /\ NetInv'
  <2>1. /\ UNCHANGED <<roundVars, catchupVars, preprepares, chainVars, generated>>
        /\ net' \subseteq net
    BY DEF HandlePrepare, Receive
  <2> QED
    BY <2>1, QuietStep
<1> QED
  BY <1>2, <1>3 DEF IInv

\* handleCommit: a vote only goes into the message pool.
LEMMA CommitStep ==
    ASSUME IInv, NEW m \in net, HandleCommit(m.to, m)
    PROVE  IInv'
<1>1. m.to \in Node /\ m.body \in Vote
  BY DEF IInv, TypeOK, Message, HandleCommit, Receive
<1>2. TypeOK'
  BY <1>1 DEF HandleCommit, Receive, IInv, TypeOK, roundVars, catchupVars,
              lifeVars, chainVars
<1>3. ChainInv' /\ LeaderInv' /\ RoundInv' /\ PoolInv' /\ NetInv'
  <2>1. /\ UNCHANGED <<roundVars, catchupVars, preprepares, chainVars, generated>>
        /\ net' \subseteq net
    BY DEF HandleCommit, Receive
  <2> QED
    BY <2>1, QuietStep
<1> QED
  BY <1>2, <1>3 DEF IInv

\* A lost message and the stop of the supervisor take nothing from the
\* nodes.
LEMMA EnvironmentStep ==
    ASSUME IInv, (\E m \in net : Lose(m)) \/ SupervisorStop
    PROVE  IInv'
<1>1. UNCHANGED <<roundVars, catchupVars, lifeVars, poolVars, chainVars,
                  generated, running>>
  BY DEF Lose, SupervisorStop
<1>2. /\ net' \in SUBSET Message
      /\ lost' \in Nat
      /\ stopSent' \in BOOLEAN
      /\ \A m \in net' : m \in net \/ m.type = "stop"
  <2>1. CASE \E m \in net : Lose(m)
    BY <2>1 DEF Lose, IInv, TypeOK
  <2>2. CASE SupervisorStop
    <3>1. Broadcast("stop", 0) \in SUBSET Message
      BY DEF Broadcast, Message
    <3>2. \A m \in Broadcast("stop", 0) : m.type = "stop"
      BY DEF Broadcast
    <3> QED
      BY <2>2, <3>1, <3>2 DEF SupervisorStop, IInv, TypeOK
  <2> QED
    BY <2>1, <2>2
<1>3. TypeOK'
  BY <1>1, <1>2 DEF IInv, TypeOK, roundVars, catchupVars, lifeVars, poolVars,
                    chainVars
<1>4. ChainInv' /\ LeaderInv' /\ RoundInv' /\ PoolInv' /\ NetInv'
  BY <1>1, <1>2, QuietStep DEF poolVars
<1> QED
  BY <1>3, <1>4 DEF IInv

\* handlePreprepare: a proposal goes into the pool and may raise the latest
\* sequence number known.
LEMMA PreprepareStep ==
    ASSUME IInv, NEW m \in net, HandlePreprepare(m.to, m)
    PROVE  IInv'
<1>1. m.to \in Node /\ m.body \in Proposal /\ GoodProposal(m.body)
  BY DEF IInv, TypeOK, NetInv, Message, HandlePreprepare, Receive
<1>2. UNCHANGED <<roundVars, catchupStarted, lifeVars, prepares, commits,
                  chainVars, generated, lost, stopSent>>
  BY DEF HandlePreprepare, Receive
<1>3. net' \subseteq net /\ running' \in SUBSET Node
  BY <1>1 DEF HandlePreprepare, Receive
<1>4. /\ preprepares' \in [Node -> SUBSET Proposal]
      /\ latestSeq' \in [Node -> Nat]
      /\ \A n \in Node :
            /\ \A p \in preprepares'[n] : p \in preprepares[n] \/ p = m.body
            /\ latestSeq'[n] = latestSeq[n] \/ latestSeq'[n] = m.body.seq
  BY <1>1 DEF HandlePreprepare, Later, IInv, TypeOK, Proposal
<1>5. TypeOK'
  BY <1>2, <1>3, <1>4 DEF IInv, TypeOK, roundVars, lifeVars, chainVars
<1>6. ChainInv' /\ LeaderInv' /\ RoundInv'
  BY <1>2 DEF IInv, ChainInv, LeaderInv, RoundInv, GoodProposal, roundVars, chainVars
<1>7. PoolInv'
  BY <1>1, <1>2, <1>4 DEF IInv, PoolInv, GoodProposal
<1>8. NetInv'
  BY <1>2, <1>3 DEF IInv, NetInv, GoodProposal, GoodReq, GoodResp, roundVars, chainVars
<1> QED
  BY <1>5, <1>6, <1>7, <1>8 DEF IInv

\* The leader answers a request with all the blocks from the requested
\* height to its head: at least CatchUpThreshold of them, without a gap.
LEMMA CatchupReqStep ==
    ASSUME IInv, NEW m \in net, HandleCatchupReq(m.to, m)
    PROVE  IInv'
<1> DEFINE start == m.body.start
           from  == m.body.from
           resp  == [type |-> "catchupResp", to |-> from,
                     body |-> [blocks |-> GetBlocksAfterHeight(Leader, start),
                               next   |-> curSeq[Leader],
                               from   |-> Leader]]
<1>1. /\ m.to = Leader
      /\ m.to \in Node /\ from \in Node
      /\ start \in Nat /\ start >= 2
      /\ BlockAt(start - 1) \in stored[from]
      /\ start + CatchUpThreshold <= curSeq[Leader] + 2
  BY DEF IInv, TypeOK, NetInv, GoodReq, Message, HandleCatchupReq, Receive
<1>2. UNCHANGED <<roundVars, catchupVars, lifeVars, poolVars, chainVars,
                  generated, lost, stopSent>>
  BY DEF HandleCatchupReq
<1>3. net' \subseteq net \cup {resp} /\ running' = {Leader}
  BY <1>1 DEF HandleCatchupReq, Receive
<1> DEFINE sent == GetBlocksAfterHeight(Leader, start)
<1>4. /\ curSeq[Leader] \in Nat
      /\ CatchUpThreshold \in Nat /\ CatchUpThreshold >= 1
      /\ Leader \in Node
  BY NodeAssumption, ThresholdAssumption DEF IInv, TypeOK
<1>5. curHeader[Leader].number = curSeq[Leader] + 1
  BY <1>4, BlockAtType DEF IInv, ChainInv
<1>6. \A k \in 1 .. curSeq[Leader] + 1 : BlockAt(k) \in stored[Leader]
  BY <1>4, <1>5 DEF IInv, ChainInv
<1>7. \A k \in 1 .. start - 1 : BlockAt(k) \in stored[from]
  <2>1. BlockAt(start - 1).number = start - 1
    BY <1>1, BlockAtType
  <2> QED
    BY <1>1, <2>1 DEF IInv, ChainInv
<1>8. \A k \in start .. curSeq[Leader] + 1 : BlockAt(k) \in sent
  BY <1>1, <1>4, <1>5, <1>6, BlockAtType DEF GetBlocksAfterHeight
<1>9. \A b \in sent : /\ b \in Block
                      /\ b.number >= 1 /\ b.number <= curSeq[Leader] + 1
                      /\ b = BlockAt(b.number)
  BY <1>1, <1>4, <1>5 DEF GetBlocksAfterHeight, IInv, TypeOK, ChainInv, Block
<1>10. resp \in Message
  BY <1>1, <1>4, <1>9 DEF Message
<1>11. GoodResp(resp)
  <2>1. BlockAt(curSeq[Leader] + 1) \in sent
    BY <1>1, <1>4, <1>8
  <2>2. BlockAt(start) \in sent
    BY <1>1, <1>4, <1>8
  <2>3. BlockAt(curSeq[Leader] + 1).number - BlockAt(start).number >= CatchUpThreshold - 1
    BY <1>1, <1>4, BlockAtType
  <2>4. ASSUME NEW b \in sent, NEW k \in 1 .. b.number
        PROVE  BlockAt(k) \in sent \cup stored[from]
    BY <1>1, <1>4, <1>7, <1>8, <1>9 DEF Block
  <2> HIDE DEF sent
  <2> QED
    BY <1>9, <2>1, <2>2, <2>3, <2>4 DEF GoodResp, sent
<1>12. TypeOK'
  BY <1>2, <1>3, <1>10, NodeAssumption DEF IInv, TypeOK, roundVars, catchupVars,
          lifeVars, poolVars, chainVars
<1>13. ChainInv' /\ LeaderInv' /\ RoundInv' /\ PoolInv'
  BY <1>2 DEF IInv, ChainInv, LeaderInv, RoundInv, PoolInv, GoodProposal, roundVars,
              catchupVars, poolVars, chainVars
<1>14. NetInv'
  <2>1. PICK r : r = resp
    OBVIOUS
  <2>2. r.type = "catchupResp" /\ GoodResp(r) /\ net' \subseteq net \cup {r}
    BY <1>3, <1>11, <2>1
  <2>3. GoodResp(r)'
    BY <1>2, <2>2 DEF GoodResp, chainVars, roundVars
  <2> QED
    BY <1>2, <2>2, <2>3 DEF IInv, NetInv, GoodProposal, GoodReq, GoodResp,
                            roundVars, chainVars
<1> QED
  BY <1>12, <1>13, <1>14 DEF IInv

\* A replica that adds a reply's blocks ends with the head that belongs to
\* the reply's sequence number, whatever it delivered in the meantime.
LEMMA CatchupRespStep ==
    ASSUME IInv, NEW m \in net, HandleCatchupResp(m.to, m)
    PROVE  IInv'
<1> DEFINE n      == m.to
           blocks == m.body.blocks
           next   == m.body.next
<1>1. /\ n \in Node
      /\ blocks \in SUBSET Block
      /\ next \in Nat
      /\ m \in Message
      /\ m.type = "catchupResp"
      /\ GoodResp(m)
  BY DEF IInv, TypeOK, NetInv, Message, HandleCatchupResp, Receive
<1>2. /\ UNCHANGED <<lifeVars, poolVars, generated, lost, stopSent, latestSeq>>
      /\ net' \subseteq net /\ running' = {n}
  BY DEF HandleCatchupResp, Receive, CatchupOverAndReset, catchupVars
<1>3. CASE ~ (m.body.from = Leader /\ catchupStarted[n])
  <2>1. UNCHANGED <<roundVars, catchupVars, preprepares, chainVars, generated>>
    BY <1>3, <1>2 DEF HandleCatchupResp, poolVars
  <2>2. TypeOK'
    BY <1>1, <1>2, <2>1 DEF IInv, TypeOK, roundVars, catchupVars, lifeVars,
                            poolVars, chainVars
  <2> QED
    BY <1>2, <2>1, <2>2, QuietStep DEF IInv
<1>4. CASE m.body.from = Leader /\ catchupStarted[n]
  <2>1. n # Leader
    BY <1>4 DEF IInv, LeaderInv
  <2>2. HeadAfter(n, blocks) = BlockAt(next + 1)
    <3>1. /\ BlockAt(next + 1) \in blocks
          /\ BlockAt(next + 1).number = next + 1
      BY <1>1, BlockAtType DEF GoodResp
    <3>2. \A b \in blocks : b.number <= next + 1 /\ b = BlockAt(b.number) /\ b.number \in Nat
      BY <1>1 DEF GoodResp, Block
    <3>3. \A b \in blocks : (\A c \in blocks : c.number <= b.number) => b = BlockAt(next + 1)
      BY <1>1, <3>1, <3>2
    <3>4. \A c \in blocks : c.number <= BlockAt(next + 1).number
      BY <3>1, <3>2
    <3> HIDE DEF n, blocks, next
    <3> QED
      BY <3>1, <3>3, <3>4 DEF HeadAfter
  <2>3. /\ curHeader' = [curHeader EXCEPT ![n] = BlockAt(next + 1)]
        /\ stored' = [stored EXCEPT ![n] = @ \cup blocks]
        /\ CatchupOverAndReset(n, next)
    BY <1>4, <2>2 DEF HandleCatchupResp
  <2>4. /\ BlockAt(next + 1) \in blocks /\ BlockAt(next + 1) \in Block
    BY <1>1, BlockAtType DEF GoodResp
  <2> HIDE DEF n, blocks, next
  <2>5. TypeOK'
    <3>1. /\ curHeader' \in [Node -> Block]
          /\ stored' \in [Node -> SUBSET Block]
      BY <1>1, <2>3, <2>4 DEF IInv, TypeOK
    <3>2. /\ curSeq' \in [Node -> Nat]
          /\ stage' \in [Node -> Stages]
          /\ curPreprepare' \in [Node -> Proposal \cup {NoPreprepare}]
          /\ prepareSet' \in [Node -> SUBSET Node]
          /\ commitSet' \in [Node -> SUBSET Node]
      BY <1>1, <2>3 DEF IInv, TypeOK, CatchupOverAndReset, Stages
    <3>3. /\ proposed' \in [Node -> BOOLEAN]
          /\ catchupStarted' \in [Node -> BOOLEAN]
      BY <1>1, <2>3 DEF IInv, TypeOK, CatchupOverAndReset
    <3> QED
      BY <1>1, <1>2, <3>1, <3>2, <3>3 DEF IInv, TypeOK, lifeVars, poolVars
  <2>6. \A x \in Node : stored[x] \subseteq stored'[x]
    BY <1>1, <2>3 DEF IInv, TypeOK
  <2>7. ChainInv'
    <3>1. \A x \in Node \ {n} : /\ curHeader'[x] = curHeader[x]
                                /\ curSeq'[x] = curSeq[x]
                                /\ stored'[x] = stored[x]
      BY <1>1, <2>3 DEF IInv, TypeOK, CatchupOverAndReset
    <3>2. /\ curHeader'[n] = BlockAt(next + 1)
          /\ curSeq'[n] = next
          /\ stored'[n] = stored[n] \cup blocks
      BY <1>1, <2>3 DEF IInv, TypeOK, CatchupOverAndReset
    <3>3. \A b \in blocks : /\ b.number >= 1 /\ b = BlockAt(b.number)
                            /\ \A k \in 1 .. b.number : BlockAt(k) \in stored'[n]
      BY <1>1, <3>2 DEF GoodResp, n, blocks
    <3>4. \A b \in stored[n] : /\ b.number >= 1 /\ b = BlockAt(b.number)
                               /\ \A k \in 1 .. b.number : BlockAt(k) \in stored'[n]
      BY <1>1, <3>2 DEF IInv, ChainInv
    <3> QED
      BY <2>4, <3>1, <3>2, <3>3, <3>4 DEF IInv, ChainInv
  <2>8. /\ curSeq'[Leader] = curSeq[Leader]
        /\ proposed'[Leader] = proposed[Leader]
        /\ catchupStarted'[Leader] = catchupStarted[Leader]
    BY <1>1, <2>1, <2>3, NodeAssumption DEF IInv, TypeOK, CatchupOverAndReset
  <2>9. LeaderInv'
    BY <1>2, <2>8 DEF IInv, LeaderInv
  <2>10. RoundInv'
    BY <1>1, <1>2, <2>3 DEF IInv, TypeOK, RoundInv, GoodProposal, CatchupOverAndReset
  <2>11. PoolInv'
    BY <1>2 DEF IInv, PoolInv, GoodProposal, poolVars
  <2>12. NetInv'
    <3>1. /\ generated \in Nat /\ generated' = generated
          /\ curSeq[Leader] \in Nat /\ curSeq'[Leader] \in Nat
          /\ CatchUpThreshold \in Nat
      BY <1>2, <2>8, NodeAssumption, ThresholdAssumption DEF IInv, TypeOK
    <3>2. /\ \A p : GoodProposal(p) => GoodProposal(p)'
          /\ \A o \in Message : o.type = "catchupReq" /\ GoodReq(o) => GoodReq(o)'
          /\ \A o \in Message : o.type = "catchupResp" /\ GoodResp(o) => GoodResp(o)'
      BY <2>6, <2>8, <3>1, GoodStable
    <3> QED
      BY <1>2, <3>2 DEF IInv, TypeOK, NetInv
  <2> QED
    BY <2>5, <2>7, <2>9, <2>10, <2>11, <2>12 DEF IInv
<1> QED
  BY <1>3, <1>4

\* A tick delivers only the proposal of the current round, proposes only
\* the block after the head, and asks only for what follows the head.
LEMMA TickStep ==
    ASSUME IInv, NEW n \in Node, NEW pp \in CuratedPreprepares(n),
           NEW propose \in BOOLEAN, Tick(n, pp, propose)
    PROVE  IInv'
<1> DEFINE curated   == pp # NoPreprepare
           pSet      == IF curated THEN prepareSet[n] \cup Voters(prepares, n, pp)
                        ELSE prepareSet[n]
           cSet      == IF curated THEN commitSet[n] \cup Voters(commits, n, pp)
                        ELSE commitSet[n]
           toPrepare == stage[n] = "preprepare" /\ curated
           toCommit  == /\ toPrepare \/ stage[n] = "prepare"
                        /\ Cardinality(pSet) >= Quorum
           toDeliver == /\ toCommit \/ stage[n] = "commit"
                        /\ Cardinality(cSet) >= Quorum
           seq       == IF toDeliver THEN curSeq[n] + 1 ELSE curSeq[n]
           head      == IF toDeliver THEN pp.block ELSE curHeader[n]
           vote      == [seq |-> pp.seq, digest |-> pp.block.hash, from |-> n]
           block     == GenerateBlock(head)
           catchup   == n # Leader /\ CatchupReady(n, seq)
           proposal  == [seq |-> seq, block |-> block]
           request   == [type |-> "catchupReq", to |-> Leader,
                         body |-> [start |-> StartBlockHeight(head), from |-> n]]
<1>1. /\ curSeq' = [curSeq EXCEPT ![n] = seq]
      /\ curPreprepare' = [curPreprepare EXCEPT
                              ![n] = IF toDeliver THEN NoPreprepare ELSE pp]
      /\ prepareSet' = [prepareSet EXCEPT ![n] = IF toDeliver THEN {} ELSE pSet]
      /\ commitSet' = [commitSet EXCEPT ![n] = IF toDeliver THEN {} ELSE cSet]
      /\ proposed' = [proposed EXCEPT ![n] = propose \/ (@ /\ ~toDeliver)]
      /\ curHeader' = [curHeader EXCEPT ![n] = head]
      /\ stored' = [stored EXCEPT ![n] = IF toDeliver THEN @ \cup {head} ELSE @]
      /\ generated' = IF propose THEN generated + 1 ELSE generated
      /\ catchupStarted' = [catchupStarted EXCEPT ![n] = @ \/ catchup]
      /\ exited' = [exited EXCEPT ![n] = LeavesLoop(n)]
      /\ UNCHANGED <<latestSeq, closed, lost, stopSent>>
      /\ running' = {}
  BY DEF Tick
<1>2. /\ preprepares' = IF curPreprepare[n] = NoPreprepare
                        THEN [preprepares EXCEPT ![n] = Unread(preprepares, n)]
                        ELSE preprepares
      /\ prepares' = IF curated
                     THEN [prepares EXCEPT ![n] = Unread(prepares, n)]
                     ELSE prepares
      /\ commits' = IF curated
                    THEN [commits EXCEPT ![n] = Unread(commits, n)]
                    ELSE commits
  BY DEF Tick
<1>3. stage' = [stage EXCEPT ![n] = CASE toDeliver -> "preprepare"
                                      [] toCommit /\ ~toDeliver -> "commit"
                                      [] toPrepare /\ ~toCommit -> "prepare"
                                      [] OTHER -> @]
  BY DEF Tick
<1>4. net' = net
             \cup (IF toPrepare THEN Broadcast("prepare", vote) ELSE {})
             \cup (IF toCommit THEN Broadcast("commit", vote) ELSE {})
             \cup (IF propose THEN Broadcast("preprepare", proposal) ELSE {})
             \cup (IF catchup THEN {request} ELSE {})
  BY DEF Tick
<1>5. propose => MayPropose(n, toDeliver, curated)
  BY DEF Tick
<1>6. curated => /\ pp \in Proposal
                 /\ GoodProposal(pp)
                 /\ pp.seq = curSeq[n]
  <2>1. CASE curPreprepare[n] # NoPreprepare
    BY <2>1 DEF CuratedPreprepares, IInv, TypeOK, RoundInv
  <2>2. CASE curPreprepare[n] = NoPreprepare
    BY <2>2 DEF CuratedPreprepares, IInv, TypeOK, PoolInv
  <2> QED
    BY <2>1, <2>2
<1>7. toDeliver => curated
  <2>1. stage[n] # "preprepare" => curPreprepare[n] # NoPreprepare
    BY DEF IInv, RoundInv
  <2>2. curPreprepare[n] # NoPreprepare => curated
    BY DEF CuratedPreprepares
  <2> QED
    BY <2>1, <2>2
<1>8. toCommit => curated
  <2>1. stage[n] # "preprepare" => curPreprepare[n] # NoPreprepare
    BY DEF IInv, RoundInv
  <2>2. curPreprepare[n] # NoPreprepare => curated
    BY DEF CuratedPreprepares
  <2> QED
    BY <2>1, <2>2
<1>9. pSet \in SUBSET Node /\ cSet \in SUBSET Node
  BY DEF Voters, IInv, TypeOK, Vote
<1>10. toPrepare => curated
  OBVIOUS
<1>11. /\ toDeliver \in BOOLEAN /\ curated \in BOOLEAN /\ catchup \in BOOLEAN
       /\ toPrepare \in BOOLEAN /\ toCommit \in BOOLEAN
  OBVIOUS
<1>12. /\ seq = IF toDeliver THEN curSeq[n] + 1 ELSE curSeq[n]
       /\ head = IF toDeliver THEN pp.block ELSE curHeader[n]
       /\ block = GenerateBlock(head)
       /\ catchup => n # Leader /\ CatchupReady(n, seq)
       /\ curated => vote = [seq |-> pp.seq, digest |-> pp.block.hash, from |-> n]
       /\ proposal = [seq |-> seq, block |-> block]
       /\ request = [type |-> "catchupReq", to |-> Leader,
                     body |-> [start |-> StartBlockHeight(head), from |-> n]]
       /\ ~curated => pp = NoPreprepare
       /\ toPrepare /\ ~toCommit => ~toDeliver
  BY <1>7
<1> HIDE DEF curated, pSet, cSet, toPrepare, toCommit, toDeliver, seq, head, vote,
             block, catchup, proposal, request
<1>13. /\ curSeq[n] \in Nat /\ seq \in Nat /\ curSeq[n] <= seq
       /\ head = BlockAt(seq + 1) /\ head \in Block
       /\ curHeader[n] = BlockAt(curSeq[n] + 1)
  <2>1. curSeq[n] \in Nat /\ curHeader[n] = BlockAt(curSeq[n] + 1)
    BY DEF IInv, TypeOK, ChainInv
  <2>2. seq \in Nat /\ curSeq[n] <= seq
    BY <1>12, <2>1
  <2>3. head = BlockAt(seq + 1)
    BY <1>6, <1>7, <1>12, <2>1 DEF GoodProposal
  <2> QED
    BY <2>1, <2>2, <2>3, BlockAtType
<1>14. /\ generated \in Nat /\ generated' \in Nat /\ generated <= generated'
  BY <1>1 DEF IInv, TypeOK
<1>15. propose => n = Leader /\ generated = seq + 1
  <2>1. propose => n = Leader /\ (toDeliver \/ ~proposed[n])
    BY <1>5 DEF MayPropose
  <2>2. generated = curSeq[Leader] + (IF proposed[Leader] THEN 2 ELSE 1)
    BY DEF IInv, LeaderInv
  <2>3. toDeliver => curSeq[n] + 2 <= generated
    BY <1>6, <1>7 DEF GoodProposal
  <2> QED
    BY <1>12, <1>13, <2>1, <2>2, <2>3
<1>16. propose => proposal = [seq |-> seq, block |-> BlockAt(seq + 2)]
  BY <1>12, <1>13, <1>15, BlockAtType DEF GenerateBlock, BlockAt
<1>17. ASSUME catchup
       PROVE  \E r \in Message : r = request /\ r.type = "catchupReq" /\ GoodReq(r)'
  <2>1. latestSeq[n] >= seq + CatchUpThreshold /\ n # Leader
    BY <1>12, <1>17 DEF CatchupReady
  <2>2. latestSeq[n] + 2 <= generated /\ latestSeq[n] \in Nat
    BY <1>13, <2>1, ThresholdAssumption DEF IInv, TypeOK, PoolInv
  <2>3. /\ curSeq[Leader] \in Nat /\ generated <= curSeq[Leader] + 2
        /\ curSeq'[Leader] = curSeq[Leader]
    BY <1>1, <2>1, NodeAssumption DEF IInv, TypeOK, LeaderInv
  <2>4. seq + 2 + CatchUpThreshold <= curSeq'[Leader] + 2
    BY <1>13, <1>14, <2>1, <2>2, <2>3, ThresholdAssumption
  <2>5. StartBlockHeight(head) = seq + 2
    BY <1>13, BlockAtType DEF StartBlockHeight
  <2>6. BlockAt(seq + 1) \in stored'[n]
    BY <1>1, <1>12, <1>13 DEF IInv, TypeOK, ChainInv
  <2>7. PICK r : r = request
    OBVIOUS
  <2>8. r = [type |-> "catchupReq", to |-> Leader,
             body |-> [start |-> seq + 2, from |-> n]]
    BY <1>12, <2>5, <2>7
  <2>9. r \in Message
    BY <1>13, <2>8, NodeAssumption DEF Message
  <2>10. GoodReq(r)'
    BY <1>13, <2>4, <2>6, <2>8 DEF GoodReq
  <2> QED
    BY <2>7, <2>8, <2>9, <2>10
<1>18. TypeOK'
  <2>1. /\ curSeq' \in [Node -> Nat]
        /\ curPreprepare' \in [Node -> Proposal \cup {NoPreprepare}]
        /\ prepareSet' \in [Node -> SUBSET Node]
        /\ commitSet' \in [Node -> SUBSET Node]
    BY <1>1, <1>6, <1>9, <1>12, <1>13 DEF IInv, TypeOK
  <2>2. stage' \in [Node -> Stages]
    BY <1>3, <1>11 DEF IInv, TypeOK, Stages
  <2>3. /\ proposed' \in [Node -> BOOLEAN]
        /\ catchupStarted' \in [Node -> BOOLEAN]
        /\ exited' \in [Node -> BOOLEAN]
    BY <1>1 DEF IInv, TypeOK, LeavesLoop
  <2>4. /\ preprepares' \in [Node -> SUBSET Proposal]
        /\ prepares' \in [Node -> SUBSET Vote]
        /\ commits' \in [Node -> SUBSET Vote]
    BY <1>2 DEF IInv, TypeOK, Unread
  <2>5. /\ curHeader' \in [Node -> Block]
        /\ stored' \in [Node -> SUBSET Block]
    BY <1>1, <1>13 DEF IInv, TypeOK
  <2>6. net' \in SUBSET Message
    <3>1. curated => /\ Broadcast("prepare", vote) \in SUBSET Message
                     /\ Broadcast("commit", vote) \in SUBSET Message
      <4>1. curated => vote \in Vote
        BY <1>6, <1>12 DEF Vote, Proposal, Block
      <4> QED
        BY <4>1 DEF Broadcast, Message
    <3>2. propose => Broadcast("preprepare", proposal) \in SUBSET Message
      <4>1. propose => proposal \in Proposal
        BY <1>13, <1>16, BlockAtType DEF Proposal
      <4> QED
        BY <4>1 DEF Broadcast, Message
    <3>3. toPrepare => curated
      BY <1>10
    <3>4. net \in SUBSET Message
      BY DEF IInv, TypeOK
    <3> QED
      BY <1>4, <1>8, <1>17, <3>1, <3>2, <3>3, <3>4
  <2> QED
    BY <1>1, <1>14, <2>1, <2>2, <2>3, <2>4, <2>5, <2>6 DEF IInv, TypeOK
<1>19. \A x \in Node : stored[x] \subseteq stored'[x]
  BY <1>1 DEF IInv, TypeOK
<1>20. ChainInv'
  <2>1. \A x \in Node \ {n} : /\ curHeader'[x] = curHeader[x]
                              /\ curSeq'[x] = curSeq[x]
                              /\ stored'[x] = stored[x]
    BY <1>1 DEF IInv, TypeOK
  <2>2. /\ curHeader'[n] = BlockAt(seq + 1)
        /\ curSeq'[n] = seq
        /\ stored'[n] = IF toDeliver THEN stored[n] \cup {BlockAt(seq + 1)} ELSE stored[n]
    BY <1>1, <1>13 DEF IInv, TypeOK
  <2>3. \A k \in 1 .. curSeq[n] + 1 : BlockAt(k) \in stored[n]
    <3>1. BlockAt(curSeq[n] + 1) \in stored[n] /\ BlockAt(curSeq[n] + 1).number = curSeq[n] + 1
      BY <1>13, BlockAtType DEF IInv, ChainInv
    <3> QED
      BY <1>13, <3>1 DEF IInv, ChainInv
  <2>4. \A k \in 1 .. seq + 1 : BlockAt(k) \in stored'[n]
    BY <1>12, <1>13, <2>2, <2>3
  <2>5. /\ BlockAt(seq + 1).number = seq + 1
        /\ BlockAt(seq + 1) \in stored'[n]
    BY <1>13, <2>4, BlockAtType
  <2>6. \A b \in stored'[n] : /\ b.number >= 1 /\ b = BlockAt(b.number)
                              /\ \A k \in 1 .. b.number : BlockAt(k) \in stored'[n]
    <3>1. ASSUME NEW b \in stored[n]
          PROVE  /\ b.number >= 1 /\ b = BlockAt(b.number)
                 /\ \A k \in 1 .. b.number : BlockAt(k) \in stored'[n]
      BY <1>19 DEF IInv, ChainInv
    <3>2. \A b \in stored'[n] : b \in stored[n] \/ b = BlockAt(seq + 1)
      BY <2>2
    <3> QED
      BY <1>13, <2>4, <2>5, <3>1, <3>2
  <2> QED
    BY <2>1, <2>2, <2>5, <2>6 DEF IInv, ChainInv
<1>21. LeaderInv'
  <2>1. generated = curSeq[Leader] + (IF proposed[Leader] THEN 2 ELSE 1)
    BY DEF IInv, LeaderInv
  <2>2. toDeliver => curSeq[n] + 2 <= generated
    BY <1>6, <1>7 DEF GoodProposal
  <2>3. catchupStarted'[Leader] = FALSE
    BY <1>1, <1>12, NodeAssumption DEF IInv, TypeOK, LeaderInv
  <2>4. CASE n = Leader
    <3>1. curSeq'[Leader] = seq /\ proposed'[Leader] = (propose \/ (proposed[n] /\ ~toDeliver))
      BY <1>1, <2>4 DEF IInv, TypeOK
    <3>2. CASE propose
      <4>1. proposed'[Leader]
        BY <3>1, <3>2
      <4>2. generated' = seq + 2
        BY <1>1, <1>13, <1>15, <3>2
      <4> QED
        BY <2>3, <3>1, <4>1, <4>2 DEF LeaderInv
    <3>3. CASE ~propose /\ toDeliver
      <4>1. ~proposed'[Leader]
        BY <3>1, <3>3
      <4>2. generated' = seq + 1
        BY <1>1, <1>12, <1>13, <1>14, <2>1, <2>2, <2>4, <3>3
      <4> QED
        BY <2>3, <3>1, <4>1, <4>2 DEF LeaderInv
    <3>4. CASE ~propose /\ ~toDeliver
      <4>1. proposed'[Leader] <=> proposed[Leader]
        BY <2>4, <3>1, <3>4
      <4>2. generated' = generated /\ seq = curSeq[Leader]
        BY <1>1, <1>12, <2>4, <3>4
      <4> QED
        BY <2>1, <2>3, <3>1, <4>1, <4>2 DEF LeaderInv
    <3> QED
      BY <1>11, <3>2, <3>3, <3>4
  <2>5. CASE n # Leader
    BY <1>1, <1>15, <2>1, <2>3, <2>5, NodeAssumption DEF IInv, TypeOK, LeaderInv
  <2> QED
    BY <2>4, <2>5
<1>22. /\ \A p : GoodProposal(p) => GoodProposal(p)'
       /\ \A o \in Message : o.type = "catchupReq" /\ GoodReq(o) => GoodReq(o)'
       /\ \A o \in Message : o.type = "catchupResp" /\ GoodResp(o) => GoodResp(o)'
  <2>1. /\ curSeq[Leader] \in Nat /\ curSeq'[Leader] \in Nat
        /\ curSeq[Leader] <= curSeq'[Leader]
    BY <1>1, <1>13, NodeAssumption DEF IInv, TypeOK
  <2> QED
    BY <1>14, <1>19, <2>1, GoodStable, ThresholdAssumption
<1>23. RoundInv'
  <2>1. \A x \in Node \ {n} : /\ curPreprepare'[x] = curPreprepare[x]
                              /\ curSeq'[x] = curSeq[x]
                              /\ stage'[x] = stage[x]
    BY <1>1, <1>3 DEF IInv, TypeOK
  <2>2. /\ curPreprepare'[n] = IF toDeliver THEN NoPreprepare ELSE pp
        /\ curSeq'[n] = seq
    BY <1>1 DEF IInv, TypeOK
  <2>3. stage'[n] # "preprepare" => ~toDeliver /\ curated
    <3>1. stage[n] # "preprepare" => curated
      BY DEF IInv, RoundInv, CuratedPreprepares, curated
    <3>2. stage'[n] = CASE toDeliver -> "preprepare"
                        [] toCommit /\ ~toDeliver -> "commit"
                        [] toPrepare /\ ~toCommit -> "prepare"
                        [] OTHER -> stage[n]
      BY <1>3 DEF IInv, TypeOK
    <3>3. toDeliver => stage'[n] = "preprepare"
      BY <1>11, <1>12, <3>2
    <3>4. toCommit \/ toPrepare \/ stage'[n] = stage[n] \/ toDeliver
      BY <1>11, <3>2
    <3> QED
      BY <1>8, <1>10, <3>1, <3>3, <3>4
  <2>4. curated <=> pp # NoPreprepare
    BY DEF curated
  <2>5. ASSUME NEW x \in Node, x # n
        PROVE  /\ curPreprepare'[x] # NoPreprepare =>
                     /\ curPreprepare'[x].seq = curSeq'[x]
                     /\ GoodProposal(curPreprepare[x])'
               /\ stage'[x] # "preprepare" => curPreprepare'[x] # NoPreprepare
    BY <1>22, <2>1, <2>5 DEF IInv, RoundInv
  <2>6. /\ curPreprepare'[n] # NoPreprepare =>
              /\ curPreprepare'[n].seq = curSeq'[n]
              /\ GoodProposal(curPreprepare[n])'
        /\ stage'[n] # "preprepare" => curPreprepare'[n] # NoPreprepare
    BY <1>6, <1>12, <1>22, <2>2, <2>3, <2>4
  <2> QED
    BY <2>5, <2>6 DEF RoundInv
<1>24. PoolInv'
  <2>1. \A x \in Node : preprepares'[x] \subseteq preprepares[x]
    BY <1>2 DEF Unread, IInv, TypeOK
  <2>2. \A x \in Node : latestSeq[x] \in Nat /\ latestSeq'[x] = latestSeq[x]
    BY <1>1 DEF IInv, TypeOK
  <2> QED
    BY <1>14, <1>22, <2>1, <2>2 DEF IInv, PoolInv
<1>25. NetInv'
  <2>1. \A m \in net : /\ m.type = "preprepare"  => GoodProposal(m.body)'
                       /\ m.type = "catchupReq"  => GoodReq(m)'
                       /\ m.type = "catchupResp" => GoodResp(m)'
    BY <1>22 DEF IInv, TypeOK, NetInv
  <2>2. \A m \in net' : \/ m \in net
                        \/ m.type \in {"prepare", "commit"}
                        \/ propose /\ m.type = "preprepare" /\ m.body = proposal
                        \/ catchup /\ m = request
    BY <1>4 DEF Broadcast
  <2>3. propose => \E p : p = proposal /\ GoodProposal(p)'
    BY <1>1, <1>13, <1>15, <1>16 DEF GoodProposal
  <2> QED
    BY <1>17, <2>1, <2>2, <2>3 DEF NetInv
<1> QED
  BY <1>18, <1>20, <1>21, <1>23, <1>24, <1>25 DEF IInv

\* Every step of a shard keeps the invariant.
LEMMA NextIInv == IInv /\ [Next]_vars => IInv'
<1> SUFFICES ASSUME IInv, [Next]_vars PROVE IInv'
  OBVIOUS
<1>1. CASE \E n \in Node : Run(n)
  BY <1>1, TickStep DEF Run
<1>2. CASE \E m \in net : HandleMessage(m.to, m)
  BY <1>2, StopStep, PreprepareStep, PrepareStep, CommitStep, CatchupReqStep,
     CatchupRespStep DEF HandleMessage
<1>3. CASE (\E m \in net : Lose(m)) \/ SupervisorStop
  BY <1>3, EnvironmentStep
<1>4. CASE UNCHANGED vars
  <2>1. TypeOK'
    BY <1>4 DEF IInv, TypeOK, vars, roundVars, catchupVars, lifeVars, poolVars,
                chainVars, worldVars
  <2>2. ChainInv' /\ LeaderInv' /\ RoundInv' /\ PoolInv' /\ NetInv'
    BY <1>4, QuietStep DEF vars, poolVars, worldVars
  <2> QED
    BY <2>1, <2>2 DEF IInv
<1> QED
  BY <1>1, <1>2, <1>3, <1>4 DEF Next

\* Sequence number, chain, round, pool and network of every node fit
\* together in every reachable state.
THEOREM Invariance == Spec => []IInv
  BY InitIInv, NextIInv, PTL DEF Spec

\* Every variable keeps its type, in particular the sequence numbers stay
\* natural numbers and the messages are well formed.
THEOREM TypeCorrect == Spec => []TypeOK
<1>1. IInv => TypeOK
  BY DEF IInv
<1> QED
  BY <1>1, Invariance, PTL

\* No two nodes of a shard ever store different blocks at one height, for
\* any number of nodes and crashes, whatever messages are lost and wherever
\* catch-up replies arrive.
THEOREM ShardAgreement == Spec => []Agreement
<1>1. IInv => Agreement
  BY DEF IInv, ChainInv, Agreement
<1> QED
  BY <1>1, Invariance, PTL

\* The sequence number of consensusMeta and the height of the chain of a
\* node never drift apart.
THEOREM SeqIsHeight == Spec => []SeqMatchesHeight
<1>1. IInv => SeqMatchesHeight
  BY BlockAtType DEF IInv, TypeOK, ChainInv, SeqMatchesHeight
<1> QED
  BY <1>1, Invariance, PTL

\* The block storage of a node has no gap: the parent of every stored block
\* is stored too.
THEOREM NoGap == Spec => []ChainComplete
<1>1. ASSUME IInv, NEW n \in Node, NEW b \in stored[n] \ {Genesis}
      PROVE  \E p \in stored[n] : p.hash = b.parent
  <2>1. /\ b.number \in Nat /\ b.number >= 1
        /\ b = BlockAt(b.number)
        /\ \A k \in 1 .. b.number : BlockAt(k) \in stored[n]
    BY <1>1 DEF IInv, TypeOK, ChainInv, Block
  <2>2. b.number # 1
    BY <1>1, <2>1 DEF BlockAt, Genesis
  <2>3. BlockAt(b.number - 1) \in stored[n]
    BY <2>1, <2>2
  <2>4. /\ BlockAt(b.number - 1).hash = b.number - 1
        /\ BlockAt(b.number).parent = b.number - 1
    BY <2>1, <2>2, BlockAtType
  <2> QED
    BY <2>1, <2>3, <2>4
<1>2. IInv => ChainComplete
  BY <1>1 DEF IInv, ChainInv, ChainComplete
<1> QED
  BY <1>2, Invariance, PTL

\* A catch-up reply always spans at least CatchUpThreshold heights.
THEOREM RepliesHelp == Spec => []CatchUpHelps
<1>1. IInv => CatchUpHelps
  BY DEF IInv, NetInv, GoodResp, CatchUpHelps
<1> QED
  BY <1>1, Invariance, PTL

-----------------------------------------------------------------------------
(***************************************************************************)
(* What a quorum of votes stands for, as long as no replica uses Catch-Up  *)
(***************************************************************************)

NoCatchUp == \A n \in Node : ~catchupStarted[n]

\* Node n has stored the block at height k or works on it.
Holds(n, k) == BlockAt(k) \in stored[n] \/ curPreprepare[n].block = BlockAt(k)

\* Whoever has voted to commit a block holds it, wherever the vote is.
VoteInv ==
    /\ \A m \in net : m.type = "commit" => Holds(m.body.from, m.body.digest)
    /\ \A n \in Node : \A v \in commits[n] : Holds(v.from, v.digest)
    /\ \A n \in Node : curPreprepare[n] # NoPreprepare =>
          \A q \in commitSet[n] : Holds(q, curPreprepare[n].block.hash)
    /\ \A n \in Node : curPreprepare[n] = NoPreprepare => commitSet[n] = {}

\* A delivered block has been voted for.
QuorumInv ==
    \A n \in Node : \A k \in Nat \ {0, 1} :
        BlockAt(k) \in stored[n] => Cardinality({m \in Node : Holds(m, k)}) >= Quorum

HeldInv == VoteInv /\ QuorumInv

LEMMA HeldInit == Init => HeldInv
<1> SUFFICES ASSUME Init PROVE HeldInv  OBVIOUS
<1>1. VoteInv  BY DEF Init, VoteInv
<1>2. ASSUME NEW n \in Node, NEW k \in Nat \ {0, 1}
      PROVE  BlockAt(k) \notin stored[n]
  <2>1. BlockAt(k).number = k /\ Genesis.number = 1  BY <1>2, BlockAtType DEF Genesis
  <2> QED  BY <2>1, <1>2 DEF Init
<1> QED  BY <1>1, <1>2 DEF HeldInv, QuorumInv

LEMMA HoldersFinite ==
  ASSUME NEW k
  PROVE  /\ IsFiniteSet({m \in Node : Holds(m, k)})
         /\ Cardinality({m \in Node : Holds(m, k)}) \in Nat
         /\ \A S \in SUBSET {m \in Node : Holds(m, k)} :
               Cardinality(S) <= Cardinality({m \in Node : Holds(m, k)})
<1> DEFINE H == {m \in Node : Holds(m, k)}
<1>1. IsFiniteSet(H)  BY NodeAssumption, FS_Subset
<1> QED  BY <1>1, FS_CardinalityType, FS_Subset

LEMMA QuorumNat == Quorum \in Nat
<1>1. NodeNum \in Nat  BY NodeAssumption, FS_CardinalityType DEF NodeNum
<1>2. NodeNum # 0  BY NodeAssumption, FS_EmptySet DEF NodeNum
<1> QED  BY <1>1, <1>2 DEF Quorum

\* Blocks that stay held by a quorum stay so when every node keeps what it
\* holds.
LEMMA QuorumKept ==
  ASSUME QuorumInv, \A m \in Node, k \in Nat : Holds(m, k) => Holds(m, k)',
         \A n \in Node : \A k \in Nat \ {0, 1} :
            BlockAt(k) \in stored'[n] =>
               \/ BlockAt(k) \in stored[n]
               \/ \E S \in SUBSET Node : Cardinality(S) >= Quorum /\ \A q \in S : Holds(q, k)
  PROVE  QuorumInv'
<1> SUFFICES ASSUME NEW n \in Node, NEW k \in Nat \ {0, 1}, BlockAt(k) \in stored'[n]
             PROVE  Cardinality({m \in Node : Holds(m, k)'}) >= Quorum
  BY DEF QuorumInv
<1> DEFINE H  == {m \in Node : Holds(m, k)}
           HH == {m \in Node : Holds(m, k)'}
<1>1. Cardinality(H) >= Quorum
  <2>1. CASE BlockAt(k) \in stored[n]  BY <2>1 DEF QuorumInv
  <2>2. CASE \E S \in SUBSET Node : Cardinality(S) >= Quorum /\ \A q \in S : Holds(q, k)
    <3>1. PICK S \in SUBSET Node : Cardinality(S) >= Quorum /\ \A q \in S : Holds(q, k)  BY <2>2
    <3>2. S \in SUBSET H  BY <3>1
    <3>3. Cardinality(S) <= Cardinality(H) /\ Cardinality(H) \in Nat  BY <3>2, HoldersFinite
    <3>4. IsFiniteSet(S)  BY <3>2, HoldersFinite, FS_Subset
    <3>5. Cardinality(S) \in Nat  BY <3>4, FS_CardinalityType
    <3> QED  BY <3>1, <3>3, <3>5, QuorumNat
  <2> QED  BY <2>1, <2>2
<1>2. H \subseteq HH  OBVIOUS
<1>3. IsFiniteSet(HH)  BY NodeAssumption, FS_Subset
<1>4. Cardinality(H) <= Cardinality(HH)  BY <1>2, <1>3, FS_Subset
<1>5. Cardinality(H) \in Nat /\ Cardinality(HH) \in Nat
  BY <1>2, <1>3, FS_Subset, FS_CardinalityType
<1> QED  BY <1>1, <1>4, <1>5, QuorumNat

\* A step that leaves rounds and chains alone and sends no vote.
LEMMA HeldQuiet ==
  ASSUME HeldInv, UNCHANGED <<roundVars, chainVars>>, TypeOK,
         \A m \in net' : m.type = "commit" => m \in net,
         \A n \in Node : \A v \in commits'[n] :
            \/ v \in commits[n]
            \/ \E m \in net : m.type = "commit" /\ m.body = v
  PROVE  HeldInv'
<1>1. UNCHANGED <<curPreprepare, commitSet, stored>>  BY DEF roundVars, chainVars
<1>2. \A m, k : Holds(m, k)' <=> Holds(m, k)  BY <1>1 DEF Holds
<1>3. VoteInv'  BY <1>1, <1>2 DEF VoteInv, HeldInv
<1>4. QuorumInv'  BY <1>1, <1>2, QuorumKept DEF HeldInv
<1> QED  BY <1>3, <1>4 DEF HeldInv

LEMMA HeldTick ==
  ASSUME IInv, HeldInv, NEW n \in Node, NEW pp \in CuratedPreprepares(n),
         NEW propose \in BOOLEAN, Tick(n, pp, propose)
  PROVE  HeldInv'
<1> DEFINE curated   == pp # NoPreprepare
           pSet      == IF curated THEN prepareSet[n] \cup Voters(prepares, n, pp)
                        ELSE prepareSet[n]
           cSet      == IF curated THEN commitSet[n] \cup Voters(commits, n, pp)
                        ELSE commitSet[n]
           toPrepare == stage[n] = "preprepare" /\ curated
           toCommit  == /\ toPrepare \/ stage[n] = "prepare"
                        /\ Cardinality(pSet) >= Quorum
           toDeliver == /\ toCommit \/ stage[n] = "commit"
                        /\ Cardinality(cSet) >= Quorum
           vote      == [seq |-> pp.seq, digest |-> pp.block.hash, from |-> n]
           head      == IF toDeliver THEN pp.block ELSE curHeader[n]
<1>1. /\ commits' = IF curated THEN [commits EXCEPT ![n] = Unread(commits, n)] ELSE commits
      /\ curPreprepare' = [curPreprepare EXCEPT ![n] = IF toDeliver THEN NoPreprepare ELSE pp]
      /\ commitSet' = [commitSet EXCEPT ![n] = IF toDeliver THEN {} ELSE cSet]
      /\ stored' = [stored EXCEPT ![n] = IF toDeliver THEN @ \cup {head} ELSE @]
  BY DEF Tick
<1>2. \A m \in net' : m.type = "commit" => m \in net \/ (toCommit /\ m.body = vote)
  <2> DEFINE seq      == IF toDeliver THEN curSeq[n] + 1 ELSE curSeq[n]
             proposal == [seq |-> seq, block |-> GenerateBlock(head)]
             request  == [type |-> "catchupReq", to |-> Leader,
                          body |-> [start |-> StartBlockHeight(head), from |-> n]]
  <2>1. net' = net
               \cup (IF toPrepare THEN Broadcast("prepare", vote) ELSE {})
               \cup (IF toCommit THEN Broadcast("commit", vote) ELSE {})
               \cup (IF propose THEN Broadcast("preprepare", proposal) ELSE {})
               \cup (IF n # Leader /\ CatchupReady(n, seq) THEN {request} ELSE {})
    BY DEF Tick
  <2>2. request.type = "catchupReq"  OBVIOUS
  <2>3. \A type, body : \A m \in Broadcast(type, body) : m.type = type /\ m.body = body
    BY DEF Broadcast
  <2> HIDE DEF toPrepare, toCommit, vote, proposal, request
  <2> QED  BY <2>1, <2>2, <2>3
<1>3. /\ curPreprepare[n] # NoPreprepare => pp = curPreprepare[n]
      /\ curated => pp \in Proposal /\ GoodProposal(pp)
  BY DEF CuratedPreprepares, IInv, TypeOK, RoundInv, PoolInv
<1>4. stage[n] # "preprepare" => curated
  BY <1>3 DEF IInv, RoundInv
<1>5. cSet = IF curated THEN commitSet[n] \cup Voters(commits, n, pp) ELSE commitSet[n]
  OBVIOUS
<1>6. /\ toCommit => curated
      /\ toDeliver => curated /\ head = pp.block /\ Cardinality(cSet) >= Quorum
  BY <1>4
<1>7. vote.from = n /\ vote.digest = pp.block.hash  OBVIOUS
<1> HIDE DEF pSet, cSet, toPrepare, toCommit, toDeliver, vote, head
<1>8. curated => /\ pp.block.hash \in Nat \ {0, 1}
                 /\ pp.block = BlockAt(pp.block.hash)
  BY <1>3 DEF GoodProposal, BlockAt
<1>9. \A q \in cSet : curated => Holds(q, pp.block.hash)
  <2>1. ASSUME curated, NEW q \in commitSet[n] PROVE Holds(q, pp.block.hash)
    <3>1. curPreprepare[n] # NoPreprepare  BY <2>1 DEF HeldInv, VoteInv
    <3> QED  BY <2>1, <3>1, <1>3 DEF HeldInv, VoteInv
  <2>2. ASSUME curated, NEW q \in Voters(commits, n, pp) PROVE Holds(q, pp.block.hash)
    <3>1. PICK v \in commits[n] : v.digest = pp.block.hash /\ v.from = q  BY <2>2 DEF Voters
    <3> QED  BY <3>1 DEF HeldInv, VoteInv
  <2> QED  BY <1>5, <2>1, <2>2
<1>10. cSet \in SUBSET Node
  BY <1>5 DEF Voters, IInv, TypeOK, Vote
<1>11. /\ \A m \in Node \ {n} : /\ curPreprepare'[m] = curPreprepare[m] /\ stored'[m] = stored[m]
                                /\ commitSet'[m] = commitSet[m]
       /\ curPreprepare'[n] = IF toDeliver THEN NoPreprepare ELSE pp
       /\ commitSet'[n] = IF toDeliver THEN {} ELSE cSet
       /\ stored'[n] = IF toDeliver THEN stored[n] \cup {head} ELSE stored[n]
       /\ \A m \in Node : commits'[m] \subseteq commits[m]
  BY <1>1 DEF IInv, TypeOK, Unread
<1>12. BlockAt(1) \in stored[n] /\ NoPreprepare.block = BlockAt(1)
  <2>1. curHeader[n] \in stored[n] /\ curHeader[n].number >= 1 /\ curHeader[n].number \in Nat
    BY DEF IInv, ChainInv, TypeOK, Block
  <2>2. BlockAt(1) \in stored[n]
    BY <2>1 DEF IInv, ChainInv
  <2> QED  BY <2>2 DEF NoPreprepare, Genesis, BlockAt
<1>13. ASSUME NEW m \in Node, NEW k, Holds(m, k) PROVE Holds(m, k)'
  <2>1. CASE m # n  BY <2>1, <1>11, <1>13 DEF Holds
  <2>2. CASE m = n /\ BlockAt(k) \in stored[n]  BY <2>2, <1>11 DEF Holds
  <2>3. CASE m = n /\ curPreprepare[n].block = BlockAt(k) /\ curPreprepare[n] = NoPreprepare
    BY <2>3, <1>11, <1>12 DEF Holds
  <2>4. CASE m = n /\ curPreprepare[n].block = BlockAt(k) /\ curPreprepare[n] # NoPreprepare
    BY <2>4, <1>3, <1>6, <1>11 DEF Holds
  <2> QED  BY <1>13, <2>1, <2>2, <2>3, <2>4 DEF Holds
<1>14. curated => Holds(n, pp.block.hash)'
  BY <1>6, <1>8, <1>11 DEF Holds
<1>15. VoteInv'
  <2>1. \A m \in net' : m.type = "commit" => Holds(m.body.from, m.body.digest)'
    <3> SUFFICES ASSUME NEW m \in net', m.type = "commit"
                 PROVE  Holds(m.body.from, m.body.digest)'
      OBVIOUS
    <3>1. CASE m \in net
      <4>1. m.body.from \in Node /\ Holds(m.body.from, m.body.digest)
        BY <3>1 DEF IInv, TypeOK, Message, Vote, HeldInv, VoteInv
      <4> QED  BY <4>1, <1>13
    <3>2. CASE toCommit /\ m.body = vote  BY <3>2, <1>6, <1>7, <1>14
    <3> QED  BY <3>1, <3>2, <1>2
  <2>2. \A m \in Node : \A v \in commits'[m] : Holds(v.from, v.digest)'
    <3> SUFFICES ASSUME NEW m \in Node, NEW v \in commits'[m] PROVE Holds(v.from, v.digest)'
      OBVIOUS
    <3>1. v \in commits[m] /\ v.from \in Node  BY <1>11 DEF IInv, TypeOK, Vote
    <3>2. Holds(v.from, v.digest)  BY <3>1 DEF HeldInv, VoteInv
    <3> QED  BY <3>1, <3>2, <1>13
  <2>3. ASSUME NEW m \in Node, curPreprepare'[m] # NoPreprepare, NEW q \in commitSet'[m],
               NEW h, h = curPreprepare'[m].block.hash
        PROVE  q \in Node /\ Holds(q, h)'
    <3>1. CASE m # n
      <4>1. q \in Node  BY <2>3, <3>1, <1>11 DEF IInv, TypeOK
      <4>2. Holds(q, h)  BY <2>3, <3>1, <1>11 DEF HeldInv, VoteInv
      <4> QED  BY <4>1, <4>2, <1>13
    <3>2. CASE m = n
      <4>1. ~toDeliver /\ curPreprepare'[n] = pp /\ curated /\ q \in cSet
        BY <2>3, <3>2, <1>11
      <4>2. Holds(q, h) /\ q \in Node  BY <2>3, <3>2, <4>1, <1>9, <1>10
      <4> QED  BY <4>2, <1>13
    <3> QED  BY <3>1, <3>2
  <2>4. ASSUME NEW m \in Node, curPreprepare'[m] = NoPreprepare PROVE commitSet'[m] = {}
    <3>1. CASE m # n  BY <2>4, <3>1, <1>11 DEF HeldInv, VoteInv
    <3>2. CASE m = n
      <4>1. CASE toDeliver  BY <3>2, <4>1, <1>11
      <4>2. CASE ~toDeliver
        <5>1. ~curated /\ commitSet'[n] = commitSet[n]  BY <2>4, <3>2, <4>2, <1>5, <1>11
        <5>2. curPreprepare[n] = NoPreprepare  BY <5>1, <1>3
        <5> QED  BY <3>2, <5>1, <5>2 DEF HeldInv, VoteInv
      <4> QED  BY <4>1, <4>2
    <3> QED  BY <3>1, <3>2
  <2>5. \A m \in Node : curPreprepare'[m] # NoPreprepare =>
           \A q \in commitSet'[m] : Holds(q, curPreprepare[m].block.hash)'
    <3> SUFFICES ASSUME NEW m \in Node, curPreprepare'[m] # NoPreprepare, NEW q \in commitSet'[m]
                 PROVE  Holds(q, curPreprepare[m].block.hash)'
      OBVIOUS
    <3>1. \A h : h = curPreprepare'[m].block.hash => Holds(q, h)'  BY <2>3
    <3> QED  BY <3>1 DEF Holds
  <2> QED  BY <2>1, <2>2, <2>4, <2>5 DEF VoteInv
<1>16. QuorumInv'
  <2>1. ASSUME NEW m \in Node, NEW k \in Nat \ {0, 1}, BlockAt(k) \in stored'[m], BlockAt(k) \notin stored[m]
        PROVE  \E S \in SUBSET Node : Cardinality(S) >= Quorum /\ \A q \in S : Holds(q, k)
    <3>1. toDeliver /\ BlockAt(k) = pp.block  BY <2>1, <1>6, <1>11
    <3>2. pp.block.hash = k  BY <3>1, BlockAtType
    <3> QED  BY <3>1, <3>2, <1>6, <1>9, <1>10
  <2> QED  BY <2>1, <1>13, QuorumKept DEF HeldInv
<1> QED  BY <1>15, <1>16 DEF HeldInv

LEMMA HeldNext == IInv /\ NoCatchUp /\ HeldInv /\ [Next]_vars => HeldInv'
<1> SUFFICES ASSUME IInv, NoCatchUp, HeldInv, [Next]_vars PROVE HeldInv'  OBVIOUS
<1>1. CASE \E n \in Node : Run(n)  BY <1>1, HeldTick DEF Run
<1>2. ASSUME NEW m \in net, HandleMessage(m.to, m) PROVE HeldInv'
  <2>1. m.to \in Node  BY DEF IInv, TypeOK, Message
  <2>2. UNCHANGED <<roundVars, chainVars>>
    BY <1>2, <2>1 DEF HandleMessage, HandleStopConsensus, HandlePreprepare, HandlePrepare,
                      HandleCommit, HandleCatchupReq, HandleCatchupResp, NoCatchUp
  <2>3. \A o \in net' : o.type = "commit" => o \in net
    BY <1>2 DEF HandleMessage, HandleStopConsensus, HandlePreprepare, HandlePrepare,
                HandleCommit, HandleCatchupReq, HandleCatchupResp
  <2>4. CASE HandleCommit(m.to, m)
    <3>1. \A n \in Node : \A v \in commits'[n] : v \in commits[n] \/ (m.type = "commit" /\ m.body = v)
      BY <2>4, <2>1 DEF HandleCommit, Receive, IInv, TypeOK
    <3> QED  BY <3>1, <2>2, <2>3, HeldQuiet DEF IInv
  <2>5. CASE ~HandleCommit(m.to, m)
    <3>1. commits' = commits
      BY <1>2, <2>5 DEF HandleMessage, HandleStopConsensus, HandlePreprepare, HandlePrepare,
                        HandleCatchupReq, HandleCatchupResp, poolVars
    <3> QED  BY <3>1, <2>2, <2>3, HeldQuiet DEF IInv
  <2> QED  BY <2>4, <2>5
<1>3. CASE (\E m \in net : Lose(m)) \/ SupervisorStop
  <2>1. UNCHANGED <<roundVars, chainVars, commits>>
    BY <1>3 DEF Lose, SupervisorStop, poolVars
  <2>2. \A o \in net' : o.type = "commit" => o \in net
    BY <1>3 DEF Lose, SupervisorStop, Broadcast
  <2> QED  BY <2>1, <2>2, HeldQuiet DEF IInv
<1>4. CASE UNCHANGED vars
  BY <1>4, HeldQuiet DEF vars, poolVars, worldVars, IInv
<1> QED  BY <1>1, <1>2, <1>3, <1>4 DEF Next

\* As long as no replica starts a Catch-Up, a block that any node has
\* delivered is stored or being worked on by 2f + 1 nodes.
THEOREM QuorumHolds == Spec /\ []NoCatchUp => []DeliveredHeldByQuorum
<1>1. ASSUME IInv, HeldInv PROVE DeliveredHeldByQuorum
  <2> SUFFICES ASSUME NEW n \in Node, NEW b \in stored[n] \ {Genesis}
               PROVE  Cardinality({m \in Node : b \in stored[m] \/ curPreprepare[m].block = b})
                        >= 2 * ((NodeNum - 1) \div 3) + 1
    BY DEF DeliveredHeldByQuorum
  <2>1. b.number \in Nat /\ b.number >= 1 /\ b = BlockAt(b.number)
    BY <1>1 DEF IInv, TypeOK, ChainInv, Block
  <2>2. b.number # 1  BY <2>1 DEF BlockAt, Genesis
  <2>3. Cardinality({m \in Node : Holds(m, b.number)}) >= Quorum
    BY <2>1, <2>2, <1>1 DEF HeldInv, QuorumInv
  <2>4. {m \in Node : Holds(m, b.number)} = {m \in Node : b \in stored[m] \/ curPreprepare[m].block = b}
    BY <2>1 DEF Holds
  <2> QED  BY <2>3, <2>4 DEF Quorum
<1> QED  BY <1>1, Invariance, HeldInit, HeldNext, PTL DEF Spec

-----------------------------------------------------------------------------
(***************************************************************************)
(* The nodes implement the log of ShardLog.                                *)
(***************************************************************************)

\* The blocks of the shard.
AllStored == UNION {stored[n] : n \in Node}

\* The last block of a catch-up reply is a block of the leader: a reply
\* brings no block that the log does not have.
ReplyInv ==
    \A m \in net : m.type = "catchupResp" => BlockAt(m.body.next + 1) \in stored[Leader]

RInv == IInv /\ ReplyInv

-----------------------------------------------------------------------------

\* A step of the whole system adds blocks to at most one node, and they are
\* the blocks of a reply or the block after the node's own head.
StoreStep(n) ==
    \/ \E m \in net : /\ m.type = "catchupResp" /\ m.to = n
                      /\ stored' = [stored EXCEPT ![n] = @ \cup m.body.blocks]
    \/ stored' = [stored EXCEPT ![n] = @ \cup {BlockAt(curSeq[n] + 2)}]

\* Of all steps only a catch-up reply and a delivery touch a block storage.
LEMMA StoreSteps ==
    ASSUME IInv, [Next]_vars
    PROVE  UNCHANGED stored \/ \E n \in Node : StoreStep(n)
<1>1. CASE UNCHANGED vars
  BY <1>1 DEF vars, chainVars
<1>2. ASSUME NEW n \in Node, Run(n)
      PROVE  UNCHANGED stored \/ StoreStep(n)
  <2>1. PICK pp \in CuratedPreprepares(n), propose \in BOOLEAN : Tick(n, pp, propose)
    BY <1>2 DEF Run
  <2>2. pp # NoPreprepare => pp.block = BlockAt(curSeq[n] + 2)
    BY <2>1, <1>2 DEF CuratedPreprepares, IInv, TypeOK, RoundInv, PoolInv, GoodProposal
  <2>3. CASE pp # NoPreprepare
    <3>1. stored' = [stored EXCEPT ![n] = @ \cup {pp.block}] \/ stored' = [stored EXCEPT ![n] = @]
      BY <2>1, <2>3 DEF Tick
    <3>2. stored = [stored EXCEPT ![n] = @]
      BY DEF IInv, TypeOK
    <3> QED
      BY <2>2, <2>3, <3>1, <3>2 DEF StoreStep
  <2>4. CASE pp = NoPreprepare
    <3>1. curPreprepare[n] = NoPreprepare
      BY <2>1, <2>4, <1>2 DEF CuratedPreprepares, IInv, TypeOK, Proposal, NoPreprepare
    <3>2. stage[n] = "preprepare"
      BY <3>1, <1>2 DEF IInv, RoundInv
    <3>3. stored' = [stored EXCEPT ![n] = @]
      BY <2>1, <2>4, <3>2 DEF Tick
    <3>4. stored = [stored EXCEPT ![n] = @]
      BY DEF IInv, TypeOK
    <3> QED
      BY <3>3, <3>4
  <2> QED
    BY <2>3, <2>4
<1>3. ASSUME NEW m \in net, HandleMessage(m.to, m)
      PROVE  UNCHANGED stored \/ StoreStep(m.to)
  <2>1. CASE HandleCatchupResp(m.to, m)
    BY <2>1 DEF HandleCatchupResp, Receive, StoreStep, chainVars
  <2>2. CASE \/ HandleStopConsensus(m.to, m) \/ HandlePreprepare(m.to, m)
             \/ HandlePrepare(m.to, m) \/ HandleCommit(m.to, m) \/ HandleCatchupReq(m.to, m)
    BY <2>2 DEF HandleStopConsensus, HandlePreprepare, HandlePrepare, HandleCommit,
                HandleCatchupReq, chainVars
  <2> QED
    BY <1>3, <2>1, <2>2 DEF HandleMessage
<1>4. \A m \in net : m.to \in Node
  BY DEF IInv, TypeOK, Message
<1>5. ASSUME NEW m \in net, Lose(m) PROVE UNCHANGED stored
  BY <1>5 DEF Lose, chainVars
<1>6. CASE SupervisorStop
  BY <1>6 DEF SupervisorStop, chainVars
<1> QED
  BY <1>1, <1>2, <1>3, <1>4, <1>5, <1>6 DEF Next

\* No node forgets a block.
LEMMA StoreGrows ==
    ASSUME IInv, [Next]_vars, NEW n \in Node
    PROVE  stored[n] \subseteq stored'[n]
<1>1. stored \in [Node -> SUBSET Block]
  BY DEF IInv, TypeOK
<1> QED
  BY <1>1, StoreSteps DEF StoreStep

\* A reply is made by the leader, of the blocks up to its own head.
LEMMA ReplyStep ==
    ASSUME RInv, [Next]_vars
    PROVE  ReplyInv'
<1> SUFFICES ASSUME NEW m \in net', m.type = "catchupResp"
             PROVE  BlockAt(m.body.next + 1) \in stored'[Leader]
  BY DEF ReplyInv
<1>1. stored[Leader] \subseteq stored'[Leader]
  BY StoreGrows, NodeAssumption DEF RInv
<1>2. CASE m \in net
  BY <1>1, <1>2 DEF RInv, ReplyInv
<1>3. CASE m \notin net
  <2>1. PICK r \in net : HandleCatchupReq(r.to, r)
    <3>1. ASSUME NEW n \in Node, Run(n) PROVE FALSE
      BY <1>3, <3>1 DEF Run, Tick, Broadcast
    <3>2. ASSUME NEW r \in net,
                 \/ HandleStopConsensus(r.to, r) \/ HandlePreprepare(r.to, r)
                 \/ HandlePrepare(r.to, r) \/ HandleCommit(r.to, r) \/ HandleCatchupResp(r.to, r)
          PROVE  FALSE
      BY <1>3, <3>2 DEF HandleStopConsensus, HandlePreprepare, HandlePrepare, HandleCommit,
                        HandleCatchupResp
    <3>3. ASSUME NEW r \in net, Lose(r) PROVE FALSE
      BY <1>3, <3>3 DEF Lose
    <3>4. ~SupervisorStop
      BY <1>3 DEF SupervisorStop, Broadcast
    <3>5. ~UNCHANGED vars
      BY <1>3 DEF vars, worldVars
    <3> QED
      BY <3>1, <3>2, <3>3, <3>4, <3>5 DEF Next, HandleMessage
  <2>2. r.type = "catchupReq" /\ r.to = Leader
    BY <2>1 DEF HandleCatchupReq, Receive, RInv, IInv, NetInv, GoodReq
  <2>3. m.body.next = curSeq[Leader]
    BY <1>3, <2>1, <2>2 DEF HandleCatchupReq
  <2>4. BlockAt(curSeq[Leader] + 1) \in stored[Leader]
    BY NodeAssumption DEF RInv, IInv, ChainInv
  <2> QED
    BY <1>1, <2>3, <2>4
<1> QED
  BY <1>2, <1>3

\* In every reachable state no catch-up reply is ahead of the leader.
THEOREM ReplyInvariance == Spec => []RInv
<1>1. Init => RInv
  BY InitIInv DEF RInv, ReplyInv, Init
<1>2. RInv /\ [Next]_vars => RInv'
  BY NextIInv, ReplyStep DEF RInv
<1> QED
  BY <1>1, <1>2, PTL DEF Spec

-----------------------------------------------------------------------------

\* What the invariant says of the blocks of the shard: there is one block at
\* each height, and a node that has a block has all blocks below it.
LEMMA StoredShape ==
    ASSUME IInv, NEW n \in Node, NEW b \in stored[n]
    PROVE  /\ b.number \in Nat /\ b.number >= 1
           /\ b = BlockAt(b.number)
           /\ b.parent = b.number - 1 /\ b.hash = b.number
           /\ \A k \in 1 .. b.number : BlockAt(k) \in stored[n]
<1>1. /\ b.number \in Nat /\ b.number >= 1
      /\ b = BlockAt(b.number)
      /\ \A k \in 1 .. b.number : BlockAt(k) \in stored[n]
  BY DEF IInv, TypeOK, ChainInv, Block
<1> QED
  BY <1>1, BlockAtType

\* When node n has come to hold everything up to height h, and had not got
\* the block at h before, which is a block of the log, it has moved along
\* the log.
LEMMA LearnStep ==
    ASSUME IInv, IInv', NEW n \in Node, NEW h \in Nat, h >= 1,
           NEW S, stored' = [stored EXCEPT ![n] = S],
           stored[n] \subseteq S,
           BlockAt(h) \in S, BlockAt(h) \notin stored[n],
           \A b \in S : b \in stored[n] \/ b.number <= h,
           NEW o \in Node, BlockAt(h) \in stored[o]
    PROVE  Log!Learn(n)
<1>0. stored \in [Node -> SUBSET Block]
  BY DEF IInv, TypeOK
<1>1. stored'[n] = S
  BY <1>0
<1>2. \A b \in S : b.number <= h /\ b = BlockAt(b.number) /\ b.number \in 1 .. h
  <2> SUFFICES ASSUME NEW b \in S
               PROVE  b.number <= h /\ b = BlockAt(b.number) /\ b.number \in 1 .. h
    OBVIOUS
  <2>1. b \in stored[n] => b.number <= h
    <3>1. ASSUME b \in stored[n], b.number > h PROVE FALSE
      BY <3>1, StoredShape
    <3>2. b \in stored[n] => b.number \in Nat
      BY StoredShape
    <3> QED
      BY <3>1, <3>2
  <2>2. b.number \in Nat /\ b.number >= 1 /\ b = BlockAt(b.number)
    BY <1>1 DEF IInv, TypeOK, ChainInv, Block
  <2> QED
    BY <2>1, <2>2
<1>3. BlockAt(h).number = h
  BY BlockAtType
<1>4. \A k \in 1 .. h : BlockAt(k) \in stored[o]
  BY StoredShape, <1>3
<1>5. \A k \in 1 .. h : BlockAt(k) \in S
  BY <1>1, <1>3 DEF IInv, ChainInv
<1>6. \A b \in AllStored : b = BlockAt(b.number) /\ b.number \in Nat /\ b.number >= 1
  BY StoredShape DEF AllStored
<1>7. S = {b \in AllStored : b.number <= h}
  <2>1. \A b \in S : b \in AllStored /\ b.number <= h
    BY <1>2, <1>4 DEF AllStored
  <2>2. \A b \in AllStored : b.number <= h => b \in S
    BY <1>5, <1>6
  <2> QED
    BY <2>1, <2>2
<1>8. AllStored' = AllStored
  <2>1. \A p \in Node : p # n => stored'[p] = stored[p]
    BY <1>0
  <2>2. \A b : (\E p \in Node : b \in stored'[p]) <=> (\E p \in Node : b \in stored[p])
    BY <1>1, <1>2, <1>4, <2>1
  <2>3. \A b : b \in AllStored' <=> \E p \in Node : b \in stored'[p]
    BY DEF AllStored
  <2>4. \A b : b \in AllStored <=> \E p \in Node : b \in stored[p]
    BY DEF AllStored
  <2> QED
    BY <2>2, <2>3, <2>4
<1>9. BlockAt(h) \in AllStored \ stored[n]
  BY DEF AllStored
<1> QED
  BY <1>3, <1>7, <1>8, <1>9 DEF Log!Learn, Log!Prefix, AllStored

\* When node n stores a block that nobody has, it has the whole log, and the
\* block is the next one.
LEMMA AppendStep ==
    ASSUME IInv, NEW n \in Node,
           stored' = [stored EXCEPT ![n] = @ \cup {BlockAt(curSeq[n] + 2)}],
           BlockAt(curSeq[n] + 2) \notin AllStored
    PROVE  Log!Append(n)
<1> DEFINE s == curSeq[n]
           new == BlockAt(s + 2)
           last == BlockAt(s + 1)
<1>0. stored \in [Node -> SUBSET Block] /\ s \in Nat
  BY DEF IInv, TypeOK
<1>1. stored'[n] = stored[n] \cup {new}
  BY <1>0
<1>2. \A p \in Node : \A b \in stored[p] : b.number \in 1 .. s + 1 /\ b = BlockAt(b.number)
  <2> SUFFICES ASSUME NEW p \in Node, NEW b \in stored[p]
               PROVE  b.number \in 1 .. s + 1 /\ b = BlockAt(b.number)
    OBVIOUS
  <2>1. /\ b.number \in Nat /\ b.number >= 1 /\ b = BlockAt(b.number)
        /\ \A k \in 1 .. b.number : BlockAt(k) \in stored[p]
    BY StoredShape
  <2>2. new \notin stored[p]
    BY DEF AllStored
  <2> QED
    BY <1>0, <2>1, <2>2
<1>3. last \in stored[n] /\ last.number = s + 1 /\ last.hash = s + 1
  <2>1. last \in stored[n]
    BY DEF IInv, ChainInv
  <2> QED
    BY <1>0, <2>1, BlockAtType
<1>4. \A k \in 1 .. s + 1 : BlockAt(k) \in stored[n]
  BY <1>3, StoredShape
<1>5. stored[n] = AllStored
  BY <1>2, <1>4 DEF AllStored
<1>6. AllStored' = AllStored \cup {new}
  <2>1. \A p \in Node : p # n => stored'[p] = stored[p]
    BY <1>0
  <2>2. \A b : (\E p \in Node : b \in stored'[p]) <=> (b = new \/ \E p \in Node : b \in stored[p])
    BY <1>1, <2>1
  <2>3. \A b : b \in AllStored' <=> \E p \in Node : b \in stored'[p]
    BY DEF AllStored
  <2>4. \A b : b \in AllStored <=> \E p \in Node : b \in stored[p]
    BY DEF AllStored
  <2> QED
    BY <2>2, <2>3, <2>4
<1>7. new.number = s + 2 /\ new.parent = s + 1
  BY <1>0, BlockAtType
<1>8. \A b \in AllStored : b.number <= last.number
  BY <1>2, <1>3 DEF AllStored
<1>9. stored' = [stored EXCEPT ![n] = AllStored']
  BY <1>0, <1>1, <1>5, <1>6
<1>10. last \in AllStored /\ new \in AllStored' /\ new.number = last.number + 1 /\ new.parent = last.hash
  BY <1>0, <1>3, <1>5, <1>6, <1>7
<1> HIDE DEF new, last, s
<1>11. \E l \in AllStored, b \in AllStored' :
         /\ l \in AllStored /\ \A c \in AllStored : c.number <= l.number
         /\ b.number = l.number + 1 /\ b.parent = l.hash
         /\ AllStored' = AllStored \cup {b}
  BY <1>6, <1>8, <1>10
<1> QED
  BY <1>5, <1>9, <1>11 DEF Log!Append, Log!IsLast, AllStored

\* A delivery appends a block to the log or moves its node along it.
LEMMA DeliverStep ==
    ASSUME IInv, IInv', NEW n \in Node,
           stored' = [stored EXCEPT ![n] = @ \cup {BlockAt(curSeq[n] + 2)}]
    PROVE  UNCHANGED stored \/ Log!Append(n) \/ Log!Learn(n)
<1> DEFINE h == curSeq[n] + 2
<1>0. stored \in [Node -> SUBSET Block] /\ h \in Nat /\ h >= 1
  BY DEF IInv, TypeOK
<1>1. CASE BlockAt(h) \in stored[n]
  BY <1>0, <1>1
<1>2. CASE BlockAt(h) \notin AllStored
  BY <1>2, AppendStep
<1>3. CASE BlockAt(h) \in AllStored /\ BlockAt(h) \notin stored[n]
  <2>1. PICK o \in Node : BlockAt(h) \in stored[o]
    BY <1>3 DEF AllStored
  <2>2. stored' = [stored EXCEPT ![n] = stored[n] \cup {BlockAt(h)}]
    OBVIOUS
  <2>3. \A b \in stored[n] \cup {BlockAt(h)} : b \in stored[n] \/ b.number <= h
    BY <1>0, BlockAtType
  <2> HIDE DEF h
  <2> QED
    BY <1>0, <1>3, <2>1, <2>2, <2>3, LearnStep
<1> QED
  BY <1>1, <1>2, <1>3

\* The blocks of a reply move a node along the log, or repeat what it has.
LEMMA ReplyMovesAlong ==
    ASSUME RInv, IInv', NEW n \in Node, NEW m \in net,
           m.type = "catchupResp", m.to = n,
           stored' = [stored EXCEPT ![n] = @ \cup m.body.blocks]
    PROVE  UNCHANGED stored \/ Log!Learn(n)
<1> DEFINE h == m.body.next + 1
<1>0. stored \in [Node -> SUBSET Block] /\ h \in Nat /\ h >= 1
  BY DEF RInv, IInv, TypeOK, Message
<1>1. /\ BlockAt(h) \in m.body.blocks
      /\ BlockAt(h) \in stored[Leader]
      /\ \A b \in m.body.blocks : b.number \in Nat /\ b.number >= 1 /\ b.number <= h
                                  /\ b = BlockAt(b.number)
  BY DEF RInv, ReplyInv, IInv, NetInv, GoodResp, TypeOK, Message, Block
<1>2. CASE BlockAt(h) \in stored[n]
  <2>1. \A k \in 1 .. h : BlockAt(k) \in stored[n]
    BY <1>0, <1>2, StoredShape, BlockAtType DEF RInv
  <2>2. m.body.blocks \subseteq stored[n]
    BY <1>0, <1>1, <2>1
  <2> QED
    BY <1>0, <2>2
<1>3. CASE BlockAt(h) \notin stored[n]
  <2>1. stored' = [stored EXCEPT ![n] = stored[n] \cup m.body.blocks]
    OBVIOUS
  <2> HIDE DEF h
  <2> QED
    BY <1>0, <1>1, <1>3, <2>1, LearnStep, NodeAssumption DEF RInv
<1> QED
  BY <1>2, <1>3

\* The shard implements the log on which the other components rely: every
\* step of PBFT is a step of ShardLog or leaves the block storages alone.
THEOREM ShardIsLog == Spec => ImplementsShardLog
<1>1. Init => Log!Init
  <2> SUFFICES ASSUME Init PROVE Log!Init
    OBVIOUS
  <2>1. stored = [n \in Node |-> {Genesis}]
    BY DEF Init
  <2>2. UNION {stored[n] : n \in Node} = {Genesis}
    BY <2>1, NodeAssumption
  <2> QED
    BY <2>1, <2>2 DEF Log!Init
<1>2. RInv /\ RInv' /\ [Next]_vars => [Log!Next]_Log!logVars
  <2> SUFFICES ASSUME RInv, RInv', [Next]_vars PROVE [Log!Next]_Log!logVars
    OBVIOUS
  <2>1. CASE UNCHANGED stored
    BY <2>1 DEF Log!logVars
  <2>2. ASSUME NEW n \in Node, StoreStep(n)
        PROVE  UNCHANGED stored \/ Log!Append(n) \/ Log!Learn(n)
    BY <2>2, DeliverStep, ReplyMovesAlong DEF StoreStep, RInv
  <2> QED
    BY <2>1, <2>2, StoreSteps DEF RInv, Log!Next, Log!logVars
<1> QED
  BY <1>1, <1>2, ReplyInvariance, PTL DEF Spec, ImplementsShardLog, Log!Spec
=============================================================================

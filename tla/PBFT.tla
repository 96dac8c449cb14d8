-------------------------------- MODULE PBFT --------------------------------
(***************************************************************************)
(* One shard of the cluster: the PBFT replicas of consensus/pbft/node.go   *)
(* and consensus/pbft/pbftmeta.go, the message pool of                     *)
(* consensus/pbft/basicstructs, the block store of pkg/chain/chain.go, and *)
(* the Catch-Up protocol with which a lagging replica rejoins.             *)
(*                                                                         *)
(* A node is one goroutine: every tick it drains its buffer into the       *)
(* handlers, curates the pool, steps through the stages, and then either   *)
(* proposes (leader) or asks for blocks (replica).  Handlers read and      *)
(* write only the state of their own node, so handling each message in a   *)
(* step of its own, and the rest of the tick in another, is the same as    *)
(* draining a batch.  The view never changes in this code (stageNewView    *)
(* and stageViewChange are declared and unused), so it is left out and the *)
(* leader is always node 0.                                                *)
(***************************************************************************)
EXTENDS Integers, FiniteSets

CONSTANTS
    Node,               \* nodes of the shard
    Leader,             \* node 0 (initialLeader)
    Down,               \* nodes whose process never comes up
    CatchUpThreshold,   \* catchUpThreshold, 5 in the code
    BlocksFetchLimit,   \* blocksFetchLimit, 100 in the code
    MaxBlocks,          \* bound: blocks proposed in a behaviour
    MaxLoss,            \* bound: messages whose send fails in a behaviour
    StopThreshold       \* blocks after which the supervisor may stop the shard

ASSUME NodeAssumption      == /\ IsFiniteSet(Node)
                              /\ Down \subseteq Node
                              /\ Leader \in Node \ Down
ASSUME ThresholdAssumption == CatchUpThreshold \in Nat \ {0}
ASSUME LimitAssumption     == BlocksFetchLimit \in Nat
ASSUME BoundAssumption     == /\ MaxBlocks \in Nat
                              /\ MaxLoss \in Nat
                              /\ StopThreshold \in Nat

NodeNum == Cardinality(Node)

\* Mutant of Quorum: the node does not count its own message.
QuorumTwoF == 2 * ((NodeNum - 1) \div 3)

\* Mutant of Quorum: a stage waits for more than 2f + 1 senders.
QuorumMore == 2 * ((NodeNum - 1) \div 3) + 2

\* f = (NodeNum - 1) / 3, and every stage waits for 2f + 1 senders.
Quorum == 2 * ((NodeNum - 1) \div 3) + 1

\* A block is its height, the hash of its parent and its own hash.  The hash
\* covers the parent, the number and the content: a block generated anew for
\* a height packs other transactions, so every block has a hash of its own.
Block   == [number : Nat, parent : Nat, hash : Nat]
Genesis == [number |-> 1, parent |-> 0, hash |-> 1]

Proposal == [seq : Nat, block : Block]
Vote     == [seq : Nat, digest : Nat, from : Node]

\* The nil pointer of curPreprepare.
NoPreprepare == [seq |-> -1, block |-> Genesis]

Stages == {"preprepare", "prepare", "commit"}

Message ==
         [type : {"preprepare"},        to : Node, body : Proposal]
    \cup [type : {"prepare", "commit"}, to : Node, body : Vote]
    \cup [type : {"catchupReq"},        to : Node,
          body : [start : Int, from : Node]]
    \cup [type : {"catchupResp"},       to : Node,
          body : [blocks : SUBSET Block, next : Nat, from : Node]]
    \cup [type : {"stop"},              to : Node, body : {0}]

VARIABLES
    \* consensusMeta of every node
    curSeq,             \* curViewSeq.Seq
    stage,
    curPreprepare,
    prepareSet,
    commitSet,
    proposed,
    latestSeq,          \* latestViewSeq.Seq
    catchupStarted,
    closed,             \* a StopConsensus message was handled
    exited,             \* the run loop was left
    \* the message pool of every node
    preprepares,
    prepares,
    commits,
    \* the chain of every node: its current header and its block storage
    curHeader,
    stored,
    \* the network and the world
    net,                \* messages sent and not yet handled
    generated,          \* number of blocks generated, genesis included
    lost,               \* number of sends that failed
    stopSent,           \* the supervisor has stopped the shard
    running             \* the nodes in the middle of a tick: at most one

roundVars   == <<curSeq, stage, curPreprepare, prepareSet, commitSet, proposed>>
catchupVars == <<latestSeq, catchupStarted>>
lifeVars    == <<closed, exited>>
poolVars    == <<preprepares, prepares, commits>>
chainVars   == <<curHeader, stored>>
worldVars   == <<net, generated, lost, stopSent, running>>

vars == <<roundVars, catchupVars, lifeVars, poolVars, chainVars, worldVars>>

TypeOK ==
    /\ curSeq         \in [Node -> Nat]
    /\ stage          \in [Node -> Stages]
    /\ curPreprepare  \in [Node -> Proposal \cup {NoPreprepare}]
    /\ prepareSet     \in [Node -> SUBSET Node]
    /\ commitSet      \in [Node -> SUBSET Node]
    /\ proposed       \in [Node -> BOOLEAN]
    /\ latestSeq      \in [Node -> Nat]
    /\ catchupStarted \in [Node -> BOOLEAN]
    /\ closed         \in [Node -> BOOLEAN]
    /\ exited         \in [Node -> BOOLEAN]
    /\ preprepares    \in [Node -> SUBSET Proposal]
    /\ prepares       \in [Node -> SUBSET Vote]
    /\ commits        \in [Node -> SUBSET Vote]
    /\ curHeader      \in [Node -> Block]
    /\ stored         \in [Node -> SUBSET Block]
    /\ net            \in SUBSET Message
    /\ generated      \in Nat
    /\ lost           \in Nat
    /\ stopSent       \in BOOLEAN
    /\ running        \in SUBSET Node

Init ==
    /\ curSeq         = [n \in Node |-> 0]
    /\ stage          = [n \in Node |-> "preprepare"]
    /\ curPreprepare  = [n \in Node |-> NoPreprepare]
    /\ prepareSet     = [n \in Node |-> {}]
    /\ commitSet      = [n \in Node |-> {}]
    /\ proposed       = [n \in Node |-> FALSE]
    /\ latestSeq      = [n \in Node |-> 0]
    /\ catchupStarted = [n \in Node |-> FALSE]
    /\ closed         = [n \in Node |-> FALSE]
    /\ exited         = [n \in Node |-> n \in Down]
    /\ preprepares    = [n \in Node |-> {}]
    /\ prepares       = [n \in Node |-> {}]
    /\ commits        = [n \in Node |-> {}]
    /\ curHeader      = [n \in Node |-> Genesis]
    /\ stored         = [n \in Node |-> {Genesis}]
    /\ net            = {}
    /\ generated      = 1
    /\ lost           = 0
    /\ stopSent       = FALSE
    /\ running        = {}

-----------------------------------------------------------------------------
(***************************************************************************)
(* Message handlers                                                        *)
(***************************************************************************)

\* A send to a node that never started fails and is only logged.
Broadcast(type, body) == [type : {type}, to : Node \ Down, body : {body}]

\* The sender of a proposal or of a catch-up reply is the leader.
Sender(m) == IF m.type \in {"prepare", "commit", "catchupReq"}
             THEN m.body.from ELSE Leader

\* A broadcast over gRPC returns when every buffer has the message, so the
\* broadcasts of one node reach another node in the order in which they were
\* made.  libp2p does not promise this (connlibp2p/libp2pconn.go:299-384); a
\* vote that overtakes its proposal is what one of another node is, and waits
\* in the pool.
Ordered == {"preprepare", "prepare", "commit"}

SentBefore(m1, m2) ==
    /\ m1.to = m2.to /\ Sender(m1) = Sender(m2)
    /\ m1.type \in Ordered /\ m2.type \in Ordered
    /\ \/ m1.body.seq < m2.body.seq
       \/ m1.body.seq = m2.body.seq /\ m1.type = "preprepare" /\ m2.type # "preprepare"
       \/ m1.body.seq = m2.body.seq /\ m1.type = "prepare" /\ m2.type = "commit"

\* What every handler does first.  A node that left its run loop handles
\* nothing more.  A node handles messages at the start of its tick, in which
\* no other node interferes.
Receive(n, m, type) ==
    /\ m.to = n
    /\ m.type = type
    /\ ~exited[n]
    /\ running \subseteq {n}
    /\ running' = {n}
    /\ \A o \in net : ~SentBefore(o, m)

HandleStopConsensus(n, m) ==
    /\ Receive(n, m, "stop")
    /\ net' = net \ {m}
    /\ closed' = [closed EXCEPT ![n] = TRUE]
    /\ UNCHANGED <<roundVars, catchupVars, exited, poolVars, chainVars,
                   generated, lost, stopSent>>

\* updateLatestViewSeq
Later(a, b) == IF a < b THEN b ELSE a

\* ValidateProposal recomputes the roots the leader computed and accepts.
HandlePreprepare(n, m) ==
    /\ Receive(n, m, "preprepare")
    /\ net' = net \ {m}
    /\ IF curSeq[n] > m.body.seq
       THEN UNCHANGED <<preprepares, latestSeq>>
       ELSE /\ preprepares' = [preprepares EXCEPT ![n] = @ \cup {m.body}]
            /\ latestSeq' = [latestSeq EXCEPT ![n] = Later(@, m.body.seq)]
    /\ UNCHANGED <<roundVars, catchupStarted, lifeVars, prepares, commits,
                   chainVars, generated, lost, stopSent>>

HandlePrepare(n, m) ==
    /\ Receive(n, m, "prepare")
    /\ net' = net \ {m}
    /\ IF curSeq[n] > m.body.seq
       THEN UNCHANGED prepares
       ELSE prepares' = [prepares EXCEPT ![n] = @ \cup {m.body}]
    /\ UNCHANGED <<roundVars, catchupVars, lifeVars, preprepares, commits,
                   chainVars, generated, lost, stopSent>>

HandleCommit(n, m) ==
    /\ Receive(n, m, "commit")
    /\ net' = net \ {m}
    /\ IF curSeq[n] > m.body.seq
       THEN UNCHANGED commits
       ELSE commits' = [commits EXCEPT ![n] = @ \cup {m.body}]
    /\ UNCHANGED <<roundVars, catchupVars, lifeVars, preprepares, prepares,
                   chainVars, generated, lost, stopSent>>

\* Mutant of GetBlocksAfterHeight: without the current block.
GetBlocksBelowHead(n, start) ==
    {b \in stored[n] : start <= b.number /\ b.number < curHeader[n].number}

\* GetBlocksAfterHeight walks from the current header through the parents, so
\* it returns the stored blocks from height start to the current height.
GetBlocksAfterHeight(n, start) ==
    {b \in stored[n] : start <= b.number /\ b.number <= curHeader[n].number}

\* A refused request (height not positive, more blocks than the limit) is
\* logged and gets no answer.
HandleCatchupReq(n, m) ==
    /\ Receive(n, m, "catchupReq")
    /\ LET start   == m.body.start
           refused == \/ start <= 0
                      \/ curHeader[n].number - start + 1 > BlocksFetchLimit
           resp    == [type |-> "catchupResp", to |-> m.body.from,
                       body |-> [blocks |-> GetBlocksAfterHeight(n, start),
                                 next   |-> curSeq[n],
                                 from   |-> n]]
       IN  net' = (net \ {m}) \cup (IF refused THEN {} ELSE {resp})
    /\ UNCHANGED <<roundVars, catchupVars, lifeVars, poolVars, chainVars,
                   generated, lost, stopSent>>

\* AddBlock checks neither number nor parent: the block becomes the head.
\* The blocks of a reply are added in order of height, so the highest of
\* them is the head afterwards.
HeadAfter(n, blocks) ==
    IF blocks = {} THEN curHeader[n]
    ELSE CHOOSE b \in blocks : \A c \in blocks : c.number <= b.number

\* Mutant of CatchupOverAndReset: the reset forgets the sequence number.
CatchupOverWithoutSeq(n, next) ==
    /\ catchupStarted' = [catchupStarted EXCEPT ![n] = FALSE]
    /\ stage'          = [stage          EXCEPT ![n] = "preprepare"]
    /\ curPreprepare'  = [curPreprepare  EXCEPT ![n] = NoPreprepare]
    /\ prepareSet'     = [prepareSet     EXCEPT ![n] = {}]
    /\ commitSet'      = [commitSet      EXCEPT ![n] = {}]
    /\ proposed'       = [proposed       EXCEPT ![n] = FALSE]
    /\ UNCHANGED <<curSeq, latestSeq>>

\* catchupOverAndReset, which leaves latestViewSeq and the pool alone.
CatchupOverAndReset(n, next) ==
    /\ catchupStarted' = [catchupStarted EXCEPT ![n] = FALSE]
    /\ curSeq'         = [curSeq         EXCEPT ![n] = next]
    /\ stage'          = [stage          EXCEPT ![n] = "preprepare"]
    /\ curPreprepare'  = [curPreprepare  EXCEPT ![n] = NoPreprepare]
    /\ prepareSet'     = [prepareSet     EXCEPT ![n] = {}]
    /\ commitSet'      = [commitSet      EXCEPT ![n] = {}]
    /\ proposed'       = [proposed       EXCEPT ![n] = FALSE]
    /\ UNCHANGED latestSeq

HandleCatchupResp(n, m) ==
    /\ Receive(n, m, "catchupResp")
    /\ net' = net \ {m}
    /\ IF m.body.from = Leader /\ catchupStarted[n]
       THEN /\ curHeader' = [curHeader EXCEPT ![n] = HeadAfter(n, m.body.blocks)]
            /\ stored' = [stored EXCEPT ![n] = @ \cup m.body.blocks]
            /\ CatchupOverAndReset(n, m.body.next)
       ELSE UNCHANGED <<chainVars, roundVars, catchupVars>>
    /\ UNCHANGED <<lifeVars, poolVars, generated, lost, stopSent>>

HandleMessage(n, m) ==
    \/ HandleStopConsensus(n, m)
    \/ HandlePreprepare(n, m)
    \/ HandlePrepare(n, m)
    \/ HandleCommit(n, m)
    \/ HandleCatchupReq(n, m)
    \/ HandleCatchupResp(n, m)

-----------------------------------------------------------------------------
(***************************************************************************)
(* The rest of a tick                                                      *)
(***************************************************************************)

\* curateMsg, first half: the proposal of this round, if there is one.
CuratedPreprepares(n) ==
    LET current == {p \in preprepares[n] : p.seq = curSeq[n]}
    IN  IF curPreprepare[n] # NoPreprepare THEN {curPreprepare[n]}
        ELSE IF current = {} THEN {NoPreprepare}
        ELSE current

\* Reading a pool pops everything up to the current sequence number.
Unread(pool, n) == {x \in pool[n] : x.seq > curSeq[n]}

\* curateMsg, second half: the senders of the votes for proposal pp.
Voters(pool, n, pp) ==
    {v.from : v \in {w \in pool[n] : /\ w.seq = curSeq[n]
                                     /\ w.digest = pp.block.hash}}

\* Mutant of CatchupReady: one proposal too early.
CatchupReadyEarly(n, s) ==
    ~catchupStarted[n] /\ latestSeq[n] + 1 >= s + CatchUpThreshold

\* catchupReady, after a step that leaves sequence number s.
CatchupReady(n, s) ==
    ~catchupStarted[n] /\ latestSeq[n] >= s + CatchUpThreshold

\* Mutant of MayPropose: the proposed flag is not looked at.
MayProposeAgain(n, toDeliver, curated) ==
    /\ n = Leader
    /\ toDeliver \/ (stage[n] = "preprepare" /\ ~curated)

\* Whether the leader calls propose: it is in the first stage after the
\* stage steps of this tick, and has not proposed in the round.
MayPropose(n, toDeliver, curated) ==
    /\ n = Leader
    /\ toDeliver \/ (stage[n] = "preprepare" /\ ~curated /\ ~proposed[n])

\* Mutant of StartBlockHeight: the first missing block is left out.
StartBlockHeightPlusOne(h) == h.number + 2

\* StartBlockHeight of a catch-up request.
StartBlockHeight(h) == h.number + 1

\* GenerateBlock on head h.
GenerateBlock(h) ==
    [number |-> h.number + 1, parent |-> h.hash, hash |-> generated + 1]

\* Mutant of LeavesLoop: a stopped node first finishes its round.
LeavesLoopBetweenRounds(n) == closed[n] /\ stage[n] = "preprepare"

\* The run loop checks closed once per tick, before it drains the buffer.
LeavesLoop(n) == closed[n]

\* The part of the tick that follows the handlers.  pp is the curated
\* proposal.  toPrepare, toCommit and toDeliver are the iterations of
\* step2NextStage; at most one block is delivered per tick.  A tick of the
\* leader proposes unless the block interval has not elapsed or there is
\* nothing to propose yet (propose is FALSE).
Tick(n, pp, propose) ==
    LET curated   == pp # NoPreprepare
        pSet      == IF curated THEN prepareSet[n] \cup Voters(prepares, n, pp)
                     ELSE prepareSet[n]
        cSet      == IF curated THEN commitSet[n] \cup Voters(commits, n, pp)
                     ELSE commitSet[n]
        toPrepare == stage[n] = "preprepare" /\ curated
        toCommit  == /\ toPrepare \/ stage[n] = "prepare"
                     /\ Cardinality(pSet) >= Quorum
        toDeliver == /\ toCommit \/ stage[n] = "commit"
                     /\ Cardinality(cSet) >= Quorum
        seq       == IF toDeliver THEN curSeq[n] + 1 ELSE curSeq[n]
        head      == IF toDeliver THEN pp.block ELSE curHeader[n]
        vote      == [seq |-> pp.seq, digest |-> pp.block.hash, from |-> n]
        block     == GenerateBlock(head)
        catchup   == n # Leader /\ CatchupReady(n, seq)
    IN  /\ ~exited[n]
        /\ running \subseteq {n}
        /\ running' = {}
        /\ pp \in CuratedPreprepares(n)
        /\ propose => MayPropose(n, toDeliver, curated) /\ generated <= MaxBlocks
        /\ preprepares' = IF curPreprepare[n] = NoPreprepare
                          THEN [preprepares EXCEPT ![n] = Unread(preprepares, n)]
                          ELSE preprepares
        /\ prepares' = IF curated
                       THEN [prepares EXCEPT ![n] = Unread(prepares, n)]
                       ELSE prepares
        /\ commits' = IF curated
                      THEN [commits EXCEPT ![n] = Unread(commits, n)]
                      ELSE commits
        /\ curSeq' = [curSeq EXCEPT ![n] = seq]
        /\ stage' = [stage EXCEPT ![n] = CASE toDeliver -> "preprepare"
                                           [] toCommit /\ ~toDeliver -> "commit"
                                           [] toPrepare /\ ~toCommit -> "prepare"
                                           [] OTHER -> @]
        /\ curPreprepare' = [curPreprepare EXCEPT
                                ![n] = IF toDeliver THEN NoPreprepare ELSE pp]
        /\ prepareSet' = [prepareSet EXCEPT ![n] = IF toDeliver THEN {} ELSE pSet]
        /\ commitSet' = [commitSet EXCEPT ![n] = IF toDeliver THEN {} ELSE cSet]
        /\ proposed' = [proposed EXCEPT ![n] = propose \/ (@ /\ ~toDeliver)]
        /\ curHeader' = [curHeader EXCEPT ![n] = head]
        /\ stored' = [stored EXCEPT ![n] = IF toDeliver THEN @ \cup {head} ELSE @]
        /\ generated' = IF propose THEN generated + 1 ELSE generated
        /\ catchupStarted' = [catchupStarted EXCEPT ![n] = @ \/ catchup]
        /\ net' = net
             \cup (IF toPrepare THEN Broadcast("prepare", vote) ELSE {})
             \cup (IF toCommit THEN Broadcast("commit", vote) ELSE {})
             \cup (IF propose
                   THEN Broadcast("preprepare", [seq |-> seq, block |-> block])
                   ELSE {})
             \cup (IF catchup
                   THEN {[type |-> "catchupReq", to |-> Leader,
                          body |-> [start |-> StartBlockHeight(head), from |-> n]]}
                   ELSE {})
        /\ exited' = [exited EXCEPT ![n] = LeavesLoop(n)]
        /\ UNCHANGED <<latestSeq, closed, lost, stopSent>>

-----------------------------------------------------------------------------
(***************************************************************************)
(* The environment                                                         *)
(***************************************************************************)

\* SendMsg2Dest only logs a failed send, so the message is lost.  A message
\* of a node to itself goes straight to its own buffer.
Lose(m) ==
    /\ running = {}
    /\ lost < MaxLoss
    /\ m.type = "stop" \/ Sender(m) # m.to
    /\ net' = net \ {m}
    /\ lost' = lost + 1
    /\ UNCHANGED <<roundVars, catchupVars, lifeVars, poolVars, chainVars,
                   generated, stopSent, running>>

\* The supervisor stops all nodes at the end of the experiment, when the
\* leader has reported enough blocks.
SupervisorStop ==
    /\ running = {}
    /\ curSeq[Leader] >= StopThreshold /\ ~stopSent
    /\ stopSent' = TRUE
    /\ net' = net \cup Broadcast("stop", 0)
    /\ UNCHANGED <<roundVars, catchupVars, lifeVars, poolVars, chainVars,
                   generated, lost, running>>

Run(n) == \E pp \in CuratedPreprepares(n), propose \in BOOLEAN : Tick(n, pp, propose)

Next ==
    \/ \E n \in Node : Run(n)
    \/ \E m \in net : HandleMessage(m.to, m)
    \/ \E m \in net : Lose(m)
    \/ SupervisorStop

Spec == Init /\ [][Next]_vars

\* The ticker keeps firing on every node and a message that is not lost
\* reaches its buffer, which the next tick drains.
Fairness ==
    \A n \in Node \ Down : /\ WF_vars(Run(n))
                           /\ WF_vars(\E m \in {x \in net : x.to = n} : HandleMessage(n, m))

FairSpec == Spec /\ Fairness

-----------------------------------------------------------------------------
(***************************************************************************)
(* Properties                                                              *)
(***************************************************************************)

\* Two nodes never store different blocks at one height, although AddBlock
\* checks neither the number nor the parent of what it is given and blocks
\* arrive both through the stages and through catch-up replies.
Agreement ==
    \A n1, n2 \in Node : \A b1 \in stored[n1], b2 \in stored[n2] :
        b1.number = b2.number => b1 = b2

\* The two counters a node keeps of its progress, the sequence number of
\* consensusMeta and the height of the chain, never drift apart: neither a
\* tick nor a catch-up reply that comes late, when the replica has meanwhile
\* delivered blocks itself, updates one without the other.
SeqMatchesHeight == \A n \in Node : curHeader[n].number = curSeq[n] + 1

\* The current header and, for every stored block, its parent are in the
\* block storage, so the walk of GetBlocksAfterHeight never misses a block
\* and every block was executed on the state of its parent at least once.
ChainComplete ==
    \A n \in Node :
        /\ curHeader[n] \in stored[n]
        /\ \A b \in stored[n] \ {Genesis} : \E p \in stored[n] : p.hash = b.parent

\* A catch-up reply is never empty or short: however the request, the reply
\* and the rounds interleave, it spans at least CatchUpThreshold heights.
CatchUpHelps ==
    \A m \in net : m.type = "catchupResp" =>
        \E lo, hi \in m.body.blocks : hi.number - lo.number >= CatchUpThreshold - 1

\* The shard implements the log that the other components rely on: the log
\* is what any node has stored, its copies are the block storages.
Log == INSTANCE ShardLog WITH log <- UNION {stored[n] : n \in Node}, copy <- stored

\* Every step of a node leaves the block storages alone, appends one block to
\* the longest of them, or moves a node along the log without a gap, whether
\* the blocks come from a round or from a catch-up reply that may be late.
ImplementsShardLog == Log!Spec

\* While no replica uses Catch-Up, a delivered block is in the hands of 2f+1
\* nodes: they have stored it or work on it in their current round.
DeliveredHeldByQuorum ==
    \A n \in Node : \A b \in stored[n] \ {Genesis} :
        Cardinality({m \in Node : b \in stored[m] \/ curPreprepare[m].block = b})
            >= 2 * ((NodeNum - 1) \div 3) + 1

\* With at most f nodes down and no failed send, every node that is up
\* delivers every block that is proposed, unless the experiment is stopped.
EveryNodeDelivers ==
    <>[](stopSent \/ \A n \in Node \ Down : curSeq[n] = MaxBlocks)

\* Once the supervisor has sent StopConsensus, every node leaves its run
\* loop, also in the middle of a round that can no longer finish.
StopsEverywhere == <>[](stopSent => \A n \in Node : exited[n])

Behind(n) == latestSeq[n] >= curSeq[n] + CatchUpThreshold

CatchUpUnderWay(n) ==
    \E m \in net : \/ m.type = "catchupReq" /\ m.body.from = n
                   \/ m.type = "catchupResp" /\ m.to = n

\* The comment of catchUpThreshold: a node that is catchUpThreshold behind
\* the latest proposal uses Catch-Up.  Whenever it is that far behind, it
\* eventually recovers or has a catch-up exchange in progress.
BehindUsesCatchUp ==
    \A n \in Node \ {Leader} :
        Behind(n) ~> (~Behind(n) \/ CatchUpUnderWay(n) \/ exited[n])
=============================================================================

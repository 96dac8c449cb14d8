-------------------------- MODULE BrokerEpochsProofs --------------------------
(***************************************************************************)
(* Proofs about BrokerEpochs for any set of shards, brokers, accounts and  *)
(* transfers, any number of repartitions and any moves.  The dynamic       *)
(* broker mode repartitions as the relay mode does, so what RelayProofs    *)
(* shows of a migration holds here, too; what is new is that every         *)
(* transfer, or the half of it that comes next, waits in one place that    *)
(* fits to the books of the broker manager and to the blocks, and that     *)
(* accounts and brokers own what those blocks add up to.                   *)
(***************************************************************************)
EXTENDS BrokerEpochs, RelayProofs

\* A leader that sends transactions away sends no message of a repartition.
LEMMA OnlyTxsSentAway ==
    ASSUME NEW s, NEW txs, NEW loc, NEW m \in SendAway(s, txs, loc)
    PROVE  m.type \notin {"start", "states", "info"}
<1> DEFINE again == {c \in txs : DestLoc(loc, c) = Supervisor0}
           back  == IF again = {} \/ stopped THEN {}
                    ELSE {[type |-> "again", txs |-> {c.tx : c \in again}]}
<1>1. PICK dest : m \in SendTxs(dest) \cup back
  BY DEF SendAway
<1>2. \A n \in back : n.type = "again"
  OBVIOUS
<1> HIDE DEF back
<1> QED
  BY <1>1, <1>2, OnlyTxsSent

\* Sending and receiving of the supervisor.
LEMMA BrokerSupervisorStep ==
    ASSUME IInv, BrokerReadTxsAndSend \/ HandleMsg
    PROVE  IInv'
<1> USE DEF IInv, supVars, chainVars, ammVars
<1>1. CASE BrokerReadTxsAndSend
  <2>1. PICK dest : net' = net \cup SendTxs(dest)
    BY <1>1 DEF BrokerReadTxsAndSend
  <2>2. UNCHANGED <<location, chainEpoch, ammVars, supLocation, supEpoch, proposal, shardEpoch>>
    BY <1>1 DEF BrokerReadTxsAndSend
  <2>3. \A s \in Shard : shardEpoch[s] = supEpoch
    BY <1>1 DEF BrokerReadTxsAndSend, EpochsReached, EpochInv
  <2>4. \A m \in net' : m \in net \/ m.type = "txs"
    BY <2>1, OnlyTxsSent
  <2>5. TxsOnly
    BY <2>1, <2>2, <2>3, <2>4 DEF TxsOnly, Shape, EpochInv
  <2> QED
    BY <2>5, TxsOnlyKeeps
<1>2. ASSUME NEW m \in net, m.type = "info", HandleBrokerBlockInfo(m) PROVE IInv'
  <2>1. /\ net' = net \ {m}
        /\ shardEpoch' = [shardEpoch EXCEPT ![m.shard] = Max({@, m.epoch})]
        /\ UNCHANGED <<proposal, location, chainEpoch, ammVars, supLocation, supEpoch,
                       epochSynced>>
    BY <1>2 DEF HandleBrokerBlockInfo
  <2> QED
    BY <1>2, <2>1, InfoKeeps
<1>3. ASSUME NEW m \in net, m.type = "again", HandleTxSendAgain(m) PROVE IInv'
  <2>1. /\ net' = net \ {m}
        /\ UNCHANGED <<proposal, chainVars, ammVars, supVars>>
    BY <1>3 DEF HandleTxSendAgain
  <2>2. TxsOnly
    BY <1>3, <2>1 DEF TxsOnly, Shape, EpochInv
  <2> QED
    BY <2>2, TxsOnlyKeeps
<1> QED
  BY <1>1, <1>2, <1>3 DEF HandleMsg

\* A leader that migrates reports as in the relay mode.
LEMMA BrokerMigrateSends ==
    ASSUME NEW s \in Shard, BrokerMigrateAccounts(s)
    PROVE  SendsReports(s)
<1> USE DEF supVars, chainVars, ammVars
<1>1. net' = net \cup {ReportTo(s, d) : d \in Shard} \cup SendAway(s, pool[s], MigratedLoc(s))
  BY DEF BrokerMigrateAccounts, ReportTo
<1>2. \A m \in net' : \/ m \in net
                      \/ m.type \notin {"start", "states", "info"}
                      \/ \E d \in Shard : m = ReportTo(s, d)
  BY <1>1, OnlyTxsSentAway
<1>3. /\ \A d \in Shard : ReportTo(s, d) \in net'
      /\ \A m \in net : m \in net'
  BY <1>1
<1> QED  BY <1>2, <1>3 DEF BrokerMigrateAccounts, SendsReports

\* The blocks and the migration of a leader.
LEMMA BrokerLeaderStep ==
    ASSUME IInv, NEW s \in Shard, BrokerLeader(s)
    PROVE  IInv'
<1> USE DEF IInv, supVars, chainVars, ammVars
<1>1. CASE BuildBrokerBlockProposal(s)
  <2>1. PICK txs, b :
          /\ proposal' = [proposal EXCEPT ![s] = [type |-> "tx", txs |-> b]]
          /\ net' = net \cup SendAway(s, txs, location[s])
          /\ UNCHANGED <<location, chainEpoch, ammVars, supLocation, supEpoch,
                         shardEpoch, epochSynced>>
    BY <1>1 DEF BuildBrokerBlockProposal
  <2>2. \A m \in net' : m \in net \/ m.type \notin {"start", "states", "info"}
    BY <2>1, OnlyTxsSentAway
  <2>3. \A o \in Shard : proposal'[o] = proposal[o] \/ proposal'[o].type # "migration"
    BY <2>1 DEF Shape
  <2>4. TxsOnly
    BY <2>1, <2>2, <2>3 DEF TxsOnly, Shape, EpochInv
  <2> QED
    BY <2>4, TxsOnlyKeeps
<1>2. CASE BrokerMigrateAccounts(s)
  BY <1>2, BrokerMigrateSends, SendsReportsKeeps
<1>3. CASE BrokerBlockCommitAndDeliver(s)
  <2>1. PICK infos :
          /\ \A i \in infos : i.type = "info" /\ i.shard = s /\ i.epoch = chainEpoch[s]
          /\ net' = net \cup infos
    <3> DEFINE info == [type |-> "info", shard |-> s, epoch |-> chainEpoch[s],
                        txs |-> proposal[s].txs]
               infos == IF stopped THEN {} ELSE {info}
    <3>1. net' = net \cup infos
      BY <1>3 DEF BrokerBlockCommitAndDeliver
    <3>2. \A i \in infos : i.type = "info" /\ i.shard = s /\ i.epoch = chainEpoch[s]
      OBVIOUS
    <3> HIDE DEF infos
    <3> QED
      BY <3>1, <3>2
  <2>2. /\ proposal' = [proposal EXCEPT ![s] = NoBlock]
        /\ UNCHANGED <<location, chainEpoch, ammVars, supLocation, supEpoch,
                       shardEpoch, epochSynced>>
    BY <1>3 DEF BrokerBlockCommitAndDeliver
  <2>3. \A o \in Shard : proposal'[o] = proposal[o] \/ proposal'[o].type # "migration"
    BY <2>2 DEF Shape, NoBlock
  <2>4. TxsOnly
    BY <2>1, <2>2, <2>3 DEF TxsOnly, Shape, EpochInv
  <2> QED
    BY <2>4, TxsOnlyKeeps
<1> QED
  BY <1>1, <1>2, <1>3, ProposeStep, CommitStep DEF BrokerLeader

\* Every step of the dynamic broker mode keeps the invariant of the relay mode.
LEMMA BrokerNextIInv == IInv /\ [BrokerNext]_brokerVars => IInv'
<1> SUFFICES ASSUME IInv, [BrokerNext]_brokerVars PROVE IInv'
  OBVIOUS
<1>1. CASE BrokerReadTxsAndSend \/ HandleMsg
  BY <1>1, BrokerSupervisorStep
<1>2. CASE Repartition \/ Stop
  BY <1>2, RepartitionStep, SupervisorTxs
<1>3. CASE \E s \in Shard : BrokerReceive(s)
  BY <1>3, LeaderTxs, StartStep, ReportStep DEF BrokerReceive
<1>4. CASE \E s \in Shard : BrokerLeader(s)
  BY <1>4, BrokerLeaderStep
<1>5. CASE UNCHANGED brokerVars
  <2>1. UNCHANGED vars
    BY <1>5 DEF brokerVars
  <2> QED
    BY <2>1, NextIInv
<1> QED
  BY <1>1, <1>2, <1>3, <1>4, <1>5 DEF BrokerNext

\* What supervisor, leaders, chains and messages know of a repartition fits
\* together in the dynamic broker mode, too.
THEOREM BrokerRepartitionInvariance == BrokerSpec => []IInv
<1>1. BrokerInit => IInv
  BY InitIInv DEF BrokerInit
<1> QED
  BY <1>1, BrokerNextIInv, PTL DEF BrokerSpec

\* In the dynamic broker mode, where transfers go back to the supervisor and
\* are cut into halves between repartitions, no message of a repartition is
\* refused, and shards with the same migration blocks agree on every account.
THEOREM BrokerEpochsAndLocations == BrokerSpec => [](EpochsInStep /\ LocationsAgree)
<1>1. IInv => EpochsInStep /\ LocationsAgree
  BY InvariantInStep DEF IInv, LocationInv, LocationsAgree
<1> QED
  BY <1>1, BrokerRepartitionInvariance, PTL

-----------------------------------------------------------------------------
(***************************************************************************)
(* The way of a transfer                                                   *)
(***************************************************************************)

Whole(t)     == [tx |-> t, stage |-> "inner", broker |-> NoBroker]
First(t, b)  == [tx |-> t, stage |-> "broker1", broker |-> b]
Second(t, b) == [tx |-> t, stage |-> "broker2", broker |-> b]

Record(t, b, n) == [tx |-> t, broker |-> b, confirmStage |-> n]

\* The records the manager has of t, and the blocks that t is in.
RecordsOf(t) == {i \in unconfirmed : i.tx = t}
BlocksOf(t)  == {q \in Shard \X BrokerCopy : q[2].tx = t /\ q[2] \in committed[q[1]]}

\* The places where t waits for its next step, each with the transaction that
\* is there: on a ready list the half that the record asks for, and in a report
\* the half that waits to be confirmed.
InSource(source, t, q) == t \in source /\ q = <<"source", NoShard, Whole(t)>>

OnList(records, list1, list2, t, q) ==
    \E b \in Broker :
        \/ t \in list1 /\ Record(t, b, 1) \in records /\ q = <<"ready", 1, First(t, b)>>
        \/ t \in list2 /\ Record(t, b, 2) \in records /\ q = <<"ready", 2, Second(t, b)>>

InMessages(msgs, t, q) ==
    \E m \in msgs :
        \/ m.type = "again" /\ t \in m.txs /\ q = <<"again", m, Whole(t)>>
        \/ m.type = "txs" /\ \E c \in m.txs : c.tx = t /\ q = <<"net", m, c>>
        \/ m.type = "info" /\ \E c \in m.txs : c.tx = t /\ c.stage # "inner" /\ q = <<"info", m, c>>

InPools(pools, t, q) == \E s \in Shard : \E c \in pools[s] : c.tx = t /\ q = <<"pool", s, c>>

InBlocks(blocks, t, q) ==
    \E s \in Shard : blocks[s].type = "tx" /\ \E c \in blocks[s].txs : c.tx = t /\ q = <<"block", s, c>>

WaitsAt(t, q) ==
    \/ InSource(unsent, t, q)
    \/ OnList(unconfirmed, readyBroker1, readyBroker2, t, q)
    \/ InMessages(net, t, q)
    \/ InPools(pool, t, q)
    \/ InBlocks(proposal, t, q)

\* What the manager (R) and the chains (B) know of t while it waits at q.
Fits(t, q, R, B) ==
    \/ q[3] = Whole(t) /\ R = {} /\ B = {}
    \/ \E b \in Broker :
         /\ q[3] = First(t, b) /\ R = {Record(t, b, 1)}
         /\ IF q[1] = "info" THEN \E s \in Shard : B = {<<s, First(t, b)>>} ELSE B = {}
    \/ \E b \in Broker, s \in Shard :
         /\ q[3] = Second(t, b) /\ R = {Record(t, b, 2)}
         /\ IF q[1] = "info"
            THEN \E o \in Shard : B = {<<s, First(t, b)>>, <<o, Second(t, b)>>}
            ELSE B = {<<s, First(t, b)>>}

\* All that can be in the chains of a transfer that is finished, and of any.
Finished(t, B) ==
    \/ \E s \in Shard : B = {<<s, Whole(t)>>}
    \/ \E s, o \in Shard, b \in Broker : B = {<<s, First(t, b)>>, <<o, Second(t, b)>>}

Executed(t, B) ==
    B = {} \/ (\E s \in Shard, b \in Broker : B = {<<s, First(t, b)>>}) \/ Finished(t, B)

\* A transfer waits in one place, which fits to what manager and chains know;
\* if in none, it is finished and the manager has forgotten it, or the stopped
\* supervisor has not been told.  What is on a ready list has a record.
OnItsWay(t) ==
    /\ \A p, q : WaitsAt(t, p) /\ WaitsAt(t, q) => p = q
    /\ \A q : WaitsAt(t, q) => Fits(t, q, RecordsOf(t), BlocksOf(t))
    /\ (\A q : ~WaitsAt(t, q)) => stopped \/ (RecordsOf(t) = {} /\ Finished(t, BlocksOf(t)))
    /\ Executed(t, BlocksOf(t))
    /\ t \in readyBroker1 => \E b \in Broker : Record(t, b, 1) \in RecordsOf(t)
    /\ t \in readyBroker2 => \E b \in Broker : Record(t, b, 2) \in RecordsOf(t)

WayShape ==
    /\ unsent \subseteq Tx /\ readyBroker1 \subseteq Tx /\ readyBroker2 \subseteq Tx
    /\ unconfirmed \subseteq TxInfoStage
    /\ pool \in [Shard -> SUBSET BrokerCopy]
    /\ committed \in [Shard -> SUBSET BrokerCopy]
    /\ DOMAIN proposal = Shard
    /\ \A s \in Shard : proposal[s].type = "tx" => proposal[s].txs \in SUBSET BrokerCopy
    /\ \A m \in net : /\ m.type \in {"txs", "info"} => m.txs \in SUBSET BrokerCopy
                      /\ m.type = "again" => m.txs \in SUBSET Tx

WayInv == WayShape /\ \A t \in Tx : OnItsWay(t)

LEMMA CopyFields ==
  /\ \A t : Whole(t).tx = t /\ Whole(t).stage = "inner" /\ Whole(t).broker = NoBroker
  /\ \A t, b : First(t, b).tx = t /\ First(t, b).stage = "broker1" /\ First(t, b).broker = b
  /\ \A t, b : Second(t, b).tx = t /\ Second(t, b).stage = "broker2" /\ Second(t, b).broker = b
  /\ \A t, b, n : Record(t, b, n).tx = t /\ Record(t, b, n).broker = b /\ Record(t, b, n).confirmStage = n
BY DEF Whole, First, Second, Record

LEMMA CopyIs ==
  ASSUME NEW c
  PROVE  c \in BrokerCopy <=>
           \E t \in Tx : \/ c = Whole(t)
                         \/ \E b \in Broker : c = First(t, b) \/ c = Second(t, b)
<1>1. ASSUME NEW t \in Tx, NEW b \in Broker
      PROVE  Whole(t) \in BrokerCopy /\ First(t, b) \in BrokerCopy /\ Second(t, b) \in BrokerCopy
  BY DEF BrokerCopy, Whole, First, Second
<1>2. ASSUME c \in BrokerCopy
      PROVE  \E t \in Tx : c = Whole(t) \/ \E b \in Broker : c = First(t, b) \/ c = Second(t, b)
  <2>1. CASE c \in [tx : Tx, stage : {"inner"}, broker : {NoBroker}]
    <3>1. c = Whole(c.tx) /\ c.tx \in Tx  BY <2>1 DEF Whole
    <3> QED  BY <3>1
  <2>2. CASE c \in [tx : Tx, stage : {"broker1", "broker2"}, broker : Broker]
    <3>1. (c = First(c.tx, c.broker) \/ c = Second(c.tx, c.broker)) /\ c.tx \in Tx /\ c.broker \in Broker
      BY <2>2 DEF First, Second
    <3> QED  BY <3>1
  <2> QED  BY <1>2, <2>1, <2>2 DEF BrokerCopy
<1>3. ASSUME NEW t \in Tx, c = Whole(t) PROVE c \in BrokerCopy
  BY <1>3 DEF BrokerCopy, Whole
<1> QED  BY <1>1, <1>2, <1>3

LEMMA RecordIs ==
  ASSUME NEW i
  PROVE  i \in TxInfoStage <=> \E t \in Tx, b \in Broker, n \in {1, 2} : i = Record(t, b, n)
<1>1. ASSUME i \in TxInfoStage PROVE \E t \in Tx, b \in Broker, n \in {1, 2} : i = Record(t, b, n)
  <2>1. i = Record(i.tx, i.broker, i.confirmStage) /\ i.tx \in Tx /\ i.broker \in Broker /\ i.confirmStage \in {1, 2}
    BY <1>1 DEF TxInfoStage, Record
  <2> QED  BY <2>1
<1> QED  BY <1>1 DEF TxInfoStage, Record

\* Each kind of place has a name.
LEMMA PlaceNames ==
  ASSUME NEW t, NEW q
  PROVE  /\ \A x : InSource(x, t, q) => q[1] = "source"
         /\ \A x, y, z : OnList(x, y, z, t, q) => q[1] = "ready"
         /\ \A x : InMessages(x, t, q) => q[1] \in {"again", "net", "info"}
         /\ \A x : InPools(x, t, q) => q[1] = "pool"
         /\ \A x : InBlocks(x, t, q) => q[1] = "block"
BY DEF InSource, OnList, InMessages, InPools, InBlocks

\* Nothing changes for t.
LEMMA Unmoved ==
  ASSUME NEW t \in Tx, OnItsWay(t),
         \A q : WaitsAt(t, q)' <=> WaitsAt(t, q),
         RecordsOf(t)' = RecordsOf(t), BlocksOf(t)' = BlocksOf(t),
         t \in readyBroker1' => t \in readyBroker1,
         t \in readyBroker2' => t \in readyBroker2,
         stopped => stopped'
  PROVE  OnItsWay(t)'
BY DEF OnItsWay

\* t is where it belongs by what manager and chains know now.
LEMMA Moved ==
  ASSUME NEW t \in Tx, NEW q,
         \A x : WaitsAt(t, x)' <=> x = q,
         Fits(t, q, RecordsOf(t)', BlocksOf(t)'),
         t \in readyBroker1' => \E b \in Broker : Record(t, b, 1) \in RecordsOf(t)',
         t \in readyBroker2' => \E b \in Broker : Record(t, b, 2) \in RecordsOf(t)'
  PROVE  OnItsWay(t)'
<1>1. \A R, B : Fits(t, q, R, B) => Executed(t, B)  BY DEF Fits, Executed, Finished
<1>2. Executed(t, BlocksOf(t)')  BY <1>1
<1>3. \A x : WaitsAt(t, x)' => Fits(t, x, RecordsOf(t)', BlocksOf(t)')  OBVIOUS
<1>4. \E x : WaitsAt(t, x)'  OBVIOUS
<1> QED  BY <1>2, <1>3, <1>4 DEF OnItsWay, Fits, Executed, Finished

\* t waits elsewhere for the same step.
LEMMA Handed ==
  ASSUME NEW t \in Tx, OnItsWay(t), NEW p, NEW q, WaitsAt(t, p),
         \A x : WaitsAt(t, x)' <=> x = q,
         q[3] = p[3], p[1] # "info", q[1] # "info",
         RecordsOf(t)' = RecordsOf(t), BlocksOf(t)' = BlocksOf(t),
         t \in readyBroker1' => t \in readyBroker1,
         t \in readyBroker2' => t \in readyBroker2
  PROVE  OnItsWay(t)'
<1>1. Fits(t, p, RecordsOf(t), BlocksOf(t))  BY DEF OnItsWay
<1>2. \A R, B : Fits(t, p, R, B) => Fits(t, q, R, B)  BY DEF Fits
<1>3. Fits(t, q, RecordsOf(t)', BlocksOf(t)')  BY <1>1, <1>2
<1>4. /\ t \in readyBroker1' => \E b \in Broker : Record(t, b, 1) \in RecordsOf(t)'
      /\ t \in readyBroker2' => \E b \in Broker : Record(t, b, 2) \in RecordsOf(t)'
  BY DEF OnItsWay
<1> QED  BY <1>3, <1>4, Moved

\* A step that touches nothing that a transfer waits in.
LEMMA WayStays ==
  ASSUME WayInv,
         UNCHANGED <<unsent, pool, committed, bookVars>>,
         DOMAIN proposal' = Shard,
         \A s \in Shard : proposal[s].type = "tx" \/ proposal'[s].type = "tx" => proposal'[s] = proposal[s],
         \A m : m.type \in {"txs", "info", "again"} => (m \in net' <=> m \in net),
         stopped => stopped'
  PROVE  WayInv'
<1> USE DEF bookVars
<1>1. WayShape'  BY DEF WayInv, WayShape
<1>2. ASSUME NEW t \in Tx PROVE OnItsWay(t)'
  <2>1. \A q : InMessages(net', t, q) <=> InMessages(net, t, q)  BY DEF InMessages
  <2>2. \A q : InBlocks(proposal', t, q) <=> InBlocks(proposal, t, q)  BY DEF InBlocks
  <2>3. \A q : WaitsAt(t, q)' <=> WaitsAt(t, q)  BY <2>1, <2>2 DEF WaitsAt
  <2>4. RecordsOf(t)' = RecordsOf(t) /\ BlocksOf(t)' = BlocksOf(t)  BY DEF RecordsOf, BlocksOf
  <2> QED  BY <2>3, <2>4, Unmoved DEF WayInv
<1> QED  BY <1>1, <1>2 DEF WayInv

\* A shard receives transactions.
LEMMA WayReceive ==
  ASSUME WayInv, NEW m \in net, m.to \in Shard, HandleReceiveTxs(m), UNCHANGED bookVars
  PROVE  WayInv'
<1> USE DEF bookVars
<1> DEFINE s == m.to
<1>1. /\ m.type = "txs" /\ net' = net \ {m}
      /\ pool' = [pool EXCEPT ![s] = pool[s] \cup m.txs]
      /\ UNCHANGED <<unsent, proposal, committed, stopped>>
  BY DEF HandleReceiveTxs, supVars, chainVars
<1>2. m.txs \in SUBSET BrokerCopy  BY <1>1 DEF WayInv, WayShape
<1>3. WayShape'  BY <1>1, <1>2 DEF WayInv, WayShape
<1>4. ASSUME NEW t \in Tx PROVE OnItsWay(t)'
  <2>1. OnItsWay(t)  BY DEF WayInv
  <2>2. RecordsOf(t)' = RecordsOf(t) /\ BlocksOf(t)' = BlocksOf(t)  BY <1>1 DEF RecordsOf, BlocksOf
  <2>3. \A q : InMessages(net', t, q) <=>
               InMessages(net, t, q) /\ ~\E c \in m.txs : c.tx = t /\ q = <<"net", m, c>>
    BY <1>1 DEF InMessages
  <2>4. \A q : InPools(pool', t, q) <=>
               InPools(pool, t, q) \/ \E c \in m.txs : c.tx = t /\ q = <<"pool", s, c>>
    BY <1>1 DEF InPools, WayInv, WayShape
  <2>5. ASSUME NEW q
        PROVE  WaitsAt(t, q)' <=>
               \/ WaitsAt(t, q) /\ ~\E c \in m.txs : c.tx = t /\ q = <<"net", m, c>>
               \/ \E c \in m.txs : c.tx = t /\ q = <<"pool", s, c>>
    <3>1. \A c : q = <<"net", m, c>> => q[1] = "net"  OBVIOUS
    <3>2. q[1] = "net" => /\ ~InSource(unsent, t, q)
                          /\ ~OnList(unconfirmed, readyBroker1, readyBroker2, t, q)
                          /\ ~InPools(pool, t, q) /\ ~InBlocks(proposal, t, q)
      BY PlaceNames
    <3>3. UNCHANGED <<unsent, unconfirmed, readyBroker1, readyBroker2, proposal>>  BY <1>1
    <3> QED  BY <2>3, <2>4, <3>1, <3>2, <3>3 DEF WaitsAt
  <2>6. CASE ~\E c \in m.txs : c.tx = t
    <3>1. \A q : WaitsAt(t, q)' <=> WaitsAt(t, q)  BY <2>5, <2>6
    <3> QED  BY <1>1, <2>1, <2>2, <3>1, Unmoved
  <2>7. ASSUME NEW c \in m.txs, c.tx = t PROVE OnItsWay(t)'
    <3> DEFINE p(d) == <<"net", m, d>>
               q(d) == <<"pool", s, d>>
    <3>1. \A d \in m.txs : d.tx = t => InMessages(net, t, p(d))  BY <1>1 DEF InMessages
    <3>2. \A d \in m.txs : d.tx = t => WaitsAt(t, p(d))  BY <3>1 DEF WaitsAt
    <3>3. \A d \in m.txs : d.tx = t => d = c  BY <2>1, <2>7, <3>2 DEF OnItsWay
    <3>4. \A x : WaitsAt(t, x) => x = p(c)  BY <2>1, <2>7, <3>2 DEF OnItsWay
    <3>5. \A x : WaitsAt(t, x)' <=> x = q(c)  BY <2>5, <2>7, <3>3, <3>4
    <3>6. p(c)[3] = c /\ q(c)[3] = c /\ p(c)[1] # "info" /\ q(c)[1] # "info"  OBVIOUS
    <3>7. WaitsAt(t, p(c))  BY <2>7, <3>2
    <3> HIDE DEF p, q
    <3> QED  BY <1>1, <2>1, <2>2, <3>5, <3>6, <3>7, Handed
  <2> QED  BY <2>6, <2>7
<1> QED  BY <1>3, <1>4 DEF WayInv

\* What a leader sends away is in one message, to a shard or to the supervisor.
LEMMA SentAway ==
  ASSUME NEW s, NEW txs \in SUBSET BrokerCopy, NEW loc \in [Account -> Shard]
  PROVE  LET out == SendAway(s, txs, loc)
         IN  /\ \A m \in out : \/ m.type = "txs" /\ m.txs \in SUBSET txs
                               \/ m.type = "again" /\ m.txs \in SUBSET Tx /\ ~stopped
             /\ \A c \in txs :
                  \/ /\ DestLoc(loc, c) \in Shard
                     /\ \A m \in out : m.type = "again" => c.stage # "inner" \/ c.tx \notin m.txs
                  \/ /\ DestLoc(loc, c) = Supervisor0 /\ c = Whole(c.tx)
                     /\ \A m \in out : m.type = "txs" => c \notin m.txs
                     /\ ~stopped => \E m \in out : \A n \in out : n.type = "again" /\ c.tx \in n.txs <=> n = m
             /\ \A c \in txs : DestLoc(loc, c) \in Shard \ {s} =>
                   \E m \in out : \A n \in out : n.type = "txs" /\ c \in n.txs <=> n = m
             /\ \A c \in txs : DestLoc(loc, c) = s => \A m \in out : m.type = "txs" => c \notin m.txs
             /\ \A m \in out : m.type = "again" => \A t \in m.txs : Whole(t) \in txs
<1> DEFINE again == {c \in txs : DestLoc(loc, c) = Supervisor0}
           away  == {c \in txs : DestLoc(loc, c) \in Shard \ {s}}
           dest  == [c \in away |-> DestLoc(loc, c)]
           note  == [type |-> "again", txs |-> {c.tx : c \in again}]
           back  == IF again = {} \/ stopped THEN {} ELSE {note}
           sent  == SendTxs(dest)
           out   == SendAway(s, txs, loc)
<1>1. out = sent \cup back  BY DEF SendAway
<1>2. Supervisor0 \notin Shard  BY BrokerAssumption, Zenon
<1>3. ASSUME NEW c \in txs
      PROVE  /\ c.tx \in Tx
             /\ c.stage \in {"inner", "broker1", "broker2"}
             /\ c.stage = "inner" => c = Whole(c.tx)
             /\ c.stage # "inner" => DestLoc(loc, c) \in Shard
             /\ DestLoc(loc, c) \in Shard \cup {Supervisor0}
  <2>1. PICK t \in Tx : c = Whole(t) \/ \E b \in Broker : c = First(t, b) \/ c = Second(t, b)
    BY CopyIs
  <2>2. c.tx = t /\ c.stage \in {"inner", "broker1", "broker2"} /\ (c.stage = "inner" => c = Whole(c.tx))
    BY <2>1, CopyFields
  <2>3. loc[Sender[t]] \in Shard /\ loc[Recipient[t]] \in Shard  BY TxAssumption
  <2>4. CASE c.stage = "inner"  BY <2>2, <2>3, <2>4 DEF DestLoc
  <2>5. CASE c.stage = "broker1"  BY <2>2, <2>3, <2>5 DEF DestLoc
  <2>6. CASE c.stage = "broker2"  BY <2>2, <2>3, <2>6 DEF DestLoc
  <2> QED  BY <2>2, <2>4, <2>5, <2>6
<1>4. DOMAIN dest = away  OBVIOUS
<1>5. /\ \A m \in sent : m.type = "txs" /\ m.txs \in SUBSET away
      /\ \A c \in away : \E m \in sent : \A n \in sent : c \in n.txs <=> n = m
  <2> HIDE DEF dest
  <2> QED  BY <1>4, SentOnce
<1>6. note.type = "again" /\ note.txs = {c.tx : c \in again}  OBVIOUS
<1>7. \A m \in back : m = note /\ ~stopped  OBVIOUS
<1>8. again # {} /\ ~stopped => note \in back  OBVIOUS
<1>9. \A c \in again : c \in txs /\ DestLoc(loc, c) = Supervisor0 /\ c = Whole(c.tx) /\ c.tx \in Tx
  BY <1>2, <1>3
<1>10. \A c : c \in away <=> c \in txs /\ DestLoc(loc, c) \in Shard \ {s}  OBVIOUS
<1>11. \A c : c \in again <=> c \in txs /\ DestLoc(loc, c) = Supervisor0  OBVIOUS
<1> HIDE DEF again, away, dest, back, note, sent
<1>12. \A m \in out : \/ m \in sent /\ m.type = "txs" /\ m.txs \in SUBSET away
                      \/ m = note /\ m.type = "again" /\ ~stopped
  BY <1>1, <1>5, <1>6, <1>7
<1>13. \A t : t \in note.txs <=> \E c \in again : c.tx = t  BY <1>6
<1>14. \A t \in note.txs : Whole(t) \in again /\ t \in Tx  BY <1>9, <1>13
<1>15. ASSUME NEW c \in txs, DestLoc(loc, c) \in Shard, c.stage = "inner" PROVE c.tx \notin note.txs
  <2>1. c = Whole(c.tx)  BY <1>3, <1>15
  <2>2. c \notin again  BY <1>2, <1>11, <1>15
  <2> QED  BY <1>14, <2>1, <2>2
<1>16. ASSUME NEW c \in txs, DestLoc(loc, c) = Supervisor0
       PROVE  /\ c = Whole(c.tx)
              /\ \A m \in out : m.type = "txs" => c \notin m.txs
              /\ ~stopped => \E m \in out : \A n \in out : n.type = "again" /\ c.tx \in n.txs <=> n = m
  <2>1. c \in again /\ c \notin away  BY <1>2, <1>10, <1>11, <1>16
  <2>2. ~stopped => note \in out  BY <1>1, <1>8, <2>1
  <2>3. c.tx \in note.txs  BY <1>13, <2>1
  <2> QED  BY <1>6, <1>9, <1>12, <2>1, <2>2, <2>3
<1>17. ASSUME NEW c \in txs, DestLoc(loc, c) \in Shard \ {s}
       PROVE  \E m \in out : \A n \in out : n.type = "txs" /\ c \in n.txs <=> n = m
  <2>1. c \in away  BY <1>10, <1>17
  <2>2. PICK m \in sent : \A n \in sent : c \in n.txs <=> n = m  BY <1>5, <2>1
  <2>3. m \in out /\ m.type = "txs"  BY <1>1, <1>5
  <2> QED  BY <1>12, <2>2, <2>3
<1>18. \A c \in txs : DestLoc(loc, c) = s => \A m \in out : m.type = "txs" => c \notin m.txs
  BY <1>10, <1>12
<1>19. \A m \in out : \/ m.type = "txs" /\ m.txs \in SUBSET txs
                      \/ m.type = "again" /\ m.txs \in SUBSET Tx /\ ~stopped
  BY <1>10, <1>12, <1>14
<1>20. \A m \in out : m.type = "again" => \A t \in m.txs : Whole(t) \in txs
  BY <1>11, <1>12, <1>14
<1>21. ASSUME NEW c \in txs, DestLoc(loc, c) \in Shard, NEW m \in out, m.type = "again"
       PROVE  c.stage # "inner" \/ c.tx \notin m.txs
  BY <1>12, <1>15, <1>21
<1>22. \A c \in txs : DestLoc(loc, c) \in Shard \/ DestLoc(loc, c) = Supervisor0  BY <1>3
<1> HIDE DEF out
<1> QED  BY <1>16, <1>17, <1>18, <1>19, <1>20, <1>21, <1>22 DEF out

\* A leader takes transactions from its pool, keeps some for its block, and
\* sends away those that do not belong here.
LEMMA WayLeaves ==
  ASSUME WayInv, NEW s \in Shard, NEW txs \in SUBSET pool[s], NEW loc \in [Account -> Shard],
         NEW left \in SUBSET txs, NEW packed \in SUBSET left,
         packed \subseteq Stays(s, txs, loc), left \ packed = txs \ Stays(s, txs, loc),
         NEW other, \A m \in other : m.type \notin {"txs", "info", "again"},
         UNCHANGED <<unsent, committed, bookVars, stopped>>,
         pool' = [pool EXCEPT ![s] = pool[s] \ left],
         net' = net \cup other \cup SendAway(s, txs, loc),
         DOMAIN proposal' = Shard,
         \A o \in Shard \ {s} : proposal'[o] = proposal[o],
         proposal[s].type # "tx",
         proposal'[s].type # "tx" => packed = {},
         proposal'[s].type = "tx" => proposal'[s].txs = packed
  PROVE  WayInv'
<1> USE DEF bookVars
<1> DEFINE out == SendAway(s, txs, loc)
<1>1. txs \in SUBSET BrokerCopy  BY DEF WayInv, WayShape
<1>2. /\ \A m \in out : \/ m.type = "txs" /\ m.txs \in SUBSET txs
                        \/ m.type = "again" /\ m.txs \in SUBSET Tx /\ ~stopped
      /\ \A c \in txs :
           \/ /\ DestLoc(loc, c) \in Shard
              /\ \A m \in out : m.type = "again" => c.stage # "inner" \/ c.tx \notin m.txs
           \/ /\ DestLoc(loc, c) = Supervisor0 /\ c = Whole(c.tx)
              /\ \A m \in out : m.type = "txs" => c \notin m.txs
              /\ ~stopped => \E m \in out : \A n \in out : n.type = "again" /\ c.tx \in n.txs <=> n = m
      /\ \A c \in txs : DestLoc(loc, c) \in Shard \ {s} =>
            \E m \in out : \A n \in out : n.type = "txs" /\ c \in n.txs <=> n = m
      /\ \A c \in txs : DestLoc(loc, c) = s => \A m \in out : m.type = "txs" => c \notin m.txs
      /\ \A m \in out : m.type = "again" => \A t \in m.txs : Whole(t) \in txs
  BY <1>1, SentAway
<1>3. net' = net \cup other \cup out  OBVIOUS
<1> HIDE DEF out
<1>4. \A c \in txs : c \in Stays(s, txs, loc) <=> DestLoc(loc, c) = s  BY DEF Stays
<1>5. WayShape'
  <2>1. pool' \in [Shard -> SUBSET BrokerCopy]  BY DEF WayInv, WayShape
  <2>2. \A o \in Shard : proposal'[o].type = "tx" => proposal'[o].txs \in SUBSET BrokerCopy
    BY <1>1 DEF WayInv, WayShape
  <2>3. \A m \in net' : /\ m.type \in {"txs", "info"} => m.txs \in SUBSET BrokerCopy
                        /\ m.type = "again" => m.txs \in SUBSET Tx
    BY <1>1, <1>2, <1>3 DEF WayInv, WayShape
  <2> QED  BY <2>1, <2>2, <2>3 DEF WayInv, WayShape
<1>6. ASSUME NEW t \in Tx PROVE OnItsWay(t)'
  <2>1. OnItsWay(t)  BY DEF WayInv
  <2>2. RecordsOf(t)' = RecordsOf(t) /\ BlocksOf(t)' = BlocksOf(t)  BY DEF RecordsOf, BlocksOf
  <2>3. ASSUME NEW q
        PROVE  InMessages(net', t, q) <=> InMessages(net, t, q) \/ InMessages(out, t, q)
    BY <1>3 DEF InMessages
  <2>4. ASSUME NEW q
        PROVE  InPools(pool', t, q) <=>
                 InPools(pool, t, q) /\ ~\E c \in left : c.tx = t /\ q = <<"pool", s, c>>
    BY DEF InPools, WayInv, WayShape
  <2>5. ASSUME NEW q
        PROVE  InBlocks(proposal', t, q) <=>
                 InBlocks(proposal, t, q) \/ \E c \in packed : c.tx = t /\ q = <<"block", s, c>>
    BY DEF InBlocks
  <2>6. ASSUME NEW q
        PROVE  WaitsAt(t, q)' <=>
                 \/ WaitsAt(t, q) /\ ~\E c \in left : c.tx = t /\ q = <<"pool", s, c>>
                 \/ InMessages(out, t, q)
                 \/ \E c \in packed : c.tx = t /\ q = <<"block", s, c>>
    <3>1. \A c : q = <<"pool", s, c>> => q[1] = "pool"  OBVIOUS
    <3>2. q[1] = "pool" => /\ ~InSource(unsent, t, q)
                           /\ ~OnList(unconfirmed, readyBroker1, readyBroker2, t, q)
                           /\ ~InMessages(net, t, q) /\ ~InBlocks(proposal, t, q)
      BY PlaceNames
    <3> QED  BY <2>3, <2>4, <2>5, <3>1, <3>2 DEF WaitsAt
  <2>7. CASE ~\E c \in left : c.tx = t
    <3>1. \A m \in out : m.type = "txs" => ~\E c \in m.txs : c.tx = t
      BY <1>2, <1>4, <2>7
    <3>2. \A m \in out : m.type = "again" => t \notin m.txs
      <4> SUFFICES ASSUME NEW m \in out, m.type = "again", t \in m.txs PROVE FALSE  OBVIOUS
      <4>1. Whole(t) \in txs  BY <1>2
      <4>2. Whole(t).tx = t /\ Whole(t).stage = "inner"  BY CopyFields
      <4>3. Whole(t) \notin left  BY <2>7, <4>2
      <4>4. DestLoc(loc, Whole(t)) = s  BY <1>4, <4>1, <4>3
      <4>5. Supervisor0 \notin Shard  BY BrokerAssumption, Zenon
      <4> QED  BY <1>2, <4>1, <4>2, <4>4, <4>5
    <3>3. \A q : ~InMessages(out, t, q)  BY <1>2, <3>1, <3>2 DEF InMessages
    <3>4. \A q : WaitsAt(t, q)' <=> WaitsAt(t, q)  BY <2>6, <2>7, <3>3
    <3> QED  BY <2>1, <2>2, <3>4, Unmoved
  <2>8. ASSUME NEW c \in left, c.tx = t PROVE OnItsWay(t)'
    <3> DEFINE p(d) == <<"pool", s, d>>
    <3>1. \A d \in txs : d.tx = t => InPools(pool, t, p(d))  BY DEF InPools
    <3>2. \A d \in txs : d.tx = t => WaitsAt(t, p(d))  BY <3>1 DEF WaitsAt
    <3>3. \A d \in txs : d.tx = t => d = c  BY <2>1, <2>8, <3>2 DEF OnItsWay
    <3>4. \A x : WaitsAt(t, x) <=> x = p(c)  BY <2>1, <2>8, <3>2 DEF OnItsWay
    <3>5. ASSUME NEW q
          PROVE  WaitsAt(t, q)' <=> InMessages(out, t, q) \/ (c \in packed /\ q = <<"block", s, c>>)
      BY <2>6, <2>8, <3>3, <3>4
    <3>6. WaitsAt(t, p(c)) /\ p(c)[1] # "info" /\ p(c)[3] = c  BY <3>4
    <3> HIDE DEF p
    <3>7. Supervisor0 \notin Shard  BY BrokerAssumption, Zenon
    <3>8. \A m \in out : m.type = "txs" => \A d \in m.txs : d.tx = t => d = c  BY <1>2, <3>3
    <3>9. \A m \in out : m.type = "again" /\ t \in m.txs => c = Whole(t)
      BY <1>2, <3>3, CopyFields
    <3>10. \A m \in out : m.type # "info"  BY <1>2
    <3>11. ASSUME NEW q
           PROVE  InMessages(out, t, q) <=>
                    \E m \in out : \/ m.type = "again" /\ t \in m.txs /\ q = <<"again", m, c>>
                                   \/ m.type = "txs" /\ c \in m.txs /\ q = <<"net", m, c>>
      BY <2>8, <3>8, <3>9, <3>10 DEF InMessages
    <3>12. c.stage = "inner" \/ c # Whole(t)  BY CopyFields
    <3>13. CASE DestLoc(loc, c) = s
      <4>1. c \in packed  BY <1>4, <2>8, <3>13
      <4>2. \A m \in out : m.type = "txs" => c \notin m.txs  BY <1>2, <3>13
      <4>3. \A m \in out : m.type = "again" => t \notin m.txs  BY <1>2, <2>8, <3>7, <3>9, <3>12, <3>13
      <4>4. \A q : ~InMessages(out, t, q)  BY <3>11, <4>2, <4>3
      <4> DEFINE b == <<"block", s, c>>
      <4>5. \A x : WaitsAt(t, x)' <=> x = b  BY <3>5, <4>1, <4>4
      <4>6. b[1] # "info" /\ b[3] = c  OBVIOUS
      <4> HIDE DEF b
      <4> QED  BY <2>1, <2>2, <3>6, <4>5, <4>6, Handed
    <3>14. CASE DestLoc(loc, c) # s
      <4>1. c \notin packed  BY <1>4, <3>14
      <4>2. CASE DestLoc(loc, c) \in Shard
        <5>1. PICK m \in out : \A n \in out : n.type = "txs" /\ c \in n.txs <=> n = m
          BY <1>2, <3>14, <4>2
        <5>2. \A n \in out : n.type = "again" => t \notin n.txs
          BY <1>2, <2>8, <3>7, <3>9, <3>12, <4>2
        <5> DEFINE b == <<"net", m, c>>
        <5>3. \A x : WaitsAt(t, x)' <=> x = b  BY <3>5, <3>11, <4>1, <5>1, <5>2
        <5>4. b[1] # "info" /\ b[3] = c  OBVIOUS
        <5> HIDE DEF b
        <5> QED  BY <2>1, <2>2, <3>6, <5>3, <5>4, Handed
      <4>3. CASE DestLoc(loc, c) \notin Shard /\ ~stopped
        <5>1. \A n \in out : n.type = "txs" => c \notin n.txs  BY <1>2, <4>3
        <5>2. PICK m \in out : \A n \in out : n.type = "again" /\ t \in n.txs <=> n = m
          BY <1>2, <2>8, <4>3
        <5> DEFINE b == <<"again", m, c>>
        <5>3. \A x : WaitsAt(t, x)' <=> x = b  BY <3>5, <3>11, <4>1, <5>1, <5>2
        <5>4. b[1] # "info" /\ b[3] = c  OBVIOUS
        <5> HIDE DEF b
        <5> QED  BY <2>1, <2>2, <3>6, <5>3, <5>4, Handed
      <4>4. CASE DestLoc(loc, c) \notin Shard /\ stopped
        <5>1. \A n \in out : n.type = "txs" => c \notin n.txs  BY <1>2, <4>4
        <5>2. \A n \in out : n.type # "again"  BY <1>2, <4>4
        <5>3. \A x : ~WaitsAt(t, x)'  BY <3>5, <3>11, <4>1, <5>1, <5>2
        <5>4. stopped'  BY <4>4
        <5> QED  BY <2>1, <2>2, <5>3, <5>4 DEF OnItsWay
      <4> QED  BY <4>2, <4>3, <4>4
    <3> QED  BY <3>13, <3>14
  <2> QED  BY <2>7, <2>8
<1> QED  BY <1>5, <1>6 DEF WayInv

-----------------------------------------------------------------------------
(***************************************************************************)
(* The steps of the dynamic broker mode                                    *)
(***************************************************************************)

\* What the migration sees of a step: nothing, one of its own, or a block.
Migrates ==
    \/ Calm /\ UNCHANGED balance
    \/ Repartition
    \/ \E m \in net : HandleRepartitionStart(m) \/ HandleAccountMigration(m)
    \/ \E s \in Shard :
         \/ SendsReports(s) /\ proposal[s].type # "tx" /\ UNCHANGED balance
         \/ BuildMigrationProposal(s)
         \/ MigrationBlockCommit(s)

\* To the migration a block of transactions is nothing new.
LEMMA CommitCalm ==
    ASSUME IInv, NEW s \in Shard, BrokerBlockCommitAndDeliver(s)
    PROVE  Calm
<1> DEFINE info == [type |-> "info", shard |-> s, epoch |-> chainEpoch[s], txs |-> proposal[s].txs]
           infos == IF stopped THEN {} ELSE {info}
<1>1. net' = net \cup infos  BY DEF BrokerBlockCommitAndDeliver
<1>2. \A i \in infos : i.type = "info"  OBVIOUS
<1> HIDE DEF infos
<1>3. \A m \in net' : m.type \in {"start", "states"} => m \in net  BY <1>1, <1>2
<1>4. \A o \in Shard : proposal'[o] = proposal[o] \/ proposal'[o].type = "none"
  BY DEF BrokerBlockCommitAndDeliver, NoBlock, IInv, Shape
<1>5. UNCHANGED <<location, chainEpoch, ammVars, supLocation, supEpoch>>
  BY DEF BrokerBlockCommitAndDeliver, supVars
<1> QED  BY <1>3, <1>4, <1>5 DEF Calm

LEMMA BuildCalm ==
    ASSUME IInv, NEW s \in Shard, BuildBrokerBlockProposal(s)
    PROVE  Calm /\ UNCHANGED balance
<1>1. PICK txs, b :
        /\ proposal' = [proposal EXCEPT ![s] = [type |-> "tx", txs |-> b]]
        /\ net' = net \cup SendAway(s, txs, location[s])
  BY DEF BuildBrokerBlockProposal
<1>2. ~ready[s] /\ UNCHANGED <<chainVars, ammVars, supVars>>  BY DEF BuildBrokerBlockProposal
<1>3. \A m \in net' : m.type \in {"start", "states"} => m \in net  BY <1>1, OnlyTxsSentAway
<1>4. \A o \in Shard : proposal'[o] = proposal[o] \/ (~ready[o] /\ proposal'[o].type = "tx")
  BY <1>1, <1>2 DEF IInv, Shape
<1> QED  BY <1>2, <1>3, <1>4 DEF Calm, chainVars, supVars

\* The dynamic broker mode migrates as the relay mode does.
LEMMA BrokerMigrates ==
    ASSUME IInv, [BrokerNext]_brokerVars,
           ~\E s \in Shard : BrokerBlockCommitAndDeliver(s)
    PROVE  Migrates /\ UNCHANGED <<committed, brokerBalance>>
<1> USE DEF chainVars, supVars
<1>1. CASE BrokerReadTxsAndSend
  <2>1. PICK dest : net' = net \cup SendTxs(dest)
    BY <1>1 DEF BrokerReadTxsAndSend
  <2>2. \A m \in net' : m.type \in {"start", "states"} => m \in net  BY <2>1, OnlyTxsSent
  <2> QED  BY <1>1, <2>2 DEF BrokerReadTxsAndSend, Calm, Migrates
<1>2. CASE HandleMsg
  BY <1>2 DEF HandleMsg, HandleBrokerBlockInfo, HandleTxSendAgain, Calm, Migrates
<1>3. CASE Repartition /\ UNCHANGED <<bookVars, brokerBalance>>
  BY <1>3 DEF Repartition, Migrates
<1>4. CASE Stop /\ UNCHANGED <<bookVars, brokerBalance>>
  BY <1>4 DEF Stop, Calm, Migrates
<1>5. ASSUME NEW s \in Shard, BrokerReceive(s) PROVE Migrates /\ UNCHANGED <<committed, brokerBalance>>
  <2>1. PICK m \in net : HandleReceiveTxs(m) \/ HandleRepartitionStart(m) \/ HandleAccountMigration(m)
    BY <1>5 DEF BrokerReceive
  <2>2. CASE HandleReceiveTxs(m)
    BY <1>5, <2>2 DEF BrokerReceive, HandleReceiveTxs, Calm, Migrates
  <2>3. CASE HandleRepartitionStart(m) \/ HandleAccountMigration(m)
    BY <1>5, <2>3 DEF BrokerReceive, HandleRepartitionStart, HandleAccountMigration, Migrates
  <2> QED  BY <2>1, <2>2, <2>3
<1>6. ASSUME NEW s \in Shard, BrokerLeader(s) PROVE Migrates /\ UNCHANGED <<committed, brokerBalance>>
  <2>1. CASE BuildBrokerBlockProposal(s)
    <3>1. UNCHANGED <<committed, brokerBalance>>  BY <2>1 DEF BuildBrokerBlockProposal
    <3> QED  BY <2>1, <3>1, BuildCalm DEF Migrates
  <2>2. CASE BrokerMigrateAccounts(s)
    <3>1. proposal[s].type # "tx" /\ UNCHANGED <<committed, balance, brokerBalance>>
      BY <2>2 DEF BrokerMigrateAccounts, NoBlock
    <3> QED  BY <2>2, <3>1, BrokerMigrateSends DEF Migrates
  <2>3. CASE (BuildMigrationProposal(s) \/ MigrationBlockCommit(s)) /\ UNCHANGED <<bookVars, brokerBalance>>
    <3>1. UNCHANGED committed  BY <2>3 DEF BuildMigrationProposal, MigrationBlockCommit
    <3> QED  BY <2>3, <3>1 DEF Migrates
  <2> QED  BY <1>6, <2>1, <2>2, <2>3 DEF BrokerLeader
<1>7. CASE UNCHANGED brokerVars
  BY <1>7 DEF brokerVars, vars, Calm, Migrates
<1> QED  BY <1>1, <1>2, <1>3, <1>4, <1>5, <1>6, <1>7 DEF BrokerNext

\* What the shards know of the moves.
LEMMA BrokerMoves ==
    ASSUME IInv, MoveInv, [BrokerNext]_brokerVars
    PROVE  MoveInv'
<1>1. CASE \E s \in Shard : BrokerBlockCommitAndDeliver(s)
  BY <1>1, CommitCalm, CalmMoves
<1>2. CASE ~\E s \in Shard : BrokerBlockCommitAndDeliver(s)
  <2>1. Migrates  BY <1>2, BrokerMigrates
  <2> QED
    BY <2>1, CalmMoves, MovesRepartition, MovesStart, MovesReport, MovesMigrate, MovesPropose,
       MovesMigrationCommit DEF Migrates
<1> QED  BY <1>1, <1>2

-----------------------------------------------------------------------------

\* A leader packs a block.
LEMMA WayBuild ==
  ASSUME WayInv, MoveInv, NEW s \in Shard, BuildBrokerBlockProposal(s)
  PROVE  WayInv'
<1> DEFINE loc == location[s]
<1>1. PICK txs \in SUBSET pool[s] :
        /\ pool' = [pool EXCEPT ![s] = pool[s] \ txs]
        /\ proposal' = [proposal EXCEPT ![s] = [type |-> "tx", txs |-> Stays(s, txs, loc)]]
        /\ net' = net \cup SendAway(s, txs, loc)
  BY DEF BuildBrokerBlockProposal
<1>2. /\ UNCHANGED <<unsent, committed, bookVars, stopped>>
      /\ proposal[s].type # "tx"
  BY DEF BuildBrokerBlockProposal, NoBlock, chainVars, supVars
<1> DEFINE packed == Stays(s, txs, loc)
<1>3. packed \in SUBSET txs  BY DEF Stays
<1>4. loc \in [Account -> Shard]  BY DEF MoveInv, MapsInv
<1>5. /\ DOMAIN proposal' = Shard
      /\ \A o \in Shard \ {s} : proposal'[o] = proposal[o]
      /\ proposal'[s].type = "tx" /\ proposal'[s].txs = packed
  BY <1>1 DEF WayInv, WayShape
<1> DEFINE other == {}
<1>6. /\ net' = net \cup other \cup SendAway(s, txs, loc)
      /\ \A m \in other : m.type \notin {"txs", "info", "again"}
  BY <1>1
<1>7. /\ txs \ packed = txs \ Stays(s, txs, loc) /\ packed \subseteq Stays(s, txs, loc)
      /\ txs \in SUBSET txs
  OBVIOUS
<1>8. pool' = [pool EXCEPT ![s] = pool[s] \ txs]  BY <1>1
<1> HIDE DEF packed, loc, other
<1> QED  BY <1>8, <1>2, <1>3, <1>4, <1>5, <1>6, <1>7, WayLeaves

LEMMA WayMigrate ==
  ASSUME WayInv, MoveInv, NEW s \in Shard, BrokerMigrateAccounts(s)
  PROVE  WayInv'
<1> DEFINE loc == MigratedLoc(s)
           txs == pool[s]
           left == txs \ Stays(s, txs, loc)
           other == {ReportTo(s, d) : d \in Shard}
<1>1. /\ pool' = [pool EXCEPT ![s] = Stays(s, txs, loc)]
      /\ net' = net \cup other \cup SendAway(s, txs, loc)
      /\ proposal[s].type # "tx" /\ ready[s]
      /\ UNCHANGED <<proposal, unsent, committed, bookVars, stopped>>
  BY DEF BrokerMigrateAccounts, ReportTo, NoBlock, chainVars, supVars
<1>2. txs \ left = Stays(s, txs, loc)  BY DEF Stays
<1>3. loc \in [Account -> Shard]
  <2>1. ASSUME NEW a \in Account PROVE curModified[s][a] \in Shard \cup {NoShard}
    BY <1>1, MovesOf DEF MoveInv, MapsInv
  <2> QED  BY <2>1 DEF MigratedLoc
<1>4. \A m \in other : m.type \notin {"txs", "info", "again"}  BY DEF ReportTo
<1>5. DOMAIN proposal' = Shard /\ proposal'[s].type # "tx"  BY <1>1 DEF WayInv, WayShape
<1>6. pool' = [pool EXCEPT ![s] = pool[s] \ left]  BY <1>1, <1>2
<1>7. left \in SUBSET txs /\ txs \in SUBSET pool[s]  OBVIOUS
<1> DEFINE packed == {}
<1>8. /\ packed \in SUBSET left /\ packed \subseteq Stays(s, txs, loc)
      /\ left \ packed = txs \ Stays(s, txs, loc)
  OBVIOUS
<1>9. packed = {} OBVIOUS
<1> HIDE DEF loc, txs, left, other, packed
<1> QED  BY <1>1, <1>3, <1>4, <1>5, <1>6, <1>7, <1>8, <1>9, WayLeaves

\* A transfer that has no record gets one.
LEMMA RawTxsAre ==
  ASSUME NEW txs \in SUBSET Tx, NEW new \in RawTxs(txs)
  PROVE  \E f : /\ \A t \in txs : RecordsOf(t) = {} => f[t] \in Broker
                /\ \A i : i \in new <=> \E t \in txs : RecordsOf(t) = {} /\ i = Record(t, f[t], 1)
<1> DEFINE fresh == {t \in txs : \A i \in unconfirmed : i.tx # t}
<1>1. PICK f \in [fresh -> Broker] :
        new = {[tx |-> t, broker |-> f[t], confirmStage |-> 1] : t \in fresh}
  BY DEF RawTxs
<1>2. \A t : t \in fresh <=> t \in txs /\ RecordsOf(t) = {}  BY DEF RecordsOf
<1>3. \A t \in fresh : f[t] \in Broker  BY <1>1
<1>4. new = {Record(t, f[t], 1) : t \in fresh}  BY <1>1 DEF Record
<1> HIDE DEF fresh
<1>5. \A i : i \in new <=> \E t \in txs : RecordsOf(t) = {} /\ i = Record(t, f[t], 1)
  BY <1>2, <1>4
<1> QED  BY <1>2, <1>3, <1>5

\* A transfer without a record is on no ready list, one with a record that
\* waits elsewhere neither.
LEMMA ListedIs ==
  ASSUME NEW t \in Tx, OnItsWay(t)
  PROVE  /\ t \in readyBroker1 => \E b \in Broker : /\ RecordsOf(t) = {Record(t, b, 1)} /\ BlocksOf(t) = {}
                                                    /\ WaitsAt(t, <<"ready", 1, First(t, b)>>)
         /\ t \in readyBroker2 => \E b \in Broker : /\ RecordsOf(t) = {Record(t, b, 2)}
                                                    /\ \E s \in Shard : BlocksOf(t) = {<<s, First(t, b)>>}
                                                    /\ WaitsAt(t, <<"ready", 2, Second(t, b)>>)
<1>1. ASSUME t \in readyBroker1
      PROVE  \E b \in Broker : /\ RecordsOf(t) = {Record(t, b, 1)} /\ BlocksOf(t) = {}
                               /\ WaitsAt(t, <<"ready", 1, First(t, b)>>)
  <2>1. PICK b \in Broker : Record(t, b, 1) \in RecordsOf(t)  BY <1>1 DEF OnItsWay
  <2> DEFINE q == <<"ready", 1, First(t, b)>>
  <2>2. WaitsAt(t, q)  BY <1>1, <2>1 DEF WaitsAt, OnList, RecordsOf
  <2>3. Fits(t, q, RecordsOf(t), BlocksOf(t))  BY <2>2 DEF OnItsWay
  <2>4. q[3] = First(t, b) /\ q[1] # "info"  OBVIOUS
  <2> HIDE DEF q
  <2>5. q[3] # Whole(t) /\ \A d : q[3] # Second(t, d)  BY <2>4, CopyFields
  <2>6. RecordsOf(t) = {Record(t, b, 1)} /\ BlocksOf(t) = {}
    BY <2>1, <2>3, <2>4, <2>5, CopyFields DEF Fits
  <2> QED  BY <2>2, <2>6 DEF q
<1>2. ASSUME t \in readyBroker2
      PROVE  \E b \in Broker : /\ RecordsOf(t) = {Record(t, b, 2)}
                               /\ \E s \in Shard : BlocksOf(t) = {<<s, First(t, b)>>}
                               /\ WaitsAt(t, <<"ready", 2, Second(t, b)>>)
  <2>1. PICK b \in Broker : Record(t, b, 2) \in RecordsOf(t)  BY <1>2 DEF OnItsWay
  <2> DEFINE q == <<"ready", 2, Second(t, b)>>
  <2>2. WaitsAt(t, q)  BY <1>2, <2>1 DEF WaitsAt, OnList, RecordsOf
  <2>3. Fits(t, q, RecordsOf(t), BlocksOf(t))  BY <2>2 DEF OnItsWay
  <2>4. q[3] = Second(t, b) /\ q[1] # "info"  OBVIOUS
  <2> HIDE DEF q
  <2>5. q[3] # Whole(t) /\ \A d : q[3] # First(t, d)  BY <2>4, CopyFields
  <2>6. PICK d \in Broker, s \in Shard : q[3] = Second(t, d) /\ RecordsOf(t) = {Record(t, d, 2)}
                                         /\ BlocksOf(t) = {<<s, First(t, d)>>}
    BY <2>3, <2>4, <2>5 DEF Fits
  <2>7. d = b
    <3>1. Second(t, b).broker = Second(t, d).broker  BY <2>4, <2>6
    <3> QED  BY <3>1, CopyFields
  <2> QED  BY <2>2, <2>6, <2>7 DEF q
<1> QED  BY <1>1, <1>2

\* The manager cuts again a transfer that came back.
LEMMA WayAgain ==
  ASSUME WayInv, NEW m \in net, m.type = "again", HandleTxSendAgain(m)
  PROVE  WayInv'
<1>1. m.txs \in SUBSET Tx  BY DEF WayInv, WayShape
<1>2. PICK new \in RawTxs(m.txs) :
        /\ unconfirmed' = unconfirmed \cup new
        /\ readyBroker1' = readyBroker1 \cup {i.tx : i \in new}
  BY DEF HandleTxSendAgain
<1>3. net' = net \ {m} /\ UNCHANGED <<unsent, pool, proposal, committed, readyBroker2, stopped>>
  BY DEF HandleTxSendAgain, chainVars, supVars
<1>4. PICK f : /\ \A t \in m.txs : RecordsOf(t) = {} => f[t] \in Broker
               /\ \A i : i \in new <=> \E t \in m.txs : RecordsOf(t) = {} /\ i = Record(t, f[t], 1)
  BY <1>1, <1>2, RawTxsAre
<1>5. ASSUME NEW t \in m.txs
      PROVE  /\ WaitsAt(t, <<"again", m, Whole(t)>>) /\ t \in Tx
             /\ RecordsOf(t) = {} /\ BlocksOf(t) = {} /\ f[t] \in Broker
  <2> DEFINE q == <<"again", m, Whole(t)>>
  <2>1. WaitsAt(t, q)  BY DEF WaitsAt, InMessages
  <2>2. Fits(t, q, RecordsOf(t), BlocksOf(t)) /\ t \in Tx  BY <1>1, <2>1 DEF WayInv, OnItsWay
  <2>3. q[3] = Whole(t)  OBVIOUS
  <2> HIDE DEF q
  <2>4. \A b : Whole(t) # First(t, b) /\ Whole(t) # Second(t, b)  BY CopyFields
  <2>5. RecordsOf(t) = {} /\ BlocksOf(t) = {}  BY <2>2, <2>3, <2>4 DEF Fits
  <2> QED  BY <1>4, <2>1, <2>2, <2>5 DEF q
<1>6. \A i : i \in new <=> \E t \in m.txs : i = Record(t, f[t], 1)  BY <1>4, <1>5
<1>7. \A t : t \in readyBroker1' <=> t \in readyBroker1 \/ t \in m.txs
  BY <1>2, <1>6, CopyFields
<1>8. WayShape'
  <2>1. new \subseteq TxInfoStage  BY <1>5, <1>6, RecordIs
  <2>2. readyBroker1' \subseteq Tx  BY <1>1, <1>7 DEF WayInv, WayShape
  <2> QED  BY <1>2, <1>3, <2>1, <2>2 DEF WayInv, WayShape
<1>9. ASSUME NEW t \in Tx PROVE OnItsWay(t)'
  <2>1. OnItsWay(t)  BY DEF WayInv
  <2>2. BlocksOf(t)' = BlocksOf(t)  BY <1>3 DEF BlocksOf
  <2>3. \A q : InMessages(net', t, q) <=>
               InMessages(net, t, q) /\ ~(t \in m.txs /\ q = <<"again", m, Whole(t)>>)
    BY <1>3 DEF InMessages
  <2>4. CASE t \notin m.txs
    <3>1. \A i : i.tx = t => (i \in unconfirmed' <=> i \in unconfirmed)
      BY <1>2, <1>6, <2>4, CopyFields
    <3>2. RecordsOf(t)' = RecordsOf(t)  BY <3>1 DEF RecordsOf
    <3>3. \A b, n : Record(t, b, n) \in unconfirmed' <=> Record(t, b, n) \in unconfirmed
      BY <3>1, CopyFields
    <3>4. t \in readyBroker1' <=> t \in readyBroker1  BY <1>7, <2>4
    <3>5. \A q : OnList(unconfirmed, readyBroker1, readyBroker2, t, q)' <=>
                 OnList(unconfirmed, readyBroker1, readyBroker2, t, q)
      BY <1>3, <3>3, <3>4 DEF OnList
    <3>6. \A q : WaitsAt(t, q)' <=> WaitsAt(t, q)  BY <1>3, <2>3, <2>4, <3>5 DEF WaitsAt
    <3> QED  BY <1>3, <2>1, <2>2, <3>2, <3>4, <3>6, Unmoved
  <2>5. CASE t \in m.txs
    <3> DEFINE p == <<"again", m, Whole(t)>>
               q == <<"ready", 1, First(t, f[t])>>
    <3>1. WaitsAt(t, p) /\ RecordsOf(t) = {} /\ BlocksOf(t) = {} /\ f[t] \in Broker
      BY <1>5, <2>5
    <3>2. \A x : WaitsAt(t, x) => x = p  BY <2>1, <3>1 DEF OnItsWay
    <3>3. t \notin readyBroker1 /\ t \notin readyBroker2  BY <2>1, <3>1 DEF OnItsWay
    <3>4. \A i : i \in RecordsOf(t)' <=> i = Record(t, f[t], 1)
      BY <1>2, <1>6, <2>5, <3>1, CopyFields DEF RecordsOf
    <3>5. \A b, n : Record(t, b, n) \in unconfirmed' <=> Record(t, b, n) = Record(t, f[t], 1)
      BY <3>4, CopyFields DEF RecordsOf
    <3>6. t \in readyBroker1' /\ t \notin readyBroker2'  BY <1>3, <1>7, <2>5, <3>3
    <3>7. \A x : OnList(unconfirmed, readyBroker1, readyBroker2, t, x)' <=> x = q
      BY <3>1, <3>5, <3>6, CopyFields DEF OnList
    <3> HIDE DEF p, q
    <3>8. \A x : WaitsAt(t, x)' <=> x = q
      <4>1. \A x : ~InMessages(net', t, x) BY <2>3, <2>5, <3>2 DEF WaitsAt, p
      <4>2. \A x : WaitsAt(t, x) => x[1] = "again"  BY <3>2 DEF p
      <4>3. \A x : ~InSource(unsent, t, x) /\ ~InPools(pool, t, x) /\ ~InBlocks(proposal, t, x)
        BY <4>2, PlaceNames DEF WaitsAt
      <4> QED  BY <1>3, <3>7, <4>1, <4>3 DEF WaitsAt
    <3>9. RecordsOf(t)' = {Record(t, f[t], 1)} /\ BlocksOf(t)' = {}  BY <2>2, <3>1, <3>4
    <3>10. q[1] # "info" /\ q[3] = First(t, f[t])  BY DEF q
    <3>11. Fits(t, q, RecordsOf(t)', BlocksOf(t)')  BY <3>1, <3>9, <3>10 DEF Fits
    <3> QED  BY <3>1, <3>6, <3>8, <3>9, <3>11, Moved
  <2> QED  BY <2>4, <2>5
<1> QED  BY <1>8, <1>9 DEF WayInv

\* A half that is reported finds the manager waiting for it, and t nowhere else.
LEMMA InfoFits ==
  ASSUME WayInv, NEW m \in net, m.type = "info", NEW c \in m.txs, c.stage # "inner"
  PROVE  /\ c.tx \in Tx
         /\ \A x : WaitsAt(c.tx, x) <=> x = <<"info", m, c>>
         /\ \E b \in Broker, s \in Shard :
              \/ /\ c = First(c.tx, b) /\ RecordsOf(c.tx) = {Record(c.tx, b, 1)}
                 /\ BlocksOf(c.tx) = {<<s, First(c.tx, b)>>}
              \/ /\ c = Second(c.tx, b) /\ RecordsOf(c.tx) = {Record(c.tx, b, 2)}
                 /\ \E o \in Shard : BlocksOf(c.tx) = {<<s, First(c.tx, b)>>, <<o, Second(c.tx, b)>>}
<1> DEFINE t == c.tx
           q == <<"info", m, c>>
<1>1. c \in BrokerCopy  BY DEF WayInv, WayShape
<1>2. t \in Tx  BY <1>1, CopyIs, CopyFields
<1>3. WaitsAt(t, q)  BY DEF WaitsAt, InMessages
<1>4. OnItsWay(t)  BY <1>2 DEF WayInv
<1>5. \A x : WaitsAt(t, x) <=> x = q  BY <1>3, <1>4 DEF OnItsWay
<1>6. Fits(t, q, RecordsOf(t), BlocksOf(t))  BY <1>3, <1>4 DEF OnItsWay
<1>7. q[1] = "info" /\ q[3] = c  OBVIOUS
<1> HIDE DEF q
<1>8. c # Whole(t)  BY CopyFields
<1>9. \/ \E b \in Broker, s \in Shard :
           c = First(t, b) /\ RecordsOf(t) = {Record(t, b, 1)} /\ BlocksOf(t) = {<<s, First(t, b)>>}
      \/ \E b \in Broker, s \in Shard :
           /\ c = Second(t, b) /\ RecordsOf(t) = {Record(t, b, 2)}
           /\ \E o \in Shard : BlocksOf(t) = {<<s, First(t, b)>>, <<o, Second(t, b)>>}
  BY <1>6, <1>7, <1>8 DEF Fits
<1> QED  BY <1>2, <1>5, <1>9 DEF q

\* The manager takes the reports of a block.
LEMMA WayInfo ==
  ASSUME WayInv, NEW m \in net, m.type = "info", HandleBrokerBlockInfo(m)
  PROVE  WayInv'
<1> DEFINE first  == Confirmed(unconfirmed, m.txs, 1, "broker1")
           moved  == {[i EXCEPT !.confirmStage = 2] : i \in first}
           after  == (unconfirmed \ first) \cup moved
           second == Confirmed(after, m.txs, 2, "broker2")
           Has(t, stage) == \E c \in m.txs : c.tx = t /\ c.stage = stage
<1>1. unconfirmed' = after \ second /\ readyBroker2' = readyBroker2 \cup {i.tx : i \in first}
  BY DEF HandleBrokerBlockInfo
<1>2. net' = net \ {m} /\ UNCHANGED <<unsent, pool, proposal, committed, readyBroker1, stopped>>
  BY DEF HandleBrokerBlockInfo, chainVars
<1>3. unconfirmed \subseteq TxInfoStage  BY DEF WayInv, WayShape
<1>4. ASSUME NEW i
      PROVE  i \in first <=> i \in unconfirmed /\ i.confirmStage = 1 /\ Has(i.tx, "broker1")
  BY DEF Confirmed
<1>5. ASSUME NEW i \in TxInfoStage
      PROVE  [i EXCEPT !.confirmStage = 2] = Record(i.tx, i.broker, 2)
  <2>1. i \in [tx : Tx, broker : Broker, confirmStage : {1, 2}]  BY DEF TxInfoStage
  <2> QED  BY <2>1 DEF Record
<1>6. ASSUME NEW j
      PROVE  j \in moved <=> \E i \in first : j = Record(i.tx, i.broker, 2)
  BY <1>3, <1>4, <1>5
<1>7. ASSUME NEW j
      PROVE  j \in second <=> j \in after /\ j.confirmStage = 2 /\ Has(j.tx, "broker2")
  BY DEF Confirmed
<1>8. \A j : j \in after <=> (j \in unconfirmed /\ j \notin first) \/ j \in moved  OBVIOUS
<1> HIDE DEF first, moved, after, second
<1>9. WayShape'
  <2>1. moved \subseteq TxInfoStage
    <3> SUFFICES ASSUME NEW j \in moved PROVE j \in TxInfoStage  OBVIOUS
    <3>1. PICK i \in first : j = Record(i.tx, i.broker, 2)  BY <1>6
    <3>2. i \in TxInfoStage  BY <1>3, <1>4
    <3>3. i.tx \in Tx /\ i.broker \in Broker  BY <3>2 DEF TxInfoStage
    <3> QED  BY <3>1, <3>3, RecordIs
  <2>2. unconfirmed' \subseteq TxInfoStage  BY <1>1, <1>3, <1>8, <2>1
  <2>3. \A i \in first : i.tx \in Tx  BY <1>3, <1>4 DEF TxInfoStage
  <2>4. readyBroker2' \subseteq Tx  BY <1>1, <2>3 DEF WayInv, WayShape
  <2> QED  BY <1>2, <2>2, <2>4 DEF WayInv, WayShape
<1>10. ASSUME NEW t \in Tx PROVE OnItsWay(t)'
  <2>1. OnItsWay(t)  BY DEF WayInv
  <2>2. BlocksOf(t)' = BlocksOf(t)  BY <1>2 DEF BlocksOf
  <2>3. \A q : InMessages(net', t, q) <=>
               /\ InMessages(net, t, q)
               /\ ~\E c \in m.txs : c.tx = t /\ c.stage # "inner" /\ q = <<"info", m, c>>
    BY <1>2 DEF InMessages
  <2>4. \A c \in m.txs : c.stage \in {"inner", "broker1", "broker2"}
    BY CopyIs, CopyFields DEF WayInv, WayShape
  <2>5. CASE ~\E c \in m.txs : c.tx = t /\ c.stage # "inner"
    <3>1. ~Has(t, "broker1") /\ ~Has(t, "broker2")  BY <2>5
    <3> HIDE DEF Has
    <3>2. \A i : i.tx = t => i \notin first /\ i \notin second  BY <1>4, <1>7, <3>1
    <3>3. \A i : i.tx = t => i \notin moved  BY <1>6, <3>2, CopyFields
    <3>4. \A i : i.tx = t => (i \in unconfirmed' <=> i \in unconfirmed)
      BY <1>1, <1>8, <3>2, <3>3
    <3>5. RecordsOf(t)' = RecordsOf(t)  BY <3>4 DEF RecordsOf
    <3>6. \A b, n : Record(t, b, n) \in unconfirmed' <=> Record(t, b, n) \in unconfirmed
      BY <3>4, CopyFields
    <3>7. t \in readyBroker2' <=> t \in readyBroker2  BY <1>1, <3>2
    <3>8. \A q : OnList(unconfirmed, readyBroker1, readyBroker2, t, q)' <=>
                 OnList(unconfirmed, readyBroker1, readyBroker2, t, q)
      BY <1>2, <3>6, <3>7 DEF OnList
    <3>9. \A q : WaitsAt(t, q)' <=> WaitsAt(t, q)  BY <1>2, <2>3, <2>5, <3>8 DEF WaitsAt
    <3> QED  BY <1>2, <2>1, <2>2, <3>5, <3>7, <3>9, Unmoved
  <2>6. ASSUME NEW c \in m.txs, c.tx = t, c.stage # "inner" PROVE OnItsWay(t)'
    <3> DEFINE p == <<"info", m, c>>
    <3>1. PICK b \in Broker, s \in Shard :
            \/ /\ c = First(t, b) /\ RecordsOf(t) = {Record(t, b, 1)}
               /\ BlocksOf(t) = {<<s, First(t, b)>>}
            \/ /\ c = Second(t, b) /\ RecordsOf(t) = {Record(t, b, 2)}
               /\ \E o \in Shard : BlocksOf(t) = {<<s, First(t, b)>>, <<o, Second(t, b)>>}
      BY <2>6, InfoFits
    <3>2. \A x : WaitsAt(t, x) <=> x = p  BY <2>6, InfoFits
    <3>3. \A d \in m.txs : d.tx = t /\ d.stage # "inner" => d = c
      <4> SUFFICES ASSUME NEW d \in m.txs, d.tx = t, d.stage # "inner" PROVE d = c  OBVIOUS
      <4>1. <<"info", m, d>> = <<"info", m, c>>  BY <2>6, InfoFits
      <4> QED  BY <4>1
    <3>4. t \notin readyBroker1 /\ t \notin readyBroker2
      <4>1. \A x : WaitsAt(t, x) => x[1] = "info"  BY <3>2
      <4>2. \A x, d : <<"ready", x, d>>[1] # "info"  OBVIOUS
      <4> QED  BY <2>1, <4>1, <4>2, ListedIs
    <3>5. \A x : ~InMessages(net', t, x)
      BY <2>3, <2>6, <3>2 DEF WaitsAt
    <3>6. \A x : ~InSource(unsent, t, x) /\ ~InPools(pool, t, x) /\ ~InBlocks(proposal, t, x)
      <4>1. \A x : WaitsAt(t, x) => x[1] = "info"  BY <3>2
      <4> QED  BY <4>1, PlaceNames DEF WaitsAt
    <3>7. \A x : WaitsAt(t, x)' <=> OnList(unconfirmed, readyBroker1, readyBroker2, t, x)'
      BY <1>2, <3>5, <3>6 DEF WaitsAt
    <3>8. \A i : i.tx = t => (i \in unconfirmed <=> i \in RecordsOf(t))  BY DEF RecordsOf
    <3>9. CASE c.stage = "broker1"
      <4>1. c = First(t, b) /\ RecordsOf(t) = {Record(t, b, 1)} /\ BlocksOf(t) = {<<s, First(t, b)>>}
        BY <3>1, <3>9, CopyFields
      <4>2. Has(t, "broker1") /\ ~Has(t, "broker2")  BY <2>6, <3>3, <3>9
      <4> HIDE DEF Has, p
      <4>3. \A i : i.tx = t => (i \in first <=> i = Record(t, b, 1))
        BY <1>4, <3>8, <4>1, <4>2, CopyFields
      <4>4. \A i : i.tx = t => (i \in moved <=> i = Record(t, b, 2))
        BY <1>6, <4>3, CopyFields
      <4>5. \A i : i.tx = t => i \notin second  BY <1>7, <4>2
      <4>6. \A i : i.tx = t => (i \in unconfirmed' <=> i = Record(t, b, 2))
        BY <1>1, <1>8, <3>8, <4>1, <4>3, <4>4, <4>5, CopyFields
      <4>7. RecordsOf(t)' = {Record(t, b, 2)}
        <5>1. \A i : i \in RecordsOf(t)' <=> i = Record(t, b, 2)  BY <4>6, CopyFields DEF RecordsOf
        <5> QED  BY <5>1
      <4>8. t \in readyBroker2' /\ t \notin readyBroker1'  BY <1>1, <1>2, <3>4, <4>3, CopyFields
      <4> DEFINE q == <<"ready", 2, Second(t, b)>>
      <4>9. \A x : OnList(unconfirmed, readyBroker1, readyBroker2, t, x)' <=> x = q
        <5>1. \A d, n : Record(t, d, n) \in unconfirmed' <=> d = b /\ n = 2
          BY <4>6, CopyFields
        <5> QED  BY <4>8, <5>1 DEF OnList
      <4>10. q[1] # "info" /\ q[3] = Second(t, b)  OBVIOUS
      <4> HIDE DEF q
      <4>11. \A x : WaitsAt(t, x)' <=> x = q  BY <3>7, <4>9
      <4>12. Fits(t, q, RecordsOf(t)', BlocksOf(t)')  BY <2>2, <4>1, <4>7, <4>10 DEF Fits
      <4> QED  BY <4>7, <4>8, <4>11, <4>12, Moved
    <3>10. CASE c.stage = "broker2"
      <4>1. c = Second(t, b) /\ RecordsOf(t) = {Record(t, b, 2)}
            /\ \E o \in Shard : BlocksOf(t) = {<<s, First(t, b)>>, <<o, Second(t, b)>>}
        BY <3>1, <3>10, CopyFields
      <4>2. Has(t, "broker2") /\ ~Has(t, "broker1")  BY <2>6, <3>3, <3>10
      <4> HIDE DEF Has, p
      <4>3. \A i : i.tx = t => i \notin first  BY <1>4, <4>2
      <4>4. \A i : i.tx = t => i \notin moved  BY <1>6, <4>3, CopyFields
      <4>5. \A i : i.tx = t => i \notin unconfirmed'
        BY <1>1, <1>7, <1>8, <3>8, <4>1, <4>2, <4>4, CopyFields
      <4>6. RecordsOf(t)' = {}  BY <4>5 DEF RecordsOf
      <4>7. t \notin readyBroker2' /\ t \notin readyBroker1'  BY <1>1, <1>2, <3>4, <4>3
      <4>8. \A x : ~WaitsAt(t, x)'  BY <3>7, <4>7 DEF OnList
      <4>9. Finished(t, BlocksOf(t)')  BY <2>2, <4>1 DEF Finished
      <4> QED  BY <4>6, <4>7, <4>8, <4>9 DEF OnItsWay, Executed
    <3> QED  BY <2>4, <2>6, <3>9, <3>10
  <2> QED  BY <2>5, <2>6
<1> QED  BY <1>9, <1>10 DEF WayInv

\* A transaction in a block waits there only, and fits to what is known of it.
LEMMA BlockFits ==
  ASSUME WayInv, NEW s \in Shard, proposal[s].type = "tx", NEW c \in proposal[s].txs
  PROVE  /\ c \in BrokerCopy /\ c.tx \in Tx
         /\ \A x : WaitsAt(c.tx, x) <=> x = <<"block", s, c>>
         /\ \A d \in proposal[s].txs : d.tx = c.tx => d = c
         /\ \/ c = Whole(c.tx) /\ RecordsOf(c.tx) = {} /\ BlocksOf(c.tx) = {}
            \/ \E b \in Broker : /\ c = First(c.tx, b) /\ RecordsOf(c.tx) = {Record(c.tx, b, 1)}
                                 /\ BlocksOf(c.tx) = {}
            \/ \E b \in Broker, o \in Shard :
                 /\ c = Second(c.tx, b) /\ RecordsOf(c.tx) = {Record(c.tx, b, 2)}
                 /\ BlocksOf(c.tx) = {<<o, First(c.tx, b)>>}
<1> DEFINE t == c.tx
           q(d) == <<"block", s, d>>
<1>1. c \in BrokerCopy  BY DEF WayInv, WayShape
<1>2. t \in Tx  BY <1>1, CopyIs, CopyFields
<1>3. \A d \in proposal[s].txs : d.tx = t => WaitsAt(t, q(d))  BY DEF WaitsAt, InBlocks
<1>4. OnItsWay(t)  BY <1>2 DEF WayInv
<1>5. \A x : WaitsAt(t, x) <=> x = q(c)  BY <1>3, <1>4 DEF OnItsWay
<1>6. \A d \in proposal[s].txs : d.tx = t => q(d) = q(c)  BY <1>3, <1>5
<1>7. Fits(t, q(c), RecordsOf(t), BlocksOf(t))  BY <1>3, <1>4 DEF OnItsWay
<1>8. q(c)[1] # "info" /\ q(c)[3] = c  OBVIOUS
<1>9. \A d : q(d) = q(c) => d = c  OBVIOUS
<1> HIDE DEF q
<1>10. \/ c = Whole(t) /\ RecordsOf(t) = {} /\ BlocksOf(t) = {}
       \/ \E b \in Broker : c = First(t, b) /\ RecordsOf(t) = {Record(t, b, 1)} /\ BlocksOf(t) = {}
       \/ \E b \in Broker, o \in Shard :
            c = Second(t, b) /\ RecordsOf(t) = {Record(t, b, 2)} /\ BlocksOf(t) = {<<o, First(t, b)>>}
  BY <1>7, <1>8 DEF Fits
<1>11. \A d \in proposal[s].txs : d.tx = t => d = c  BY <1>6, <1>9
<1> QED  BY <1>1, <1>2, <1>5, <1>10, <1>11 DEF q

\* A block is committed and reported.
LEMMA WayCommit ==
  ASSUME WayInv, NEW s \in Shard, BrokerBlockCommitAndDeliver(s)
  PROVE  WayInv'
<1> DEFINE txs == proposal[s].txs
           info == [type |-> "info", shard |-> s, epoch |-> chainEpoch[s], txs |-> txs]
           infos == IF stopped THEN {} ELSE {info}
<1>1. /\ proposal[s].type = "tx"
      /\ committed' = [committed EXCEPT ![s] = committed[s] \cup txs]
      /\ net' = net \cup infos
      /\ proposal' = [proposal EXCEPT ![s] = NoBlock]
      /\ UNCHANGED <<unsent, pool, bookVars, stopped>>
  BY DEF BrokerBlockCommitAndDeliver, supVars
<1>2. txs \in SUBSET BrokerCopy  BY <1>1 DEF WayInv, WayShape
<1>3. \A m \in infos : m = info /\ ~stopped  OBVIOUS
<1>4. ~stopped => info \in infos  OBVIOUS
<1>5. info.type = "info" /\ info.txs = txs  OBVIOUS
<1> HIDE DEF infos, info
<1>6. WayShape'
  <2>1. committed' \in [Shard -> SUBSET BrokerCopy]  BY <1>1, <1>2 DEF WayInv, WayShape
  <2>2. /\ DOMAIN proposal' = Shard
        /\ \A o \in Shard : proposal'[o].type = "tx" => proposal'[o].txs \in SUBSET BrokerCopy
    BY <1>1 DEF WayInv, WayShape, NoBlock
  <2>3. \A m \in net' : /\ m.type \in {"txs", "info"} => m.txs \in SUBSET BrokerCopy
                        /\ m.type = "again" => m.txs \in SUBSET Tx
    BY <1>1, <1>2, <1>3, <1>5 DEF WayInv, WayShape
  <2> QED  BY <1>1, <2>1, <2>2, <2>3 DEF WayInv, WayShape, bookVars
<1>7. ASSUME NEW t \in Tx PROVE OnItsWay(t)'
  <2>1. OnItsWay(t)  BY DEF WayInv
  <2>2. RecordsOf(t)' = RecordsOf(t) /\ UNCHANGED <<unconfirmed, readyBroker1, readyBroker2>>
    BY <1>1 DEF RecordsOf, bookVars
  <2>3. \A q : q \in BlocksOf(t)' <=> q \in BlocksOf(t) \/ \E c \in txs : c.tx = t /\ q = <<s, c>>
    <3>1. committed \in [Shard -> SUBSET BrokerCopy]  BY DEF WayInv, WayShape
    <3>2. \A o \in Shard : \A c : c \in committed'[o] <=> c \in committed[o] \/ (o = s /\ c \in txs)
      BY <1>1, <3>1
    <3>3. ASSUME NEW q
          PROVE  q \in BlocksOf(t)' <=> q \in Shard \X BrokerCopy /\ q[2].tx = t /\ q[2] \in committed'[q[1]]
      BY DEF BlocksOf
    <3>4. ASSUME NEW q
          PROVE  q \in BlocksOf(t) <=> q \in Shard \X BrokerCopy /\ q[2].tx = t /\ q[2] \in committed[q[1]]
      BY DEF BlocksOf
    <3>5. ASSUME NEW q, q \in Shard \X BrokerCopy
          PROVE  q \in BlocksOf(t)' <=> q \in BlocksOf(t) \/ \E c \in txs : c.tx = t /\ q = <<s, c>>
      BY <3>2, <3>3, <3>4, <3>5
    <3>6. \A c \in txs : <<s, c>> \in Shard \X BrokerCopy  BY <1>2
    <3> QED  BY <3>3, <3>4, <3>5, <3>6
  <2>4. ASSUME NEW q
        PROVE  InMessages(net', t, q) <=>
                 \/ InMessages(net, t, q)
                 \/ ~stopped /\ \E c \in txs : c.tx = t /\ c.stage # "inner" /\ q = <<"info", info, c>>
    BY <1>1, <1>3, <1>4, <1>5 DEF InMessages
  <2>5. ASSUME NEW q
        PROVE  InBlocks(proposal', t, q) <=>
                 InBlocks(proposal, t, q) /\ ~\E c \in txs : c.tx = t /\ q = <<"block", s, c>>
    BY <1>1 DEF InBlocks, NoBlock, WayInv, WayShape
  <2>6. CASE ~\E c \in txs : c.tx = t
    <3>1. \A q : WaitsAt(t, q)' <=> WaitsAt(t, q)  BY <1>1, <2>2, <2>4, <2>5, <2>6 DEF WaitsAt
    <3>2. BlocksOf(t)' = BlocksOf(t)  BY <2>3, <2>6
    <3> QED  BY <1>1, <2>1, <2>2, <3>1, <3>2, Unmoved
  <2>7. ASSUME NEW c \in txs, c.tx = t PROVE OnItsWay(t)'
    <3>1. /\ \A x : WaitsAt(t, x) <=> x = <<"block", s, c>>
          /\ \A d \in txs : d.tx = t => d = c
          /\ \/ c = Whole(t) /\ RecordsOf(t) = {} /\ BlocksOf(t) = {}
             \/ \E b \in Broker : c = First(t, b) /\ RecordsOf(t) = {Record(t, b, 1)} /\ BlocksOf(t) = {}
             \/ \E b \in Broker, o \in Shard :
                  /\ c = Second(t, b) /\ RecordsOf(t) = {Record(t, b, 2)}
                  /\ BlocksOf(t) = {<<o, First(t, b)>>}
      BY <1>1, <2>7, BlockFits
    <3>2. t \notin readyBroker1' /\ t \notin readyBroker2'
      <4>1. \A x : WaitsAt(t, x) => x[1] = "block"  BY <3>1
      <4>2. \A d : ~WaitsAt(t, <<"ready", 1, d>>) /\ ~WaitsAt(t, <<"ready", 2, d>>)
        BY <4>1
      <4>3. t \notin readyBroker1 /\ t \notin readyBroker2  BY <2>1, <4>2, ListedIs
      <4> QED  BY <2>2, <4>3
    <3>3. ASSUME NEW x
          PROVE  WaitsAt(t, x)' <=> ~stopped /\ c.stage # "inner" /\ x = <<"info", info, c>>
      <4>1. WaitsAt(t, x) => x[1] = "block"  BY <3>1
      <4>2. /\ ~InSource(unsent, t, x)
            /\ ~OnList(unconfirmed, readyBroker1, readyBroker2, t, x)
            /\ ~InMessages(net, t, x) /\ ~InPools(pool, t, x)
        BY <4>1, PlaceNames DEF WaitsAt
      <4>3. ~InBlocks(proposal', t, x)  BY <2>5, <2>7, <3>1 DEF WaitsAt
      <4>4. InMessages(net', t, x) <=> ~stopped /\ c.stage # "inner" /\ x = <<"info", info, c>>
        BY <2>4, <2>7, <3>1, <4>2
      <4> QED  BY <1>1, <2>2, <4>2, <4>3, <4>4 DEF WaitsAt
    <3>4. BlocksOf(t)' = BlocksOf(t) \cup {<<s, c>>}
      <4>1. \A q : q \in BlocksOf(t)' <=> q \in BlocksOf(t) \/ q = <<s, c>>  BY <2>3, <2>7, <3>1
      <4> QED  BY <4>1
    <3>5. CASE c = Whole(t)
      <4>1. RecordsOf(t) = {} /\ BlocksOf(t) = {}  BY <3>1, <3>5, CopyFields
      <4>2. BlocksOf(t)' = {<<s, Whole(t)>>}  BY <3>4, <3>5, <4>1
      <4>3. Finished(t, BlocksOf(t)')  BY <4>2 DEF Finished
      <4>4. \A x : ~WaitsAt(t, x)'  BY <3>3, <3>5, CopyFields
      <4> QED  BY <2>2, <3>2, <4>1, <4>3, <4>4 DEF OnItsWay, Executed
    <3> DEFINE q == <<"info", info, c>>
    <3>6. q[1] = "info" /\ q[3] = c  OBVIOUS
    <3>7. ASSUME NEW b \in Broker, c = First(t, b) PROVE OnItsWay(t)'
      <4>1. RecordsOf(t) = {Record(t, b, 1)} /\ BlocksOf(t) = {}
        <5>1. \A d \in Broker : c = First(t, d) => d = b
          <6> SUFFICES ASSUME NEW d \in Broker, c = First(t, d) PROVE d = b  OBVIOUS
          <6>1. First(t, b).broker = First(t, d).broker  BY <3>7
          <6> QED  BY <6>1, CopyFields
        <5>2. c # Whole(t) /\ \A d : c # Second(t, d)  BY <3>7, CopyFields
        <5> QED  BY <3>1, <5>1, <5>2
      <4>2. BlocksOf(t)' = {<<s, First(t, b)>>}  BY <3>4, <3>7, <4>1
      <4>3. c.stage # "inner"  BY <3>7, CopyFields
      <4>4. CASE ~stopped
        <5>1. \A x : WaitsAt(t, x)' <=> x = q  BY <3>3, <4>3, <4>4
        <5> HIDE DEF q
        <5>2. Fits(t, q, RecordsOf(t)', BlocksOf(t)')  BY <2>2, <3>6, <3>7, <4>1, <4>2 DEF Fits
        <5> QED  BY <3>2, <5>1, <5>2, Moved
      <4>5. CASE stopped
        <5>1. \A x : ~WaitsAt(t, x)'  BY <3>3, <4>5
        <5>2. stopped'  BY <1>1, <4>5
        <5>3. Executed(t, BlocksOf(t)')  BY <4>2 DEF Executed
        <5> QED  BY <3>2, <5>1, <5>2, <5>3 DEF OnItsWay
      <4> QED  BY <4>4, <4>5
    <3>8. ASSUME NEW b \in Broker, c = Second(t, b) PROVE OnItsWay(t)'
      <4>1. PICK o \in Shard : RecordsOf(t) = {Record(t, b, 2)} /\ BlocksOf(t) = {<<o, First(t, b)>>}
        <5>1. \A d \in Broker : c = Second(t, d) => d = b
          <6> SUFFICES ASSUME NEW d \in Broker, c = Second(t, d) PROVE d = b  OBVIOUS
          <6>1. Second(t, b).broker = Second(t, d).broker  BY <3>8
          <6> QED  BY <6>1, CopyFields
        <5>2. c # Whole(t) /\ \A d : c # First(t, d)  BY <3>8, CopyFields
        <5> QED  BY <3>1, <5>1, <5>2
      <4>2. BlocksOf(t)' = {<<o, First(t, b)>>, <<s, Second(t, b)>>}  BY <3>4, <3>8, <4>1
      <4>3. c.stage # "inner"  BY <3>8, CopyFields
      <4>4. CASE ~stopped
        <5>1. \A x : WaitsAt(t, x)' <=> x = q  BY <3>3, <4>3, <4>4
        <5> HIDE DEF q
        <5>2. Fits(t, q, RecordsOf(t)', BlocksOf(t)')  BY <2>2, <3>6, <3>8, <4>1, <4>2 DEF Fits
        <5> QED  BY <3>2, <5>1, <5>2, Moved
      <4>5. CASE stopped
        <5>1. \A x : ~WaitsAt(t, x)'  BY <3>3, <4>5
        <5>2. stopped'  BY <1>1, <4>5
        <5>3. Executed(t, BlocksOf(t)')  BY <4>2 DEF Executed, Finished
        <5> QED  BY <3>2, <5>1, <5>2, <5>3 DEF OnItsWay
      <4> QED  BY <4>4, <4>5
    <3> QED  BY <3>1, <3>5, <3>7, <3>8
  <2> QED  BY <2>6, <2>7
<1> QED  BY <1>6, <1>7 DEF WayInv

\* A transfer in the source is known to nobody.
LEMMA SourceFits ==
  ASSUME NEW t \in Tx, OnItsWay(t), t \in unsent
  PROVE  /\ WaitsAt(t, <<"source", NoShard, Whole(t)>>)
         /\ RecordsOf(t) = {} /\ BlocksOf(t) = {}
         /\ t \notin readyBroker1 /\ t \notin readyBroker2
<1> DEFINE q == <<"source", NoShard, Whole(t)>>
<1>1. WaitsAt(t, q)  BY DEF WaitsAt, InSource
<1>2. Fits(t, q, RecordsOf(t), BlocksOf(t))  BY <1>1 DEF OnItsWay
<1>3. q[3] = Whole(t)  OBVIOUS
<1> HIDE DEF q
<1>4. \A b : Whole(t) # First(t, b) /\ Whole(t) # Second(t, b)  BY CopyFields
<1>5. RecordsOf(t) = {} /\ BlocksOf(t) = {}  BY <1>2, <1>3, <1>4 DEF Fits
<1> QED  BY <1>1, <1>5 DEF q, OnItsWay

\* The half of every record that waits on a list.
LEMMA HalfIs ==
  ASSUME NEW records, NEW list, NEW n, NEW c
  PROVE  /\ c \in Half(records, list, n, "broker1") <=>
              \E i \in records : i.tx \in list /\ i.confirmStage = n /\ c = First(i.tx, i.broker)
         /\ c \in Half(records, list, n, "broker2") <=>
              \E i \in records : i.tx \in list /\ i.confirmStage = n /\ c = Second(i.tx, i.broker)
BY DEF Half, First, Second

\* The supervisor sends new transfers and the halves on the ready lists.
LEMMA WaySend ==
  ASSUME WayInv, BrokerReadTxsAndSend
  PROVE  WayInv'
<1>1. PICK txs \in SUBSET unsent :
        LET cross == {t \in txs : supLocation[Sender[t]] # supLocation[Recipient[t]]}
            inner == [tx : txs \ cross, stage : {"inner"}, broker : {NoBroker}]
        IN  /\ unsent' = unsent \ txs
            /\ \E new \in RawTxs(cross) :
                 LET known == unconfirmed \cup new
                     sent  == inner \cup Half(known, readyBroker1 \cup {i.tx : i \in new}, 1, "broker1")
                                    \cup Half(known, readyBroker2, 2, "broker2")
                 IN  /\ unconfirmed' = known
                     /\ net' = net \cup SendTxs([c \in sent |-> LocByCLPAState(c)])
  BY DEF BrokerReadTxsAndSend
<1> DEFINE cross == {t \in txs : supLocation[Sender[t]] # supLocation[Recipient[t]]}
           inner == [tx : txs \ cross, stage : {"inner"}, broker : {NoBroker}]
<1>2. PICK new \in RawTxs(cross) :
        LET known == unconfirmed \cup new
            sent  == inner \cup Half(known, readyBroker1 \cup {i.tx : i \in new}, 1, "broker1")
                           \cup Half(known, readyBroker2, 2, "broker2")
        IN  /\ unconfirmed' = known
            /\ net' = net \cup SendTxs([c \in sent |-> LocByCLPAState(c)])
  BY <1>1
<1> DEFINE known == unconfirmed \cup new
           list1 == readyBroker1 \cup {i.tx : i \in new}
           half1 == Half(known, list1, 1, "broker1")
           half2 == Half(known, readyBroker2, 2, "broker2")
           sent  == inner \cup half1 \cup half2
           dest  == [c \in sent |-> LocByCLPAState(c)]
           out   == SendTxs(dest)
<1>3. /\ unsent' = unsent \ txs /\ unconfirmed' = known /\ net' = net \cup out
      /\ readyBroker1' = {} /\ readyBroker2' = {}
      /\ UNCHANGED <<pool, proposal, committed, stopped>>
  BY <1>1, <1>2 DEF BrokerReadTxsAndSend, chainVars
<1>4. txs \in SUBSET Tx /\ cross \in SUBSET txs  BY DEF WayInv, WayShape
<1>5. PICK f : /\ \A t \in cross : RecordsOf(t) = {} => f[t] \in Broker
               /\ \A i : i \in new <=> \E t \in cross : RecordsOf(t) = {} /\ i = Record(t, f[t], 1)
  <2>1. cross \in SUBSET Tx  BY <1>4
  <2> HIDE DEF cross
  <2> QED  BY <1>2, <2>1, RawTxsAre
<1>6. ASSUME NEW t \in txs
      PROVE  /\ t \in Tx /\ WaitsAt(t, <<"source", NoShard, Whole(t)>>)
             /\ RecordsOf(t) = {} /\ BlocksOf(t) = {}
             /\ t \notin readyBroker1 /\ t \notin readyBroker2
  <2>1. t \in Tx /\ t \in unsent /\ OnItsWay(t)  BY <1>4 DEF WayInv
  <2> QED  BY <2>1, SourceFits
<1>7. /\ \A t \in cross : f[t] \in Broker
      /\ \A i : i \in new <=> \E t \in cross : i = Record(t, f[t], 1)
  BY <1>4, <1>5, <1>6
<1>8. \A t : t \in list1 <=> t \in readyBroker1 \/ t \in cross  BY <1>7, CopyFields
<1>9. \A i : i \in known <=> i \in unconfirmed \/ \E t \in cross : i = Record(t, f[t], 1)  BY <1>7
<1>10. \A c : c \in inner <=> \E t \in txs \ cross : c = Whole(t)  BY DEF Whole
<1>11. \A c : c \in sent <=> c \in inner \/ c \in half1 \/ c \in half2  OBVIOUS
<1>12. DOMAIN dest = sent  OBVIOUS
<1>13. \A c : c \in half1 <=> \E i \in known : i.tx \in list1 /\ i.confirmStage = 1 /\ c = First(i.tx, i.broker)
  BY HalfIs
<1>14. \A c : c \in half2 <=> \E i \in known : i.tx \in readyBroker2 /\ i.confirmStage = 2 /\ c = Second(i.tx, i.broker)
  BY HalfIs
<1> HIDE DEF cross, inner, known, list1, half1, half2, sent, dest
<1>15. /\ \A m \in out : m.type = "txs" /\ m.txs \in SUBSET sent
       /\ \A c \in sent : \E m \in out : \A n \in out : c \in n.txs <=> n = m
  BY <1>12, SentOnce
<1> HIDE DEF out
<1>16. known \subseteq TxInfoStage
  BY <1>4, <1>7, <1>9, RecordIs DEF WayInv, WayShape
<1>17. sent \subseteq BrokerCopy
  <2>1. \A i \in known : i.tx \in Tx /\ i.broker \in Broker  BY <1>16 DEF TxInfoStage
  <2> QED  BY <1>4, <1>10, <1>11, <1>13, <1>14, <2>1, CopyIs
<1>18. WayShape'
  <2>1. \A m \in net' : /\ m.type \in {"txs", "info"} => m.txs \in SUBSET BrokerCopy
                        /\ m.type = "again" => m.txs \in SUBSET Tx
    BY <1>3, <1>15, <1>17 DEF WayInv, WayShape
  <2> QED  BY <1>3, <1>16, <2>1 DEF WayInv, WayShape
<1>19. ASSUME NEW t \in Tx PROVE OnItsWay(t)'
  <2>1. OnItsWay(t)  BY DEF WayInv
  <2>2. BlocksOf(t)' = BlocksOf(t)  BY <1>3 DEF BlocksOf
  <2>3. ASSUME NEW i, i.tx = t
        PROVE  i \in known <=> i \in RecordsOf(t) \/ (t \in cross /\ i = Record(t, f[t], 1))
    BY <1>9, <2>3, CopyFields DEF RecordsOf
  <2>4. ASSUME NEW i
        PROVE  i \in RecordsOf(t)' <=> i \in RecordsOf(t) \/ (t \in cross /\ i = Record(t, f[t], 1))
    BY <1>3, <2>3, CopyFields DEF RecordsOf
  <2>5. ASSUME NEW d, d.tx = t
        PROVE  d \in sent <=>
                 \/ t \in txs /\ t \notin cross /\ d = Whole(t)
                 \/ t \in list1 /\ \E b : Record(t, b, 1) \in known /\ d = First(t, b)
                 \/ t \in readyBroker2 /\ \E b : Record(t, b, 2) \in known /\ d = Second(t, b)
    <3>1. d \in inner <=> t \in txs /\ t \notin cross /\ d = Whole(t)  BY <1>10, <2>5, CopyFields
    <3>2. \A i \in known : i = Record(i.tx, i.broker, i.confirmStage)
      BY <1>16 DEF TxInfoStage, Record
    <3>3. d \in half1 <=> t \in list1 /\ \E b : Record(t, b, 1) \in known /\ d = First(t, b)
      BY <1>13, <2>5, <3>2, CopyFields
    <3>4. d \in half2 <=> t \in readyBroker2 /\ \E b : Record(t, b, 2) \in known /\ d = Second(t, b)
      BY <1>14, <2>5, <3>2, CopyFields
    <3> QED  BY <1>11, <3>1, <3>3, <3>4
  <2>6. ASSUME NEW q
        PROVE  InMessages(net', t, q) <=>
                 \/ InMessages(net, t, q)
                 \/ \E m \in out : \E c \in m.txs : c.tx = t /\ q = <<"net", m, c>>
    BY <1>3, <1>15 DEF InMessages
  <2>7. \A q : ~OnList(unconfirmed', {}, {}, t, q)  BY DEF OnList
  \* What is sent leaves the source or the list it was on.
  <2>8. ASSUME NEW c, c.tx = t, \A d : d.tx = t => (d \in sent <=> d = c),
               NEW p, WaitsAt(t, p), p[1] \in {"source", "ready"}, t \notin unsent',
               \A q : q[1] # "info" /\ q[3] = c => Fits(t, q, RecordsOf(t)', BlocksOf(t)')
        PROVE  OnItsWay(t)'
    <3>1. c \in sent  BY <2>8
    <3>2. PICK m \in out : \A n \in out : c \in n.txs <=> n = m  BY <1>15, <3>1
    <3>3. \A n \in out : \A d \in n.txs : d.tx = t => d = c  BY <1>15, <2>8
    <3> DEFINE q == <<"net", m, c>>
    <3>4. \A x : WaitsAt(t, x) => x[1] \in {"source", "ready"}  BY <2>1, <2>8 DEF OnItsWay
    <3>5. \A x : ~InMessages(net, t, x) /\ ~InPools(pool, t, x) /\ ~InBlocks(proposal, t, x)
      BY <3>4, PlaceNames DEF WaitsAt
    <3>6. \A x : InMessages(net', t, x) <=> x = q  BY <2>6, <2>8, <3>2, <3>3, <3>5
    <3>7. q[1] # "info" /\ q[3] = c  OBVIOUS
    <3> HIDE DEF q
    <3>8. \A x : ~InSource(unsent', t, x)  BY <2>8 DEF InSource
    <3>9. \A x : WaitsAt(t, x)' <=> x = q
      BY <1>3, <2>7, <3>5, <3>6, <3>8 DEF WaitsAt
    <3>10. Fits(t, q, RecordsOf(t)', BlocksOf(t)')  BY <2>8, <3>7
    <3>11. t \notin readyBroker1' /\ t \notin readyBroker2'  BY <1>3
    <3> QED  BY <3>9, <3>10, <3>11, Moved
  <2>9. CASE t \in cross
    <3>1. /\ t \in txs /\ RecordsOf(t) = {} /\ BlocksOf(t) = {} /\ f[t] \in Broker
          /\ WaitsAt(t, <<"source", NoShard, Whole(t)>>) /\ t \notin readyBroker2
      BY <1>4, <1>6, <1>7, <2>9
    <3> DEFINE p == <<"source", NoShard, Whole(t)>>
               c == First(t, f[t])
    <3>2. p[1] = "source" /\ WaitsAt(t, p)  BY <3>1
    <3>3. c.tx = t  BY CopyFields
    <3>4. \A b : Record(t, b, 1) \in known <=> b = f[t]
      BY <2>3, <2>9, <3>1, CopyFields
    <3>5. \A d : d.tx = t => (d \in sent <=> d = c)
      BY <1>8, <2>5, <2>9, <3>1, <3>3, <3>4
    <3>6. RecordsOf(t)' = {Record(t, f[t], 1)}  BY <2>4, <2>9, <3>1
    <3>7. t \notin unsent'  BY <1>3, <3>1
    <3> HIDE DEF p
    <3>8. \A q : q[1] # "info" /\ q[3] = c => Fits(t, q, RecordsOf(t)', BlocksOf(t)')
      BY <2>2, <3>1, <3>6 DEF Fits
    <3> HIDE DEF c
    <3> QED  BY <2>8, <3>2, <3>3, <3>5, <3>7, <3>8
  <2>10. CASE t \notin cross /\ t \in txs
    <3>1. /\ RecordsOf(t) = {} /\ BlocksOf(t) = {}
          /\ WaitsAt(t, <<"source", NoShard, Whole(t)>>) /\ t \notin readyBroker1 /\ t \notin readyBroker2
      BY <1>6, <2>10
    <3> DEFINE p == <<"source", NoShard, Whole(t)>>
               c == Whole(t)
    <3>2. p[1] = "source" /\ WaitsAt(t, p)  BY <3>1
    <3>3. c.tx = t  BY CopyFields
    <3>5. \A d : d.tx = t => (d \in sent <=> d = c)
      BY <1>8, <2>5, <2>10, <3>1
    <3>6. RecordsOf(t)' = {}  BY <2>4, <2>10, <3>1
    <3>7. t \notin unsent'  BY <1>3, <2>10
    <3> HIDE DEF p
    <3>8. \A q : q[1] # "info" /\ q[3] = c => Fits(t, q, RecordsOf(t)', BlocksOf(t)')
      BY <2>2, <3>1, <3>6 DEF Fits
    <3> HIDE DEF c
    <3> QED  BY <2>8, <3>2, <3>3, <3>5, <3>7, <3>8
  <2>11. t \notin cross => RecordsOf(t)' = RecordsOf(t)
    <3>1. t \notin cross => \A i : i \in RecordsOf(t)' <=> i \in RecordsOf(t)  BY <2>4
    <3> QED  BY <3>1
  <2>12. CASE t \notin txs /\ t \in readyBroker1
    <3>1. PICK b \in Broker : /\ RecordsOf(t) = {Record(t, b, 1)} /\ BlocksOf(t) = {}
                              /\ WaitsAt(t, <<"ready", 1, First(t, b)>>)
      BY <2>1, <2>12, ListedIs
    <3> DEFINE p == <<"ready", 1, First(t, b)>>
               c == First(t, b)
    <3>2. p[1] = "ready" /\ WaitsAt(t, p)  BY <3>1
    <3>3. c.tx = t  BY CopyFields
    <3>4. \A d, n : Record(t, d, n) \in known <=> d = b /\ n = 1
      <4> SUFFICES ASSUME NEW d, NEW n PROVE Record(t, d, n) \in known <=> d = b /\ n = 1
        OBVIOUS
      <4>1. t \notin cross  BY <1>4, <2>12
      <4>2. Record(t, d, n).tx = t  BY CopyFields
      <4>3. Record(t, d, n) \in known <=> Record(t, d, n) = Record(t, b, 1)  BY <2>3, <3>1, <4>1, <4>2
      <4> QED  BY <4>3, CopyFields
    <3>5. \A d : d.tx = t => (d \in sent <=> d = c)
      BY <1>4, <1>8, <2>5, <2>12, <3>3, <3>4
    <3>6. RecordsOf(t)' = RecordsOf(t)  BY <1>4, <2>11, <2>12
    <3>7. t \notin unsent'
      <4>1. t \in unsent => t \notin readyBroker1  BY <2>1, SourceFits
      <4> QED  BY <1>3, <2>12, <4>1
    <3> HIDE DEF p
    <3>8. \A q : q[1] # "info" /\ q[3] = c => Fits(t, q, RecordsOf(t)', BlocksOf(t)')
      BY <2>2, <3>1, <3>6 DEF Fits
    <3> HIDE DEF c
    <3> QED  BY <2>8, <3>2, <3>3, <3>5, <3>7, <3>8
  <2>13. CASE t \notin txs /\ t \in readyBroker2
    <3>1. PICK b \in Broker : /\ RecordsOf(t) = {Record(t, b, 2)}
                              /\ \E s \in Shard : BlocksOf(t) = {<<s, First(t, b)>>}
                              /\ WaitsAt(t, <<"ready", 2, Second(t, b)>>)
      BY <2>1, <2>13, ListedIs
    <3> DEFINE p == <<"ready", 2, Second(t, b)>>
               c == Second(t, b)
    <3>2. p[1] = "ready" /\ WaitsAt(t, p)  BY <3>1
    <3>3. c.tx = t  BY CopyFields
    <3>4. \A d, n : Record(t, d, n) \in known <=> d = b /\ n = 2
      <4> SUFFICES ASSUME NEW d, NEW n PROVE Record(t, d, n) \in known <=> d = b /\ n = 2
        OBVIOUS
      <4>1. t \notin cross  BY <1>4, <2>13
      <4>2. Record(t, d, n).tx = t  BY CopyFields
      <4>3. Record(t, d, n) \in known <=> Record(t, d, n) = Record(t, b, 2)  BY <2>3, <3>1, <4>1, <4>2
      <4> QED  BY <4>3, CopyFields
    <3>5. \A d : d.tx = t => (d \in sent <=> d = c)
      BY <1>4, <1>8, <2>5, <2>13, <3>3, <3>4
    <3>6. RecordsOf(t)' = RecordsOf(t)  BY <1>4, <2>11, <2>13
    <3>7. t \notin unsent'
      <4>1. t \in unsent => t \notin readyBroker2  BY <2>1, SourceFits
      <4> QED  BY <1>3, <2>13, <4>1
    <3> HIDE DEF p
    <3>8. \A q : q[1] # "info" /\ q[3] = c => Fits(t, q, RecordsOf(t)', BlocksOf(t)')
      BY <2>2, <3>1, <3>6 DEF Fits
    <3> HIDE DEF c
    <3> QED  BY <2>8, <3>2, <3>3, <3>5, <3>7, <3>8
  <2>14. CASE t \notin txs /\ t \notin readyBroker1 /\ t \notin readyBroker2
    <3>1. t \notin cross  BY <1>4, <2>14
    <3>2. \A d : d.tx = t => d \notin sent  BY <1>8, <2>5, <2>14, <3>1
    <3>3. \A m \in out : \A d \in m.txs : d.tx # t  BY <1>15, <3>2
    <3>4. \A q : InMessages(net', t, q) <=> InMessages(net, t, q)  BY <2>6, <3>3
    <3>5. \A q : ~OnList(unconfirmed, readyBroker1, readyBroker2, t, q)  BY <2>14 DEF OnList
    <3>6. \A q : InSource(unsent', t, q) <=> InSource(unsent, t, q)  BY <1>3, <2>14 DEF InSource
    <3>7. \A q : WaitsAt(t, q)' <=> WaitsAt(t, q)
      BY <1>3, <2>7, <3>4, <3>5, <3>6 DEF WaitsAt
    <3> QED  BY <1>3, <2>1, <2>2, <2>11, <3>1, <3>7, Unmoved
  <2> QED  BY <2>9, <2>10, <2>12, <2>13, <2>14
<1> QED  BY <1>18, <1>19 DEF WayInv

\* The repartition, the moves and the transfers of the dynamic broker mode.
BrokerInv == IInv /\ MoveInv /\ WayInv

LEMMA BrokerInitInv == BrokerInit => BrokerInv
<1> SUFFICES ASSUME BrokerInit PROVE BrokerInv  OBVIOUS
<1> USE DEF BrokerInit
<1>1. IInv  BY InitIInv
<1> USE DEF Init
<1>2. MapsInv  BY TxAssumption DEF MapsInv
<1>3. QuietInv  BY DEF QuietInv, NoBlock
<1>4. WayShape  BY DEF WayShape, NoBlock
<1>5. ASSUME NEW t \in Tx PROVE OnItsWay(t)
  <2> DEFINE q == <<"source", NoShard, Whole(t)>>
  <2>1. \A x : WaitsAt(t, x) <=> x = q
    BY DEF WaitsAt, InSource, OnList, InMessages, InPools, InBlocks, NoBlock
  <2>2. q[3] = Whole(t)  OBVIOUS
  <2> HIDE DEF q
  <2>3. RecordsOf(t) = {}  BY DEF RecordsOf
  <2>4. BlocksOf(t) = {}  BY DEF BlocksOf
  <2>5. Fits(t, q, RecordsOf(t), BlocksOf(t))  BY <2>2, <2>3, <2>4 DEF Fits
  <2> QED  BY <2>1, <2>4, <2>5 DEF OnItsWay, Executed
<1> QED  BY <1>1, <1>2, <1>3, <1>4, <1>5 DEF BrokerInv, MoveInv, WayInv

\* Starts, states and migration blocks hold no transfer.
LEMMA WayMigration ==
  ASSUME IInv, WayInv, UNCHANGED bookVars,
         \/ Repartition \/ Stop
         \/ \E m \in net : HandleRepartitionStart(m) \/ HandleAccountMigration(m)
         \/ \E s \in Shard : BuildMigrationProposal(s) \/ MigrationBlockCommit(s)
  PROVE  WayInv'
<1> USE DEF chainVars, supVars
<1>1. CASE Repartition
  <2>1. PICK modified : net' = net \cup [type : {"start"}, to : Shard, epoch : {supEpoch + 1},
                                          modified : {modified}]
    BY <1>1 DEF Repartition
  <2>2. UNCHANGED <<unsent, pool, committed, proposal, stopped>>  BY <1>1 DEF Repartition
  <2>3. \A m : m.type \in {"txs", "info", "again"} => (m \in net' <=> m \in net)  BY <2>1
  <2>4. DOMAIN proposal' = Shard  BY <2>2 DEF WayInv, WayShape
  <2> QED  BY <2>2, <2>3, <2>4, WayStays
<1>2. CASE Stop
  <2>1. UNCHANGED <<unsent, pool, committed, proposal, net>> /\ stopped'  BY <1>2 DEF Stop
  <2>2. DOMAIN proposal' = Shard  BY <2>1 DEF WayInv, WayShape
  <2> QED  BY <2>1, <2>2, WayStays
<1>3. ASSUME NEW m \in net, HandleRepartitionStart(m) \/ HandleAccountMigration(m) PROVE WayInv'
  <2>1. /\ net' = net \ {m} /\ m.type \notin {"txs", "info", "again"}
        /\ UNCHANGED <<unsent, pool, committed, proposal, stopped>>
    BY <1>3 DEF HandleRepartitionStart, HandleAccountMigration
  <2>2. \A n : n.type \in {"txs", "info", "again"} => (n \in net' <=> n \in net)  BY <2>1
  <2>3. DOMAIN proposal' = Shard  BY <2>1 DEF WayInv, WayShape
  <2> QED  BY <2>1, <2>2, <2>3, WayStays
<1>4. ASSUME NEW s \in Shard, BuildMigrationProposal(s) \/ MigrationBlockCommit(s) PROVE WayInv'
  <2>1. UNCHANGED <<unsent, pool, committed, net, stopped>>
    BY <1>4 DEF BuildMigrationProposal, MigrationBlockCommit
  <2>2. /\ proposal' = [proposal EXCEPT ![s] = proposal'[s]]
        /\ proposal[s].type # "tx" /\ proposal'[s].type # "tx"
    BY <1>4 DEF BuildMigrationProposal, MigrationBlockCommit, NoBlock, IInv, Shape
  <2>3. /\ DOMAIN proposal' = Shard
        /\ \A o \in Shard : proposal[o].type = "tx" \/ proposal'[o].type = "tx" => proposal'[o] = proposal[o]
    BY <2>2 DEF WayInv, WayShape
  <2> QED  BY <2>1, <2>3, WayStays
<1> QED  BY <1>1, <1>2, <1>3, <1>4

LEMMA BrokerNextInv == BrokerInv /\ [BrokerNext]_brokerVars => BrokerInv'
<1> SUFFICES ASSUME BrokerInv, [BrokerNext]_brokerVars PROVE BrokerInv'  OBVIOUS
<1>1. IInv /\ MoveInv /\ WayInv  BY DEF BrokerInv
<1>2. IInv' /\ MoveInv'  BY <1>1, BrokerNextIInv, BrokerMoves
<1>3. CASE BrokerReadTxsAndSend \/ HandleMsg
  BY <1>1, <1>2, <1>3, WaySend, WayInfo, WayAgain DEF HandleMsg, BrokerInv
<1>4. CASE (Repartition \/ Stop) /\ UNCHANGED <<bookVars, brokerBalance>>
  BY <1>1, <1>2, <1>4, WayMigration DEF BrokerInv
<1>5. ASSUME NEW s \in Shard, BrokerReceive(s) PROVE BrokerInv'
  <2>1. PICK m \in net : m.to = s /\ (HandleReceiveTxs(m) \/ HandleRepartitionStart(m) \/ HandleAccountMigration(m))
    BY <1>5 DEF BrokerReceive
  <2>2. UNCHANGED bookVars  BY <1>5 DEF BrokerReceive
  <2> QED  BY <1>1, <1>2, <2>1, <2>2, WayReceive, WayMigration DEF BrokerInv
<1>6. ASSUME NEW s \in Shard, BrokerLeader(s) PROVE BrokerInv'
  BY <1>1, <1>2, <1>6, WayBuild, WayMigrate, WayCommit, WayMigration DEF BrokerLeader, BrokerInv
<1>7. CASE UNCHANGED brokerVars
  <2>1. UNCHANGED <<unsent, pool, committed, bookVars, proposal, net, stopped>>
    BY <1>7 DEF brokerVars, vars, chainVars, supVars
  <2>2. DOMAIN proposal' = Shard  BY <1>1, <2>1 DEF WayInv, WayShape
  <2>3. WayInv'  BY <1>1, <2>1, <2>2, WayStays
  <2> QED  BY <1>2, <2>3 DEF BrokerInv
<1> QED  BY <1>3, <1>4, <1>5, <1>6, <1>7 DEF BrokerNext

LEMMA BrokerCorrect == BrokerSpec => []BrokerInv
BY BrokerInitInv, BrokerNextInv, PTL DEF BrokerSpec

\* What is in the chains of a transfer.
LEMMA CommittedIs ==
  ASSUME WayInv, NEW t \in Tx
  PROVE  /\ \A stage : Committed(t, stage) <=> \E q \in BlocksOf(t) : q[2].stage = stage
         /\ \A s \in Shard : \A c \in committed[s] : c.tx = t => <<s, c>> \in BlocksOf(t)
         /\ BrokerDone(t) <=> Finished(t, BlocksOf(t))
<1>1. committed \in [Shard -> SUBSET BrokerCopy]  BY DEF WayInv, WayShape
<1>2. ASSUME NEW s \in Shard, NEW c \in committed[s], c.tx = t PROVE <<s, c>> \in BlocksOf(t)
  <2>1. c \in BrokerCopy  BY <1>1
  <2> QED  BY <1>2, <2>1 DEF BlocksOf
<1>3. \A q \in BlocksOf(t) : q[1] \in Shard /\ q[2] \in committed[q[1]] /\ q[2].tx = t  BY DEF BlocksOf
<1>4. ASSUME NEW stage PROVE Committed(t, stage) <=> \E q \in BlocksOf(t) : q[2].stage = stage
  <2>1. \A s, c : <<s, c>>[2] = c  OBVIOUS
  <2> QED  BY <1>2, <1>3, <2>1 DEF Committed
<1>5. BrokerDone(t) <=> Finished(t, BlocksOf(t))
  <2>1. Executed(t, BlocksOf(t))  BY DEF WayInv, OnItsWay
  <2>2. \A s, c : <<s, c>>[2] = c  OBVIOUS
  <2>3. CASE BlocksOf(t) = {}
    BY <1>4, <2>3 DEF BrokerDone, Finished
  <2>4. ASSUME NEW s \in Shard, NEW b \in Broker, BlocksOf(t) = {<<s, First(t, b)>>}
        PROVE  ~BrokerDone(t) /\ ~Finished(t, BlocksOf(t))
    <3>1. \A q \in BlocksOf(t) : q[2].stage = "broker1"  BY <2>2, <2>4, CopyFields
    <3>2. ~Finished(t, BlocksOf(t))
      <4>1. ASSUME NEW o \in Shard, <<o, Whole(t)>> \in BlocksOf(t) PROVE FALSE
        BY <2>2, <3>1, <4>1, CopyFields
      <4>2. ASSUME NEW o \in Shard, NEW d, <<o, Second(t, d)>> \in BlocksOf(t) PROVE FALSE
        BY <2>2, <3>1, <4>2, CopyFields
      <4> QED  BY <4>1, <4>2 DEF Finished
    <3> QED  BY <1>4, <3>1, <3>2 DEF BrokerDone
  <2>5. ASSUME Finished(t, BlocksOf(t)) PROVE BrokerDone(t)
    <3>1. ASSUME NEW s \in Shard, <<s, Whole(t)>> \in BlocksOf(t) PROVE BrokerDone(t)
      BY <1>4, <2>2, <3>1, CopyFields DEF BrokerDone
    <3>2. ASSUME NEW s \in Shard, NEW b, <<s, Second(t, b)>> \in BlocksOf(t) PROVE BrokerDone(t)
      BY <1>4, <2>2, <3>2, CopyFields DEF BrokerDone
    <3> QED  BY <2>5, <3>1, <3>2 DEF Finished
  <2> QED  BY <2>1, <2>3, <2>4, <2>5 DEF Executed
<1> QED  BY <1>2, <1>4, <1>5

-----------------------------------------------------------------------------
(***************************************************************************)
(* What follows from where every transfer is                               *)
(***************************************************************************)

\* An invariant that follows from where every transfer is.
LEMMA InvariantBooks == WayInv => BooksFollowChains
<1> SUFFICES ASSUME WayInv, NEW m \in net
             PROVE  /\ m.type = "again" => \A i \in unconfirmed : i.tx \notin m.txs
                    /\ m.type = "info" => \A c \in m.txs : c.stage # "inner" =>
                         [tx |-> c.tx, broker |-> c.broker,
                          confirmStage |-> IF c.stage = "broker1" THEN 1 ELSE 2] \in unconfirmed
  BY DEF BooksFollowChains
<1>1. ASSUME m.type = "again", NEW t \in m.txs PROVE \A i \in unconfirmed : i.tx # t
  <2> DEFINE q == <<"again", m, Whole(t)>>
  <2>1. WaitsAt(t, q)  BY <1>1 DEF WaitsAt, InMessages
  <2>2. t \in Tx  BY <1>1 DEF WayInv, WayShape
  <2>3. Fits(t, q, RecordsOf(t), BlocksOf(t))  BY <2>1, <2>2 DEF WayInv, OnItsWay
  <2>4. q[3] = Whole(t)  OBVIOUS
  <2> HIDE DEF q
  <2>5. \A b : Whole(t) # First(t, b) /\ Whole(t) # Second(t, b)  BY CopyFields
  <2>6. RecordsOf(t) = {}  BY <2>3, <2>4, <2>5 DEF Fits
  <2> QED  BY <2>6 DEF RecordsOf
<1>2. ASSUME m.type = "info", NEW c \in m.txs, c.stage # "inner"
      PROVE  [tx |-> c.tx, broker |-> c.broker,
              confirmStage |-> IF c.stage = "broker1" THEN 1 ELSE 2] \in unconfirmed
  <2>1. PICK b \in Broker : \/ c = First(c.tx, b) /\ RecordsOf(c.tx) = {Record(c.tx, b, 1)}
                            \/ c = Second(c.tx, b) /\ RecordsOf(c.tx) = {Record(c.tx, b, 2)}
    BY <1>2, InfoFits
  <2>2. ASSUME NEW n, RecordsOf(c.tx) = {Record(c.tx, b, n)} PROVE Record(c.tx, b, n) \in unconfirmed
    BY <2>2 DEF RecordsOf
  <2>3. CASE c = First(c.tx, b) /\ RecordsOf(c.tx) = {Record(c.tx, b, 1)}
    <3>1. c.stage = "broker1" /\ c.broker = b  BY <2>3, CopyFields
    <3> QED  BY <2>2, <2>3, <3>1 DEF Record
  <2>4. CASE c = Second(c.tx, b) /\ RecordsOf(c.tx) = {Record(c.tx, b, 2)}
    <3>1. c.stage = "broker2" /\ c.broker = b  BY <2>4, CopyFields
    <3> QED  BY <2>2, <2>4, <3>1 DEF Record
  <2> QED  BY <2>1, <2>3, <2>4
<1> QED  BY <1>1, <1>2

\* What is in the chains of a transfer is in one of the forms of Executed.
LEMMA OneWay ==
  ASSUME WayInv, NEW t \in Tx
  PROVE  \A p, q \in BlocksOf(t) :
           /\ p[2].broker = q[2].broker
           /\ p[2].stage = q[2].stage => p = q
           /\ p[2].stage = "inner" => q[2].stage = "inner"
           /\ p[2].stage = "broker2" => \E r \in BlocksOf(t) : r[2].stage = "broker1"
<1> DEFINE B == BlocksOf(t)
<1>1. Executed(t, B)  BY DEF WayInv, OnItsWay
<1> HIDE DEF B
<1>2. \A s, c : <<s, c>>[1] = s /\ <<s, c>>[2] = c  OBVIOUS
<1>3. \/ B = {}
      \/ \E s \in Shard : B = {<<s, Whole(t)>>}
      \/ \E s \in Shard, b \in Broker : B = {<<s, First(t, b)>>}
      \/ \E s, o \in Shard, b \in Broker : B = {<<s, First(t, b)>>, <<o, Second(t, b)>>}
  BY <1>1 DEF Executed, Finished
<1>4. \A p, q \in B : /\ p[2].broker = q[2].broker
                      /\ p[2].stage = q[2].stage => p = q
                      /\ p[2].stage = "inner" => q[2].stage = "inner"
                      /\ p[2].stage = "broker2" => \E r \in B : r[2].stage = "broker1"
  <2>1. CASE B = {}  BY <2>1
  <2>2. ASSUME NEW s \in Shard, B = {<<s, Whole(t)>>}
        PROVE  \A p, q \in B : p = q /\ p[2].stage = "inner"
    BY <1>2, <2>2, CopyFields
  <2>3. ASSUME NEW s \in Shard, NEW b \in Broker, B = {<<s, First(t, b)>>}
        PROVE  \A p, q \in B : p = q /\ p[2].stage = "broker1"
    BY <1>2, <2>3, CopyFields
  <2>4. ASSUME NEW s \in Shard, NEW o \in Shard, NEW b \in Broker,
               B = {<<s, First(t, b)>>, <<o, Second(t, b)>>}
        PROVE  \A p, q \in B : /\ p[2].broker = q[2].broker
                               /\ p[2].stage = q[2].stage => p = q
                               /\ p[2].stage = "inner" => q[2].stage = "inner"
                               /\ p[2].stage = "broker2" => \E r \in B : r[2].stage = "broker1"
    <3> DEFINE x == <<s, First(t, b)>>
               y == <<o, Second(t, b)>>
    <3>1. /\ x[2].broker = b /\ x[2].stage = "broker1"
          /\ y[2].broker = b /\ y[2].stage = "broker2"
      BY <1>2, CopyFields
    <3>2. B = {x, y}  BY <2>4
    <3> HIDE DEF x, y
    <3> QED  BY <3>1, <3>2
  <2> QED  BY <1>3, <2>1, <2>2, <2>3, <2>4
<1> QED  BY <1>4 DEF B

LEMMA InvariantExecuted == WayInv => ExecutedOnce
<1> SUFFICES ASSUME WayInv, NEW t \in Tx
             PROVE  /\ ~(Committed(t, "inner") /\ Committed(t, "broker1"))
                    /\ Committed(t, "broker2") => Committed(t, "broker1")
                    /\ Cardinality({c.broker : c \in {d \in UNION Range(committed) : d.tx = t}}) <= 1
                    /\ \A s, o \in Shard : \A c \in committed[s] \cap committed[o] : c.tx = t => s = o
  BY DEF ExecutedOnce
<1> DEFINE B == BlocksOf(t)
<1>1. /\ \A stage : Committed(t, stage) <=> \E q \in B : q[2].stage = stage
      /\ \A s \in Shard : \A c \in committed[s] : c.tx = t => <<s, c>> \in B
  BY CommittedIs
<1>3. \A s, c : <<s, c>>[1] = s /\ <<s, c>>[2] = c  OBVIOUS
<1>5. \A p, q \in B : /\ p[2].broker = q[2].broker
                      /\ p[2].stage = q[2].stage => p = q
                      /\ p[2].stage = "inner" => q[2].stage = "inner"
                      /\ p[2].stage = "broker2" => \E r \in B : r[2].stage = "broker1"
  BY OneWay
<1> HIDE DEF B
<1>6. ~(Committed(t, "inner") /\ Committed(t, "broker1"))  BY <1>1, <1>5
<1>7. Committed(t, "broker2") => Committed(t, "broker1")  BY <1>1, <1>5
<1>8. Cardinality({c.broker : c \in {d \in UNION Range(committed) : d.tx = t}}) <= 1
  <2> DEFINE own == {d \in UNION Range(committed) : d.tx = t}
             C == {c.broker : c \in own}
  <2>1. DOMAIN committed = Shard  BY DEF WayInv, WayShape
  <2>2. \A c \in own : \E s \in Shard : c \in committed[s] /\ c.tx = t  BY <2>1 DEF Range
  <2> HIDE DEF own
  <2>3. \A c \in own : \E q \in B : q[2] = c  BY <1>1, <1>3, <2>2
  <2>4. \A c, d \in own : c.broker = d.broker  BY <1>5, <2>3
  <2>5. \A x, y \in C : x = y  BY <2>4
  <2> HIDE DEF C
  <2>6. Cardinality(C) = 0 \/ Cardinality(C) = 1  BY <2>5, AtMostOne
  <2>7. Cardinality(C) <= 1  BY <2>6
  <2> QED  BY <2>7 DEF C, own
<1>9. ASSUME NEW s \in Shard, NEW o \in Shard, NEW c \in committed[s] \cap committed[o], c.tx = t
      PROVE  s = o
  <2>1. <<s, c>> \in B /\ <<o, c>> \in B  BY <1>1, <1>9
  <2>2. <<s, c>> = <<o, c>>  BY <1>3, <1>5, <2>1
  <2> QED  BY <2>2
<1> QED  BY <1>6, <1>7, <1>8, <1>9

\* No place is counted twice, and a second half that is reported is not.
LEMMA InvariantKept == WayInv => TransfersKept
<1> SUFFICES ASSUME WayInv, ~stopped, NEW t \in Tx
             PROVE  BrokerCopies(t) = IF BrokerDone(t) THEN 0 ELSE 1
  BY DEF TransfersKept
<1> DEFINE lists == <<unsent, readyBroker1, readyBroker2>>
           Q == {q \in {1, 2, 3} : t \in lists[q]}
           A == {m \in net : m.type = "txs" /\ Holds(m.txs, t)}
           G == {m \in net : m.type = "again" /\ t \in m.txs}
           I == {m \in net : m.type = "info" /\ \E c \in m.txs : c.tx = t /\ c.stage = "broker1"}
           P == {s \in Shard : Holds(pool[s], t)}
           C == {s \in Shard : proposal[s].type = "tx" /\ Holds(proposal[s].txs, t)}
<1>1. BrokerCopies(t) = Cardinality(Q) + Cardinality(A) + Cardinality(G) + Cardinality(I)
                          + Cardinality(P) + Cardinality(C)
  BY DEF BrokerCopies
<1>2. OnItsWay(t)  BY DEF WayInv
<1>3. \A p, q : WaitsAt(t, p) /\ WaitsAt(t, q) => p = q  BY <1>2 DEF OnItsWay
<1>4. /\ Q \subseteq {1, 2, 3}
      /\ 1 \in Q => \E c : WaitsAt(t, <<"source", NoShard, c>>)
      /\ 2 \in Q => \E c : WaitsAt(t, <<"ready", 1, c>>)
      /\ 3 \in Q => \E c : WaitsAt(t, <<"ready", 2, c>>)
      /\ \A m \in A : \E c : WaitsAt(t, <<"net", m, c>>)
      /\ \A m \in G : \E c : WaitsAt(t, <<"again", m, c>>)
      /\ \A m \in I : \E c : WaitsAt(t, <<"info", m, c>>) /\ c.stage = "broker1"
      /\ \A s \in P : \E c : WaitsAt(t, <<"pool", s, c>>)
      /\ \A s \in C : \E c : WaitsAt(t, <<"block", s, c>>)
  <2>1. /\ Q \subseteq {1, 2, 3}
        /\ 1 \in Q => \E c : WaitsAt(t, <<"source", NoShard, c>>)
        /\ 2 \in Q => \E c : WaitsAt(t, <<"ready", 1, c>>)
        /\ 3 \in Q => \E c : WaitsAt(t, <<"ready", 2, c>>)
    <3>1. /\ Q \subseteq {1, 2, 3}
          /\ 1 \in Q => t \in unsent
          /\ 2 \in Q => t \in readyBroker1
          /\ 3 \in Q => t \in readyBroker2
      OBVIOUS
    <3>2. t \in unsent => \E c : WaitsAt(t, <<"source", NoShard, c>>)  BY <1>2, SourceFits
    <3>3. t \in readyBroker1 => \E c : WaitsAt(t, <<"ready", 1, c>>)  BY <1>2, ListedIs
    <3>4. t \in readyBroker2 => \E c : WaitsAt(t, <<"ready", 2, c>>)  BY <1>2, ListedIs
    <3> HIDE DEF Q
    <3> QED  BY <3>1, <3>2, <3>3, <3>4
  <2>2. \A m \in A : \E c : InMessages(net, t, <<"net", m, c>>)  BY DEF InMessages, Holds
  <2>3. \A m \in G : \E c : InMessages(net, t, <<"again", m, c>>)  BY DEF InMessages
  <2>4. ASSUME NEW m \in I PROVE \E c : InMessages(net, t, <<"info", m, c>>) /\ c.stage = "broker1"
    <3>1. PICK c \in m.txs : c.tx = t /\ c.stage = "broker1"  OBVIOUS
    <3>2. InMessages(net, t, <<"info", m, c>>)  BY <3>1 DEF InMessages
    <3> QED  BY <3>1, <3>2
  <2>5. \A s \in P : \E c : InPools(pool, t, <<"pool", s, c>>)  BY DEF InPools, Holds
  <2>6. \A s \in C : \E c : InBlocks(proposal, t, <<"block", s, c>>)  BY DEF InBlocks, Holds
  <2> HIDE DEF Q, A, G, I, P, C
  <2> QED  BY <2>1, <2>2, <2>3, <2>4, <2>5, <2>6 DEF WaitsAt
<1>5. ASSUME NEW q, WaitsAt(t, q)
      PROVE  \/ q[1] = "info" /\ q[3].stage = "broker2"
             \/ Q # {} \/ A # {} \/ G # {} \/ I # {} \/ P # {} \/ C # {}
  <2>1. CASE InSource(unsent, t, q)
    <3>1. 1 \in Q  BY <2>1 DEF InSource
    <3> QED  BY <3>1
  <2>2. CASE OnList(unconfirmed, readyBroker1, readyBroker2, t, q)
    <3>1. 2 \in Q \/ 3 \in Q  BY <2>2 DEF OnList
    <3> QED  BY <3>1
  <2>3. CASE InMessages(net, t, q)
    <3>1. PICK m \in net :
            \/ m.type = "again" /\ t \in m.txs /\ q = <<"again", m, Whole(t)>>
            \/ m.type = "txs" /\ \E c \in m.txs : c.tx = t /\ q = <<"net", m, c>>
            \/ m.type = "info" /\ \E c \in m.txs : c.tx = t /\ c.stage # "inner" /\ q = <<"info", m, c>>
      BY <2>3 DEF InMessages
    <3>2. CASE m.type = "again" /\ t \in m.txs
      <4>1. m \in G  BY <3>2
      <4> QED  BY <4>1
    <3>3. CASE m.type = "txs" /\ \E c \in m.txs : c.tx = t
      <4>1. m \in A  BY <3>3 DEF Holds
      <4> QED  BY <4>1
    <3>4. ASSUME m.type = "info", NEW c \in m.txs, c.tx = t, c.stage # "inner", q = <<"info", m, c>>
          PROVE  (q[1] = "info" /\ q[3].stage = "broker2") \/ I # {}
      <4>1. c.stage \in {"broker1", "broker2"}
        <5>1. c \in BrokerCopy  BY <3>4 DEF WayInv, WayShape
        <5> QED  BY <3>4, <5>1, CopyIs, CopyFields
      <4>2. q[1] = "info" /\ q[3] = c  BY <3>4
      <4>3. c.stage = "broker1" => m \in I  BY <3>4
      <4> HIDE DEF I
      <4> QED  BY <4>1, <4>2, <4>3
    <3> HIDE DEF Q, A, G, I, P, C
    <3> QED  BY <3>1, <3>2, <3>3, <3>4
  <2>4. CASE InPools(pool, t, q)
    <3>1. \E s \in Shard : s \in P  BY <2>4 DEF InPools, Holds
    <3> QED  BY <3>1
  <2>5. CASE InBlocks(proposal, t, q)
    <3>1. \E s \in Shard : s \in C  BY <2>5 DEF InBlocks, Holds
    <3> QED  BY <3>1
  <2> HIDE DEF Q, A, G, I, P, C
  <2> QED  BY <1>5, <2>1, <2>2, <2>3, <2>4, <2>5 DEF WaitsAt
<1> HIDE DEF Q, A, G, I, P, C
\* A transfer is done if it waits for nothing but the report of its second half.
<1>6. ASSUME NEW q, WaitsAt(t, q)
      PROVE  BrokerDone(t) <=> q[1] = "info" /\ q[3].stage = "broker2"
  <2>1. Fits(t, q, RecordsOf(t), BlocksOf(t))  BY <1>2, <1>6 DEF OnItsWay
  <2>2. BrokerDone(t) <=> Finished(t, BlocksOf(t))  BY CommittedIs
  <2>3. \A s, c : <<s, c>>[1] = s /\ <<s, c>>[2] = c  OBVIOUS
  <2>4. ASSUME \A p \in BlocksOf(t) : p[2].stage = "broker1" PROVE ~BrokerDone(t)
    BY <2>4, CommittedIs DEF BrokerDone
  <2>5. CASE q[3] = Whole(t)
    <3>1. BlocksOf(t) = {}  BY <2>1, <2>5, CopyFields DEF Fits
    <3> QED  BY <2>4, <2>5, <3>1, CopyFields
  <2>6. ASSUME NEW b \in Broker, q[3] = First(t, b)
        PROVE  ~BrokerDone(t) /\ q[3].stage = "broker1"
    <3>1. q[3].stage = "broker1"  BY <2>6, CopyFields
    <3>2. BlocksOf(t) = {} \/ \E s \in Shard, d \in Broker : BlocksOf(t) = {<<s, First(t, d)>>}
      BY <2>1, <3>1, CopyFields DEF Fits
    <3>3. \A p \in BlocksOf(t) : p[2].stage = "broker1"  BY <2>3, <3>2, CopyFields
    <3> QED  BY <2>4, <3>1, <3>3
  <2>7. ASSUME NEW b \in Broker, q[3] = Second(t, b)
        PROVE  q[3].stage = "broker2" /\ (BrokerDone(t) <=> q[1] = "info")
    <3>1. q[3].stage = "broker2"  BY <2>7, CopyFields
    <3>2. PICK d \in Broker, s \in Shard :
            IF q[1] = "info"
            THEN \E o \in Shard : BlocksOf(t) = {<<s, First(t, d)>>, <<o, Second(t, d)>>}
            ELSE BlocksOf(t) = {<<s, First(t, d)>>}
      BY <2>1, <3>1, CopyFields DEF Fits
    <3>3. CASE q[1] = "info"
      <4>1. Finished(t, BlocksOf(t))  BY <3>2, <3>3 DEF Finished
      <4> QED  BY <2>2, <3>1, <3>3, <4>1
    <3>4. CASE q[1] # "info"
      <4>1. \A p \in BlocksOf(t) : p[2].stage = "broker1"  BY <2>3, <3>2, <3>4, CopyFields
      <4> QED  BY <2>4, <3>1, <3>4, <4>1
    <3> QED  BY <3>3, <3>4
  <2> QED  BY <2>1, <2>5, <2>6, <2>7 DEF Fits
<1>7. (\A q : ~WaitsAt(t, q)) => BrokerDone(t)
  BY <1>2, CommittedIs DEF OnItsWay
<1> DEFINE At(x, y) == \E c : WaitsAt(t, <<x, y, c>>)
<1>8. /\ Q \subseteq {1, 2, 3}
      /\ (1 \in Q => At("source", NoShard)) /\ (2 \in Q => At("ready", 1)) /\ (3 \in Q => At("ready", 2))
      /\ (\A m \in A : At("net", m)) /\ (\A m \in G : At("again", m)) /\ (\A m \in I : At("info", m))
      /\ (\A s \in P : At("pool", s)) /\ (\A s \in C : At("block", s))
  BY <1>4
<1>9. CASE BrokerDone(t)
  <2>1. ASSUME NEW q, WaitsAt(t, q) PROVE q[1] = "info" /\ q[3].stage = "broker2"
    BY <1>6, <1>9, <2>1
  <2>2. \A x, y, c : WaitsAt(t, <<x, y, c>>) => x = "info" /\ c.stage = "broker2"
    <3>1. \A x, y, c : <<x, y, c>>[1] = x /\ <<x, y, c>>[3] = c  OBVIOUS
    <3> QED  BY <2>1, <3>1
  <2>3. I = {}  BY <1>4, <2>2
  <2>4. \A x, y : At(x, y) => x = "info"  BY <2>2
  <2> HIDE DEF At
  <2>5. Q = {} /\ A = {} /\ G = {} /\ P = {} /\ C = {}  BY <1>8, <2>4
  <2> QED  BY <1>1, <1>9, <2>3, <2>5, FS_EmptySet
<1>10. CASE ~BrokerDone(t)
  <2>1. PICK q : WaitsAt(t, q)  BY <1>7, <1>10
  <2>2. \A x : WaitsAt(t, x) => x = q  BY <1>3, <2>1
  <2>3. Q # {} \/ A # {} \/ G # {} \/ I # {} \/ P # {} \/ C # {}  BY <1>5, <1>6, <1>10, <2>1
  <2>4. \A x, y, d, e : At(x, y) /\ At(d, e) => x = d /\ y = e
    <3> SUFFICES ASSUME NEW x, NEW y, NEW c, NEW d, NEW e, NEW f,
                        WaitsAt(t, <<x, y, c>>), WaitsAt(t, <<d, e, f>>)
                 PROVE  x = d /\ y = e
      OBVIOUS
    <3>1. <<x, y, c>> = <<d, e, f>>  BY <1>3
    <3> QED  BY <3>1
  <2> HIDE DEF At
  <2>5. /\ \A x, y \in Q : x = y
        /\ \A x, y \in A : x = y
        /\ \A x, y \in G : x = y
        /\ \A x, y \in I : x = y
        /\ \A x, y \in P : x = y
        /\ \A x, y \in C : x = y
    BY <1>8, <2>4
  <2>6. /\ Cardinality(Q) = IF Q = {} THEN 0 ELSE 1
        /\ Cardinality(A) = IF A = {} THEN 0 ELSE 1
        /\ Cardinality(G) = IF G = {} THEN 0 ELSE 1
        /\ Cardinality(I) = IF I = {} THEN 0 ELSE 1
        /\ Cardinality(P) = IF P = {} THEN 0 ELSE 1
        /\ Cardinality(C) = IF C = {} THEN 0 ELSE 1
    BY <2>5, AtMostOne
  <2>7. /\ Q # {} => A = {} /\ G = {} /\ I = {} /\ P = {} /\ C = {}
        /\ A # {} => G = {} /\ I = {} /\ P = {} /\ C = {}
        /\ G # {} => I = {} /\ P = {} /\ C = {}
        /\ I # {} => P = {} /\ C = {}
        /\ P # {} => C = {}
    BY <1>8, <2>4
  <2> QED  BY <1>1, <1>10, <2>3, <2>6, <2>7
<1> QED  BY <1>9, <1>10

\* Until the supervisor stops, a transfer that is not finished waits in exactly
\* one place: cut into halves by the supervisor, packed, sent on to the shard of
\* an account that has moved, sent back to be cut again or held back until the
\* epochs are in sync, for any number of shards, brokers and repartitions.
THEOREM TransfersAlwaysKept == BrokerSpec => []TransfersKept
<1>1. BrokerInv => TransfersKept  BY InvariantKept DEF BrokerInv
<1> QED  BY <1>1, BrokerCorrect, PTL

\* A transfer is executed in one way, however often its accounts are separated
\* and joined again: as an inner transfer in one block, or by two halves through
\* one broker, each in one block of one shard.
THEOREM AlwaysExecutedOnce == BrokerSpec => []ExecutedOnce
<1>1. BrokerInv => ExecutedOnce  BY InvariantExecuted DEF BrokerInv
<1> QED  BY <1>1, BrokerCorrect, PTL

\* What the broker manager has recorded follows the chains: a transfer that
\* comes back has no record, and a half that is reported, by a shard in any
\* epoch, finds the record that waits for it.
THEOREM BooksAlwaysFollowChains == BrokerSpec => []BooksFollowChains
<1>1. BrokerInv => BooksFollowChains  BY InvariantBooks DEF BrokerInv
<1> QED  BY <1>1, BrokerCorrect, PTL

-----------------------------------------------------------------------------
(***************************************************************************)
(* The money                                                               *)
(***************************************************************************)

LEMMA BrokerFundsSuffice ==
  BrokerInitBalance \in Nat /\ BrokerInitBalance >= SumOf(Value, Tx)
<1>1. BrokerInitBalance \in Nat /\ BrokerInitBalance > MapThenSumSet(LAMBDA t : Value[t], Tx)
  BY BrokerAssumption, Zenon
<1>2. MapThenSumSet(LAMBDA t : Value[t], Tx) = SumOf(Value, Tx)  BY DEF SumOf
<1>3. BrokerInitBalance > SumOf(Value, Tx)  BY <1>1, <1>2, Zenon
<1>4. BrokerInitBalance \in Nat /\ SumOf(Value, Tx) \in Nat  BY <1>1, FundsSuffice, Zenon
<1> QED  BY <1>3, <1>4

LEMMA BrokerCopyPriced == Priced(BrokerCopy)
<1> DEFINE S == {"inner", "broker1", "broker2"}
           K == Broker \cup {NoBroker}
           P == (Tx \X S) \X K
           F == [p \in P |-> [tx |-> p[1][1], stage |-> p[1][2], broker |-> p[2]]]
           C == {F[p] : p \in P}
<1>1. IsFiniteSet(S)
  <2>1. IsFiniteSet({"inner"}) /\ IsFiniteSet({"inner", "broker1"})
    BY FS_AddElement, FS_EmptySet, FS_Singleton
  <2>2. {"inner", "broker1"} = {"inner"} \cup {"broker1"} /\ S = {"inner", "broker1"} \cup {"broker2"}
    OBVIOUS
  <2> QED  BY <2>1, <2>2, FS_AddElement
<1>2. IsFiniteSet(Broker)  BY BrokerAssumption, Zenon
<1>3. IsFiniteSet(K)  BY <1>2, FS_AddElement
<1>4. IsFiniteSet(P)  BY <1>1, <1>3, TxAssumption, FS_Product
<1>5. IsFiniteSet(C)
  <2> HIDE DEF P, F
  <2>1. F \in Surjection(P, C)  BY DEF Surjection, F
  <2> QED  BY <1>4, <2>1, FS_Surjection
<1>6. BrokerCopy \subseteq C
  <2> SUFFICES ASSUME NEW c \in BrokerCopy PROVE \E p \in P : F[p] = c  OBVIOUS
  <2>1. /\ c = [tx |-> c.tx, stage |-> c.stage, broker |-> c.broker]
        /\ c.tx \in Tx /\ c.stage \in S /\ c.broker \in K
    BY DEF BrokerCopy
  <2>2. <<<<c.tx, c.stage>>, c.broker>> \in P  BY <2>1
  <2> QED  BY <2>1, <2>2
<1> HIDE DEF C
<1>7. IsFiniteSet(BrokerCopy)  BY <1>5, <1>6, FS_Subset
<1>8. \A c \in BrokerCopy : c.tx \in Tx  BY DEF BrokerCopy
<1> QED  BY <1>7, <1>8 DEF Priced

\* The transactions of a set that take from account x, and those that give.
AccountTakes(T, x) == {c \in T : Sender[c.tx] = x /\ c.stage \in {"inner", "broker1"}}
AccountGives(T, x) == {c \in T : Recipient[c.tx] = x /\ c.stage \in {"inner", "broker2"}}

\* The halves of a set that broker b is paid with, and those it pays.
BrokerGets(T, b) == {c \in T : c.broker = b /\ c.stage = "broker1"}
BrokerPays(T, b) == {c \in T : c.broker = b /\ c.stage = "broker2"}

\* Two transactions of one transfer in the chains.
LEMMA SameTransfer ==
  ASSUME WayInv, NEW s \in Shard, NEW c \in committed[s], NEW o \in Shard, NEW d \in committed[o],
         c.tx = d.tx
  PROVE  /\ c.stage = d.stage => c = d /\ s = o
         /\ c.stage = "inner" => d.stage = "inner"
<1>1. c \in BrokerCopy  BY DEF WayInv, WayShape
<1>2. c.tx \in Tx  BY <1>1 DEF BrokerCopy
<1>3. <<s, c>> \in BlocksOf(c.tx) /\ <<o, d>> \in BlocksOf(c.tx)  BY <1>2, CommittedIs
<1>4. \A x, y : <<x, y>>[2] = y  OBVIOUS
<1>5. /\ c.stage = d.stage => <<s, c>> = <<o, d>>
      /\ c.stage = "inner" => d.stage = "inner"
  BY <1>2, <1>3, <1>4, OneWay
<1> QED  BY <1>5

LEMMA ChainsShape ==
  ASSUME WayInv
  PROVE  /\ InChains \in SUBSET BrokerCopy
         /\ InChains = UNION Range(committed)
         /\ \A s \in Shard : committed[s] \in SUBSET BrokerCopy
<1>1. committed \in [Shard -> SUBSET BrokerCopy]  BY DEF WayInv, WayShape
<1>2. InChains \in SUBSET BrokerCopy  BY <1>1 DEF InChains
<1>3. Range(committed) = {committed[s] : s \in Shard}  BY <1>1 DEF Range
<1> QED  BY <1>1, <1>2, <1>3 DEF InChains

LEMMA AccountLedgerIs ==
  ASSUME WayInv, NEW x
  PROVE  AccountLedger(x) = InitBalance - Sum(AccountTakes(InChains, x)) + Sum(AccountGives(InChains, x))
BY ChainsShape DEF AccountLedger, AccountTakes, AccountGives

LEMMA AccountLedgerNext ==
  ASSUME WayInv', NEW x
  PROVE  AccountLedger(x)' = InitBalance - Sum(AccountTakes(InChains', x)) + Sum(AccountGives(InChains', x))
<1>1. InChains' = UNION Range(committed')
  <2>1. DOMAIN committed' = Shard  BY DEF WayInv, WayShape
  <2>2. Range(committed') = {committed'[s] : s \in Shard}  BY <2>1 DEF Range
  <2> QED  BY <2>2 DEF InChains
<1> QED  BY <1>1 DEF AccountLedger, AccountTakes, AccountGives

\* No account is ever overdrawn: what it sends is taken from it once.
LEMMA AccountLedgerNat ==
  ASSUME WayInv, NEW x
  PROVE  AccountLedger(x) \in Nat
<1> DEFINE T == AccountTakes(InChains, x)
           G == AccountGives(InChains, x)
<1>1. T \in SUBSET BrokerCopy /\ G \in SUBSET BrokerCopy  BY ChainsShape DEF AccountTakes, AccountGives
<1>2. \A c, d \in T : c.tx = d.tx => c = d
  <2> SUFFICES ASSUME NEW c \in T, NEW d \in T, c.tx = d.tx PROVE c = d  OBVIOUS
  <2>1. /\ c.stage \in {"inner", "broker1"} /\ d.stage \in {"inner", "broker1"}
        /\ \E s, o \in Shard : c \in committed[s] /\ d \in committed[o]
    BY DEF AccountTakes, InChains
  <2> QED  BY <2>1, SameTransfer
<1>3. AccountLedger(x) = InitBalance - Sum(T) + Sum(G)  BY AccountLedgerIs
<1> HIDE DEF T, G
<1>4. Sum(T) <= SumOf(Value, Tx)  BY <1>1, <1>2, BrokerCopyPriced, AmountBound
<1>5. Sum(T) \in Nat /\ Sum(G) \in Nat  BY <1>1, BrokerCopyPriced, AmountNat
<1> QED  BY <1>3, <1>4, <1>5, FundsSuffice

\* A block only touches accounts that are in its shard.
HalfLocal(s, c) ==
    /\ c.stage \in {"inner", "broker1"} => location[s][Sender[c.tx]] = s
    /\ c.stage \in {"inner", "broker2"} => location[s][Recipient[c.tx]] = s

HalvesLocal ==
    \A s \in Shard : proposal[s].type = "tx" => \A c \in proposal[s].txs : HalfLocal(s, c)

LEMMA HalvesKept ==
  ASSUME HalvesLocal,
         \A s \in Shard :
            \/ proposal'[s].type # "tx"
            \/ /\ location'[s] = location[s]
               /\ proposal'[s] = proposal[s] \/ \A c \in proposal'[s].txs : HalfLocal(s, c)
  PROVE  HalvesLocal'
<1>1. \A s \in Shard : proposal'[s].type = "tx" =>
         location'[s] = location[s] /\ \A c \in proposal'[s].txs : HalfLocal(s, c)
  BY DEF HalvesLocal
<1> QED  BY <1>1 DEF HalvesLocal, HalfLocal

\* What is packed belongs to the shard.
LEMMA HalvesBuild ==
  ASSUME IInv, WayInv, HalvesLocal, NEW s \in Shard, BuildBrokerBlockProposal(s)
  PROVE  HalvesLocal'
<1>1. PICK txs \in SUBSET pool[s] :
        proposal' = [proposal EXCEPT ![s] = [type |-> "tx", txs |-> Stays(s, txs, location[s])]]
  BY DEF BuildBrokerBlockProposal
<1>2. UNCHANGED location  BY DEF BuildBrokerBlockProposal, chainVars
<1>3. ASSUME NEW c \in Stays(s, txs, location[s]) PROVE HalfLocal(s, c)
  <2>1. c \in BrokerCopy /\ DestLoc(location[s], c) = s  BY DEF Stays, WayInv, WayShape
  <2>2. c.stage \in {"inner", "broker1", "broker2"}  BY <2>1 DEF BrokerCopy
  <2>3. Supervisor0 \notin Shard  BY BrokerAssumption, Zenon
  <2>4. CASE c.stage = "inner"  BY <2>1, <2>3, <2>4 DEF DestLoc, HalfLocal
  <2>5. CASE c.stage = "broker1"  BY <2>1, <2>5 DEF DestLoc, HalfLocal
  <2>6. CASE c.stage = "broker2"  BY <2>1, <2>6 DEF DestLoc, HalfLocal
  <2> QED  BY <2>2, <2>4, <2>5, <2>6
<1>4. \A o \in Shard : \/ proposal'[o] = proposal[o]
                       \/ o = s /\ proposal'[o].txs = Stays(s, txs, location[s])
  BY <1>1 DEF IInv, Shape
<1>5. \A o \in Shard : proposal'[o] = proposal[o] \/ \A c \in proposal'[o].txs : HalfLocal(o, c)
  BY <1>3, <1>4
<1> QED  BY <1>2, <1>5, HalvesKept

LEMMA HalvesNext ==
  ASSUME BrokerInv, HalvesLocal, [BrokerNext]_brokerVars
  PROVE  HalvesLocal'
<1> USE DEF BrokerInv, chainVars, supVars
<1>1. CASE \/ BrokerReadTxsAndSend \/ HandleMsg \/ Repartition \/ Stop \/ UNCHANGED brokerVars
           \/ \E m \in net : HandleReceiveTxs(m) \/ HandleRepartitionStart(m) \/ HandleAccountMigration(m)
           \/ \E s \in Shard : BrokerMigrateAccounts(s)
  <2>1. UNCHANGED <<location, proposal>>
    BY <1>1 DEF BrokerReadTxsAndSend, HandleMsg, HandleBrokerBlockInfo, HandleTxSendAgain, Repartition, Stop,
                HandleReceiveTxs, HandleRepartitionStart, HandleAccountMigration, BrokerMigrateAccounts,
                brokerVars, vars
  <2> QED  BY <2>1, HalvesKept
<1>2. ASSUME NEW s \in Shard, BuildBrokerBlockProposal(s) PROVE HalvesLocal'
  BY <1>2, HalvesBuild
<1>3. ASSUME NEW s \in Shard, BrokerBlockCommitAndDeliver(s) PROVE HalvesLocal'
  <2>1. UNCHANGED location /\ proposal' = [proposal EXCEPT ![s] = NoBlock]
    BY <1>3 DEF BrokerBlockCommitAndDeliver
  <2>2. \A o \in Shard : proposal'[o] = proposal[o] \/ proposal'[o].type # "tx"
    BY <2>1 DEF NoBlock, IInv, Shape
  <2> QED  BY <2>1, <2>2, HalvesKept
<1>4. ASSUME NEW s \in Shard, BuildMigrationProposal(s) \/ MigrationBlockCommit(s) PROVE HalvesLocal'
  BY <1>4, MigrationIsNoTx, HalvesKept
<1>5. CASE \E s \in Shard : BrokerReceive(s)  BY <1>1, <1>5 DEF BrokerReceive
<1>6. CASE \E s \in Shard : BrokerLeader(s)  BY <1>1, <1>2, <1>3, <1>4, <1>6 DEF BrokerLeader
<1> QED  BY <1>1, <1>5, <1>6 DEF BrokerNext

\* What a block takes and gives belongs to its shard.
LEMMA TakenIs ==
  ASSUME HalvesLocal, WayInv, NEW s \in Shard, proposal[s].type = "tx"
  PROVE  LET txs == proposal[s].txs
         IN  /\ \A x : /\ Taken(s, txs, x) = Sum(AccountTakes(txs, x))
                       /\ Given(s, txs, x) = Sum(AccountGives(txs, x))
                       /\ location[s][x] # s => AccountTakes(txs, x) = {} /\ AccountGives(txs, x) = {}
             /\ \A b : BrokerGain(s, txs, b) = Sum(BrokerGets(txs, b)) - Sum(BrokerPays(txs, b))
<1> DEFINE txs == proposal[s].txs
<1>1. \A c \in txs : HalfLocal(s, c)  BY DEF HalvesLocal
<1>2. ASSUME NEW x
      PROVE  /\ Taken(s, txs, x) = Sum(AccountTakes(txs, x))
             /\ Given(s, txs, x) = Sum(AccountGives(txs, x))
             /\ location[s][x] # s => AccountTakes(txs, x) = {} /\ AccountGives(txs, x) = {}
  <2>1. {c \in txs : Sender[c.tx] = x /\ (c.stage = "inner" \/ (c.stage = "broker1" /\ location[s][x] = s))}
          = AccountTakes(txs, x)
    BY <1>1 DEF AccountTakes, HalfLocal
  <2>2. {c \in txs : Recipient[c.tx] = x /\ (c.stage = "inner" \/ (c.stage = "broker2" /\ location[s][x] = s))}
          = AccountGives(txs, x)
    BY <1>1 DEF AccountGives, HalfLocal
  <2>3. location[s][x] # s => AccountTakes(txs, x) = {} /\ AccountGives(txs, x) = {}
    BY <1>1 DEF AccountTakes, AccountGives, HalfLocal
  <2> QED  BY <2>1, <2>2, <2>3 DEF Taken, Given
<1>3. ASSUME NEW b PROVE BrokerGain(s, txs, b) = Sum(BrokerGets(txs, b)) - Sum(BrokerPays(txs, b))
  <2> DEFINE mine == {c \in txs : c.broker = b}
  <2>1. {c \in mine : c.stage = "broker1" /\ location[s][Sender[c.tx]] = s} = BrokerGets(txs, b)
    BY <1>1 DEF BrokerGets, HalfLocal
  <2>2. {c \in mine : c.stage = "broker2" /\ location[s][Recipient[c.tx]] = s} = BrokerPays(txs, b)
    BY <1>1 DEF BrokerPays, HalfLocal
  <2> QED  BY <2>1, <2>2 DEF BrokerGain
<1> QED  BY <1>2, <1>3

\* No half is committed twice.
LEMMA NewInChains ==
  ASSUME WayInv, NEW s \in Shard, BrokerBlockCommitAndDeliver(s)
  PROVE  LET txs == proposal[s].txs
         IN  /\ txs \in SUBSET BrokerCopy /\ txs \cap InChains = {}
             /\ InChains' = InChains \cup txs
             /\ committed' = [committed EXCEPT ![s] = committed[s] \cup txs]
<1> DEFINE txs == proposal[s].txs
<1>1. proposal[s].type = "tx" /\ committed' = [committed EXCEPT ![s] = committed[s] \cup txs]
  BY DEF BrokerBlockCommitAndDeliver
<1>2. txs \in SUBSET BrokerCopy  BY <1>1 DEF WayInv, WayShape
<1>3. InChains' = InChains \cup txs
  <2>1. DOMAIN committed = Shard  BY DEF WayInv, WayShape
  <2>2. \A c : (\E o \in Shard : c \in committed'[o]) <=> (\E o \in Shard : c \in committed[o]) \/ c \in txs
    BY <1>1, <2>1
  <2> QED  BY <2>2 DEF InChains
<1>4. ASSUME NEW c \in txs, NEW o \in Shard, c \in committed[o] PROVE FALSE
  <2>1. /\ c.tx \in Tx
        /\ \/ c = Whole(c.tx) /\ BlocksOf(c.tx) = {}
           \/ \E b \in Broker : c = First(c.tx, b) /\ BlocksOf(c.tx) = {}
           \/ \E b \in Broker, x \in Shard : c = Second(c.tx, b) /\ BlocksOf(c.tx) = {<<x, First(c.tx, b)>>}
    BY <1>1, BlockFits
  <2>2. <<o, c>> \in BlocksOf(c.tx)  BY <1>4, <2>1, CommittedIs
  <2>3. PICK b \in Broker, x \in Shard : c = Second(c.tx, b) /\ <<o, c>> = <<x, First(c.tx, b)>>
    BY <2>1, <2>2
  <2>4. c = First(c.tx, b) /\ c = Second(c.tx, b)  BY <2>3
  <2>5. c.stage = "broker1" /\ c.stage = "broker2"  BY <2>4, CopyFields
  <2> QED  BY <2>5
<1>5. txs \cap InChains = {}  BY <1>4 DEF InChains
<1> QED  BY <1>1, <1>2, <1>3, <1>5

\* What the blocks of a shard, or of all, add to a sum.
LEMMA AddedUp ==
  ASSUME NEW C \in SUBSET BrokerCopy, NEW txs \in SUBSET BrokerCopy, txs \cap C = {}
  PROVE  /\ \A x : /\ Sum(AccountTakes(C \cup txs, x)) = Sum(AccountTakes(C, x)) + Sum(AccountTakes(txs, x))
                   /\ Sum(AccountGives(C \cup txs, x)) = Sum(AccountGives(C, x)) + Sum(AccountGives(txs, x))
         /\ \A b : /\ Sum(BrokerGets(C \cup txs, b)) = Sum(BrokerGets(C, b)) + Sum(BrokerGets(txs, b))
                   /\ Sum(BrokerPays(C \cup txs, b)) = Sum(BrokerPays(C, b)) + Sum(BrokerPays(txs, b))
<1>1. ASSUME NEW T \in SUBSET C, NEW U \in SUBSET txs PROVE Sum(T \cup U) = Sum(T) + Sum(U)
  <2>1. T \in SUBSET BrokerCopy /\ U \in SUBSET BrokerCopy /\ T \cap U = {}  OBVIOUS
  <2> QED  BY <2>1, BrokerCopyPriced, AmountUnion
<1>2. \A x : /\ AccountTakes(C, x) \in SUBSET C /\ AccountTakes(txs, x) \in SUBSET txs
             /\ AccountTakes(C \cup txs, x) = AccountTakes(C, x) \cup AccountTakes(txs, x)
  BY DEF AccountTakes
<1>3. \A x : /\ AccountGives(C, x) \in SUBSET C /\ AccountGives(txs, x) \in SUBSET txs
             /\ AccountGives(C \cup txs, x) = AccountGives(C, x) \cup AccountGives(txs, x)
  BY DEF AccountGives
<1>4. \A b : /\ BrokerGets(C, b) \in SUBSET C /\ BrokerGets(txs, b) \in SUBSET txs
             /\ BrokerGets(C \cup txs, b) = BrokerGets(C, b) \cup BrokerGets(txs, b)
  BY DEF BrokerGets
<1>5. \A b : /\ BrokerPays(C, b) \in SUBSET C /\ BrokerPays(txs, b) \in SUBSET txs
             /\ BrokerPays(C \cup txs, b) = BrokerPays(C, b) \cup BrokerPays(txs, b)
  BY DEF BrokerPays
<1> QED  BY <1>1, <1>2, <1>3, <1>4, <1>5

LEMMA PartsNat ==
  ASSUME NEW C \in SUBSET BrokerCopy
  PROVE  /\ \A x : Sum(AccountTakes(C, x)) \in Nat /\ Sum(AccountGives(C, x)) \in Nat
         /\ \A b : Sum(BrokerGets(C, b)) \in Nat /\ Sum(BrokerPays(C, b)) \in Nat
<1>1. \A T \in SUBSET BrokerCopy : Sum(T) \in Nat  BY BrokerCopyPriced, AmountNat
<1>2. \A x : AccountTakes(C, x) \in SUBSET BrokerCopy /\ AccountGives(C, x) \in SUBSET BrokerCopy
  BY DEF AccountTakes, AccountGives
<1>3. \A b : BrokerGets(C, b) \in SUBSET BrokerCopy /\ BrokerPays(C, b) \in SUBSET BrokerCopy
  BY DEF BrokerGets, BrokerPays
<1> QED  BY <1>1, <1>2, <1>3

\* What the blocks of all shards say every account owns.
AccountLedgers == [x \in Account |-> AccountLedger(x)]

AccountMoney == MoneyInv(AccountLedgers)

\* The value that stands for the ledger of the next state.
LEMMA AccountMoneyNext ==
  ASSUME NEW led, led = AccountLedgers', MoneyInv(led)'
  PROVE  AccountMoney'
<1>1. \A src, d, states : Told(led, src, d, states)' <=> Told(AccountLedgers, src, d, states)'
  BY DEF Told
<1>2. StatesInv(AccountLedgers)'  BY <1>1 DEF MoneyInv, StatesInv
<1>3. BalanceInv(AccountLedgers)'  BY DEF MoneyInv, BalanceInv
<1> QED  BY <1>2, <1>3 DEF MoneyInv, AccountMoney

\* The committed block changes balances and ledger alike.
LEMMA AccountCommit ==
  ASSUME BrokerInv, WayInv', HalvesLocal, AccountMoney, NEW s \in Shard, BrokerBlockCommitAndDeliver(s)
  PROVE  AccountMoney'
<1> DEFINE txs == proposal[s].txs
<1> USE DEF BrokerInv
<1>1. /\ proposal[s].type = "tx"
      /\ proposal' = [proposal EXCEPT ![s] = NoBlock]
      /\ balance' = [balance EXCEPT ![s] =
             [a \in Account |-> balance[s][a] - Taken(s, txs, a) + Given(s, txs, a)]]
      /\ UNCHANGED <<location, chainEpoch, ammVars, supLocation, supEpoch>>
  BY DEF BrokerBlockCommitAndDeliver, supVars
<1>2. \A m \in net' : m.type = "states" => m \in net  BY CommitCalm DEF Calm
<1>3. /\ txs \in SUBSET BrokerCopy /\ txs \cap InChains = {} /\ InChains' = InChains \cup txs
      /\ InChains \in SUBSET BrokerCopy
  BY NewInChains, ChainsShape
<1> PICK led : led = AccountLedgers  OBVIOUS
<1> PICK after : after = AccountLedgers'  OBVIOUS
<1>4. /\ \A x \in Account : led[x] = AccountLedger(x) /\ led[x] \in Nat
      /\ \A x \in Account : after[x] = AccountLedger(x)'
      /\ MoneyInv(led)
  BY AccountLedgerNat DEF AccountLedgers, AccountMoney
<1>5. ASSUME NEW x \in Account
      PROVE  /\ Taken(s, txs, x) \in Nat /\ Given(s, txs, x) \in Nat
             /\ location[s][x] # s => Taken(s, txs, x) = 0 /\ Given(s, txs, x) = 0
             /\ after[x] = led[x] - Taken(s, txs, x) + Given(s, txs, x)
  <2> DEFINE t == Sum(AccountTakes(InChains, x))
             u == Sum(AccountTakes(txs, x))
             g == Sum(AccountGives(InChains, x))
             h == Sum(AccountGives(txs, x))
  <2>1. /\ Taken(s, txs, x) = u /\ Given(s, txs, x) = h
        /\ location[s][x] # s => AccountTakes(txs, x) = {} /\ AccountGives(txs, x) = {}
    BY <1>1, TakenIs
  <2>2. AccountLedger(x) = InitBalance - t + g  BY AccountLedgerIs
  <2>3. AccountLedger(x)' = InitBalance - Sum(AccountTakes(InChains', x)) + Sum(AccountGives(InChains', x))
    BY AccountLedgerNext
  <2>4. Sum(AccountTakes(InChains', x)) = t + u /\ Sum(AccountGives(InChains', x)) = g + h
    BY <1>3, AddedUp
  <2>5. t \in Nat /\ u \in Nat /\ g \in Nat /\ h \in Nat  BY <1>3, PartsNat
  <2>6. location[s][x] # s => u = 0 /\ h = 0  BY <2>1, AmountEmpty
  <2>7. InitBalance \in Nat  BY FundsSuffice
  <2>8. AccountLedger(x)' = InitBalance - (t + u) + (g + h)  BY <2>3, <2>4
  <2> HIDE DEF t, u, g, h
  <2>9. AccountLedger(x)' = AccountLedger(x) - u + h  BY <2>2, <2>5, <2>7, <2>8
  <2> QED  BY <1>4, <2>1, <2>5, <2>6, <2>9
<1>6. /\ DOMAIN balance' = Shard
      /\ \A o \in Shard \ {s} : balance'[o] = balance[o]
      /\ \A x \in Account : balance'[s][x] = balance[s][x] - Taken(s, txs, x) + Given(s, txs, x)
  BY <1>1, <1>4 DEF MoneyInv, BalanceInv
<1>7. \A x \in Account :
         /\ location[s][x] # s => after[x] = led[x]
         /\ balance[s][x] = led[x] => balance'[s][x] = after[x]
  BY <1>4, <1>5, <1>6
<1>8. Executes(s, led, after)  BY <1>1, <1>2, <1>6, <1>7 DEF Executes
<1>9. MoneyInv(after)'  BY <1>4, <1>8, MoneyCommit
<1> QED  BY <1>9, AccountMoneyNext

\* What broker b has in each shard.
Purse(b) == [s \in Shard |-> brokerBalance[s][b]]

\* In every shard a broker owns what the blocks of that shard add up to, and
\* over all shards what all blocks add up to.
PursesInv ==
    /\ brokerBalance \in [Shard -> [Broker -> Nat]]
    /\ \A s \in Shard, b \in Broker :
          brokerBalance[s][b] = BrokerInitBalance + Sum(BrokerGets(committed[s], b))
                                                  - Sum(BrokerPays(committed[s], b))
    /\ \A b \in Broker : SumOf(Purse(b), Shard) = BrokerLedger(b)

LEMMA BrokerLedgerIs ==
  ASSUME WayInv, NEW b
  PROVE  BrokerLedger(b) = BrokerInitBalance * Cardinality(Shard)
                             + Sum(BrokerGets(InChains, b)) - Sum(BrokerPays(InChains, b))
<1> DEFINE mine == {c \in UNION Range(committed) : c.broker = b}
<1>1. /\ {c \in mine : c.stage = "broker1"} = BrokerGets(InChains, b)
      /\ {c \in mine : c.stage = "broker2"} = BrokerPays(InChains, b)
  BY ChainsShape DEF BrokerGets, BrokerPays
<1> QED  BY <1>1 DEF BrokerLedger

LEMMA BrokerLedgerNext ==
  ASSUME WayInv', NEW b
  PROVE  BrokerLedger(b)' = BrokerInitBalance * Cardinality(Shard)
                              + Sum(BrokerGets(InChains', b)) - Sum(BrokerPays(InChains', b))
<1> DEFINE mine == {c \in UNION Range(committed') : c.broker = b}
<1>1. InChains' = UNION Range(committed')
  <2>1. DOMAIN committed' = Shard  BY DEF WayInv, WayShape
  <2>2. Range(committed') = {committed'[s] : s \in Shard}  BY <2>1 DEF Range
  <2> QED  BY <2>2 DEF InChains
<1>2. /\ {c \in mine : c.stage = "broker1"} = BrokerGets(InChains', b)
      /\ {c \in mine : c.stage = "broker2"} = BrokerPays(InChains', b)
  BY <1>1 DEF BrokerGets, BrokerPays
<1> QED  BY <1>2 DEF BrokerLedger

\* In the chain of a shard.
OnceEach ==
    \A s \in Shard : \A c, d \in committed[s] : c.tx = d.tx /\ c.stage = d.stage => c = d

LEMMA InvariantOnce == WayInv => OnceEach
BY SameTransfer DEF OnceEach

\* Every transfer is paid once, so no purse runs empty.
LEMMA PursesFilled ==
  ASSUME NEW C \in SUBSET BrokerCopy, \A c, d \in C : c.tx = d.tx /\ c.stage = d.stage => c = d,
         NEW b
  PROVE  Sum(BrokerPays(C, b)) <= BrokerInitBalance
<1> DEFINE T == BrokerPays(C, b)
<1>1. T \in SUBSET BrokerCopy /\ \A c, d \in T : c.tx = d.tx => c = d  BY DEF BrokerPays
<1> HIDE DEF T
<1>2. Sum(T) <= SumOf(Value, Tx)  BY <1>1, BrokerCopyPriced, AmountBound
<1>3. Sum(T) \in Nat  BY <1>1, BrokerCopyPriced, AmountNat
<1>4. Sum(T) <= BrokerInitBalance  BY <1>2, <1>3, BrokerFundsSuffice, FundsSuffice
<1> QED  BY <1>4 DEF T

LEMMA PursesCommit ==
  ASSUME BrokerInv, WayInv', HalvesLocal, PursesInv, NEW s \in Shard, BrokerBlockCommitAndDeliver(s)
  PROVE  PursesInv'
<1> DEFINE txs == proposal[s].txs
<1> USE DEF BrokerInv
<1>1. /\ proposal[s].type = "tx"
      /\ brokerBalance' = [brokerBalance EXCEPT ![s] =
             [b \in Broker |-> brokerBalance[s][b] + BrokerGain(s, txs, b)]]
  BY DEF BrokerBlockCommitAndDeliver
<1>2. /\ txs \in SUBSET BrokerCopy /\ txs \cap InChains = {} /\ InChains' = InChains \cup txs
      /\ committed' = [committed EXCEPT ![s] = committed[s] \cup txs]
      /\ InChains \in SUBSET BrokerCopy /\ committed[s] \in SUBSET BrokerCopy
  BY NewInChains, ChainsShape
<1>3. txs \cap committed[s] = {} /\ DOMAIN committed = Shard  BY <1>2 DEF InChains, WayInv, WayShape
<1>4. /\ committed'[s] = committed[s] \cup txs
      /\ \A o \in Shard \ {s} : committed'[o] = committed[o] /\ brokerBalance'[o] = brokerBalance[o]
      /\ DOMAIN brokerBalance' = Shard
      /\ brokerBalance'[s] = [b \in Broker |-> brokerBalance[s][b] + BrokerGain(s, txs, b)]
  BY <1>1, <1>2, <1>3 DEF PursesInv
<1>5. ASSUME NEW C \in SUBSET BrokerCopy, txs \cap C = {}, NEW b
      PROVE  /\ Sum(BrokerGets(C \cup txs, b)) = Sum(BrokerGets(C, b)) + Sum(BrokerGets(txs, b))
             /\ Sum(BrokerPays(C \cup txs, b)) = Sum(BrokerPays(C, b)) + Sum(BrokerPays(txs, b))
  <2>1. txs \in SUBSET BrokerCopy /\ txs \cap C = {}  BY <1>2, <1>5
  <2> HIDE DEF txs
  <2> QED  BY <2>1, AddedUp
<1>6. BrokerInitBalance \in Nat  BY BrokerFundsSuffice
<1>7. ASSUME NEW b \in Broker
      PROVE  /\ brokerBalance'[s][b] \in Nat
             /\ brokerBalance'[s][b] = brokerBalance[s][b] + Sum(BrokerGets(txs, b)) - Sum(BrokerPays(txs, b))
             /\ brokerBalance'[s][b] = BrokerInitBalance + Sum(BrokerGets(committed'[s], b))
                                                         - Sum(BrokerPays(committed'[s], b))
  <2> DEFINE g == Sum(BrokerGets(committed[s], b))
             p == Sum(BrokerPays(committed[s], b))
             h == Sum(BrokerGets(txs, b))
             q == Sum(BrokerPays(txs, b))
  <2>1. brokerBalance'[s][b] = brokerBalance[s][b] + (h - q)  BY <1>1, <1>4, TakenIs
  <2>2. brokerBalance[s][b] = BrokerInitBalance + g - p /\ brokerBalance[s][b] \in Nat  BY DEF PursesInv
  <2>3. Sum(BrokerGets(committed'[s], b)) = g + h /\ Sum(BrokerPays(committed'[s], b)) = p + q
    <3>1. /\ Sum(BrokerGets(committed[s] \cup txs, b)) = g + h
          /\ Sum(BrokerPays(committed[s] \cup txs, b)) = p + q
      BY <1>2, <1>3, <1>5
    <3> QED  BY <1>4, <3>1
  <2>4. g \in Nat /\ p \in Nat /\ h \in Nat /\ q \in Nat  BY <1>2, PartsNat
  <2>5. Sum(BrokerPays(committed'[s], b)) <= BrokerInitBalance  
    <3>1. committed'[s] \in SUBSET BrokerCopy  BY <1>2, <1>4
    <3>2. OnceEach'  BY InvariantOnce, PTL
    <3>3. \A c, d \in committed'[s] : c.tx = d.tx /\ c.stage = d.stage => c = d  BY <3>2 DEF OnceEach
    <3> QED  BY <3>1, <3>3, PursesFilled
  <2> HIDE DEF g, p, h, q
  <2>6. p + q <= BrokerInitBalance  BY <2>3, <2>5
  <2> QED  BY <1>6, <2>1, <2>2, <2>3, <2>4, <2>6 DEF h, q
<1>8. brokerBalance' \in [Shard -> [Broker -> Nat]]
  <2>1. brokerBalance'[s] \in [Broker -> Nat]
    <3>1. \A b \in Broker : brokerBalance'[s][b] \in Nat  BY <1>7
    <3> QED  BY <1>4, <3>1
  <2>2. \A o \in Shard : brokerBalance'[o] \in [Broker -> Nat]  BY <1>4, <2>1 DEF PursesInv
  <2>3. brokerBalance' = [o \in Shard |-> brokerBalance'[o]]  BY <1>1 DEF PursesInv
  <2> QED  BY <2>2, <2>3
<1>9. \A o \in Shard, b \in Broker :
        brokerBalance'[o][b] = BrokerInitBalance + Sum(BrokerGets(committed'[o], b))
                                                 - Sum(BrokerPays(committed'[o], b))
  <2> SUFFICES ASSUME NEW o \in Shard, NEW b \in Broker
               PROVE  brokerBalance'[o][b] = BrokerInitBalance + Sum(BrokerGets(committed'[o], b))
                                                               - Sum(BrokerPays(committed'[o], b))
    OBVIOUS
  <2>1. CASE o = s  BY <1>7, <2>1
  <2>2. CASE o # s  BY <1>4, <2>2 DEF PursesInv
  <2> QED  BY <2>1, <2>2
<1>10. ASSUME NEW b \in Broker PROVE SumOf(Purse(b)', Shard) = BrokerLedger(b)'
  <2> DEFINE v == Purse(b)
             w == [o \in Shard |-> brokerBalance'[o][b]]
             g == Sum(BrokerGets(InChains, b))
             p == Sum(BrokerPays(InChains, b))
             h == Sum(BrokerGets(txs, b))
             q == Sum(BrokerPays(txs, b))
             k == BrokerInitBalance * Cardinality(Shard)
  <2>1. v \in [Shard -> Nat] /\ w \in [Shard -> Nat]  BY <1>8 DEF PursesInv, Purse
  <2>2. \A o \in Shard \ {s} : v[o] = w[o]  BY <1>4 DEF Purse
  <2>3. v[s] \in Nat /\ w[s] = v[s] + h - q  BY <1>7, <2>1 DEF Purse
  <2>4. SumOf(v, Shard) = k + g - p  BY BrokerLedgerIs DEF PursesInv
  <2>5. Sum(BrokerGets(InChains', b)) = g + h /\ Sum(BrokerPays(InChains', b)) = p + q
    <3>1. /\ Sum(BrokerGets(InChains \cup txs, b)) = g + h
          /\ Sum(BrokerPays(InChains \cup txs, b)) = p + q
      BY <1>2, <1>5
    <3> QED  BY <1>2, <3>1
  <2>6. BrokerLedger(b)' = k + (g + h) - (p + q)  BY <2>5, BrokerLedgerNext
  <2>7. g \in Nat /\ p \in Nat /\ h \in Nat /\ q \in Nat  BY <1>2, PartsNat
  <2>8. k \in Nat
    <3>1. Cardinality(Shard) \in Nat  BY TxAssumption, FS_CardinalityType
    <3> QED  BY <1>6, <3>1
  <2>9. Purse(b)' = w  BY DEF Purse
  <2> HIDE DEF v, w, g, p, h, q, k
  <2>10. SumOf(w, Shard) = SumOf(v, Shard) - v[s] + w[s]
    BY <2>1, <2>2, TxAssumption, SumChanged
  <2>11. SumOf(w, Shard) = k + (g + h) - (p + q)  BY <2>3, <2>4, <2>7, <2>8, <2>10
  <2> QED  BY <2>6, <2>9, <2>11
<1>11. \A b \in Broker : SumOf(Purse(b), Shard)' = BrokerLedger(b)'
  <2>1. \A b \in Broker : SumOf(Purse(b), Shard)' = SumOf(Purse(b)', Shard)  OBVIOUS
  <2> QED  BY <1>10, <2>1
<1> QED  BY <1>8, <1>9, <1>11 DEF PursesInv

\* What the shards know of the money, with all it rests on.
BrokerFundsInv == BrokerInv /\ HalvesLocal /\ AccountMoney /\ PursesInv

LEMMA NothingSum ==
  ASSUME NEW C, C = {}
  PROVE  /\ \A x : Sum(AccountTakes(C, x)) = 0 /\ Sum(AccountGives(C, x)) = 0
         /\ \A b : Sum(BrokerGets(C, b)) = 0 /\ Sum(BrokerPays(C, b)) = 0
<1>1. \A x : AccountTakes(C, x) = {} /\ AccountGives(C, x) = {}  BY DEF AccountTakes, AccountGives
<1>2. \A b : BrokerGets(C, b) = {} /\ BrokerPays(C, b) = {}  BY DEF BrokerGets, BrokerPays
<1> QED  BY <1>1, <1>2, AmountEmpty

LEMMA BrokerFundsInit == BrokerInit => BrokerFundsInv
<1> SUFFICES ASSUME BrokerInit PROVE BrokerFundsInv  OBVIOUS
<1>1. BrokerInv  BY BrokerInitInv
<1>2. WayInv  BY <1>1 DEF BrokerInv
<1> USE DEF BrokerInit, Init
<1>3. HalvesLocal  BY DEF HalvesLocal, NoBlock
<1>4. InChains = {} /\ \A s \in Shard : committed[s] = {}  BY DEF InChains
<1>5. \A x : AccountLedger(x) = InitBalance
  <2>1. \A x : AccountLedger(x) = InitBalance - 0 + 0  BY <1>2, <1>4, AccountLedgerIs, NothingSum
  <2> QED  BY <2>1, FundsSuffice
<1>6. AccountMoney
  <2>1. StatesInv(AccountLedgers)  BY DEF StatesInv, NoBlock
  <2>2. \A x \in Account : OwnerOf(x) \in Shard  BY TxAssumption DEF OwnerOf
  <2>3. BalanceInv(AccountLedgers)  BY <1>5, <2>2 DEF BalanceInv, AccountLedgers
  <2> QED  BY <2>1, <2>3 DEF AccountMoney, MoneyInv
<1>7. BrokerInitBalance \in Nat  BY BrokerFundsSuffice
<1>8. \A s \in Shard, b \in Broker :
        brokerBalance[s][b] = BrokerInitBalance + Sum(BrokerGets(committed[s], b))
                                                - Sum(BrokerPays(committed[s], b))
  <2> SUFFICES ASSUME NEW s \in Shard, NEW b \in Broker
               PROVE  brokerBalance[s][b] = BrokerInitBalance + Sum(BrokerGets(committed[s], b))
                                                              - Sum(BrokerPays(committed[s], b))
    OBVIOUS
  <2>1. Sum(BrokerGets(committed[s], b)) = 0 /\ Sum(BrokerPays(committed[s], b)) = 0
    BY <1>4, NothingSum
  <2>2. brokerBalance[s][b] = BrokerInitBalance  OBVIOUS
  <2> QED  BY <1>7, <2>1, <2>2
<1>9. ASSUME NEW b \in Broker PROVE SumOf(Purse(b), Shard) = BrokerLedger(b)
  <2>1. Purse(b) = [s \in Shard |-> BrokerInitBalance]  BY DEF Purse
  <2>2. SumOf(Purse(b), Shard) = BrokerInitBalance * Cardinality(Shard)
    BY <1>7, <2>1, TxAssumption, SumConstant
  <2>3. Sum(BrokerGets(InChains, b)) = 0 /\ Sum(BrokerPays(InChains, b)) = 0  BY <1>4, NothingSum
  <2> DEFINE k == BrokerInitBalance * Cardinality(Shard)
  <2>4. k \in Nat
    <3>1. Cardinality(Shard) \in Nat  BY TxAssumption, FS_CardinalityType
    <3> QED  BY <1>7, <3>1
  <2>5. BrokerLedger(b) = k + 0 - 0  BY <1>2, <2>3, BrokerLedgerIs
  <2> HIDE DEF k
  <2>6. BrokerLedger(b) = k  BY <2>4, <2>5
  <2> QED  BY <2>2, <2>6 DEF k
<1>10. brokerBalance \in [Shard -> [Broker -> Nat]]  BY <1>7
<1> QED  BY <1>1, <1>3, <1>6, <1>8, <1>9, <1>10 DEF BrokerFundsInv, PursesInv

LEMMA BrokerFundsNext == BrokerFundsInv /\ [BrokerNext]_brokerVars => BrokerFundsInv'
<1> SUFFICES ASSUME BrokerFundsInv, [BrokerNext]_brokerVars PROVE BrokerFundsInv'  OBVIOUS
<1>1. BrokerInv /\ HalvesLocal /\ AccountMoney /\ PursesInv  BY DEF BrokerFundsInv
<1>2. BrokerInv' /\ HalvesLocal'  BY <1>1, BrokerNextInv, HalvesNext
<1>3. WayInv /\ WayInv' /\ IInv /\ MoveInv  BY <1>1, <1>2 DEF BrokerInv
<1>4. ASSUME NEW s \in Shard, BrokerBlockCommitAndDeliver(s) PROVE AccountMoney' /\ PursesInv'
  BY <1>1, <1>3, <1>4, AccountCommit, PursesCommit
<1>5. ASSUME ~\E s \in Shard : BrokerBlockCommitAndDeliver(s) PROVE AccountMoney' /\ PursesInv'
  <2>1. Migrates /\ UNCHANGED <<committed, brokerBalance>>  BY <1>3, <1>5, BrokerMigrates
  <2>2. InChains' = InChains  BY <2>1 DEF InChains
  <2>3. AccountMoney'
    <3> PICK led : led = AccountLedgers  OBVIOUS
    <3>1. led \in [Account -> Nat] /\ MoneyInv(led)
      BY <1>1, <1>3, AccountLedgerNat DEF AccountLedgers, AccountMoney
    <3>2. \A x : AccountLedger(x)' = AccountLedger(x)
      BY <1>3, <2>2, AccountLedgerIs, AccountLedgerNext
    <3>3. led = AccountLedgers'  BY <3>2 DEF AccountLedgers
    <3>4. MoneyInv(led)'  BY <1>3, <2>1, <3>1, MigrationKeeps DEF Migrates
    <3> QED  BY <3>3, <3>4, AccountMoneyNext
  <2>4. PursesInv'
    <3>1. \A b : BrokerLedger(b)' = BrokerLedger(b)
      BY <1>3, <2>2, BrokerLedgerIs, BrokerLedgerNext
    <3>2. \A b : Purse(b)' = Purse(b)  BY <2>1 DEF Purse
    <3>3. \A b \in Broker : SumOf(Purse(b)', Shard) = BrokerLedger(b)'
      BY <1>1, <3>1, <3>2 DEF PursesInv
    <3>4. \A b \in Broker : SumOf(Purse(b), Shard)' = SumOf(Purse(b)', Shard)  OBVIOUS
    <3> QED  BY <1>1, <2>1, <3>3, <3>4 DEF PursesInv
  <2> QED  BY <2>3, <2>4
<1> QED  BY <1>2, <1>4, <1>5 DEF BrokerFundsInv

\* The sum over all shards is the sum of the purses.
LEMMA PursesSum ==
  ASSUME NEW b
  PROVE  MapThenSumSet(LAMBDA s : brokerBalance[s][b], Shard) = SumOf(Purse(b), Shard)
<1> DEFINE pick(S) == CHOOSE x \in S : TRUE
           v == Purse(b)
           P(f) == f = [S \in SUBSET Shard |-> IF S = {} THEN 0 ELSE brokerBalance[pick(S)][b] + f[S \ {pick(S)}]]
           Q(f) == f = [S \in SUBSET Shard |-> IF S = {} THEN 0 ELSE v[pick(S)] + f[S \ {pick(S)}]]
<1>1. MapThenSumSet(LAMBDA s : brokerBalance[s][b], Shard) = (CHOOSE f : P(f))[Shard]
  BY DEF MapThenSumSet, MapThenFoldSet
<1>2. SumOf(v, Shard) = (CHOOSE f : Q(f))[Shard]
  BY DEF SumOf, MapThenSumSet, MapThenFoldSet
<1>3. ASSUME NEW f PROVE P(f) <=> Q(f)
  <2>1. \A S \in SUBSET Shard : S # {} => brokerBalance[pick(S)][b] = v[pick(S)]
    BY DEF Purse
  <2> HIDE DEF v
  <2>2. [S \in SUBSET Shard |-> IF S = {} THEN 0 ELSE brokerBalance[pick(S)][b] + f[S \ {pick(S)}]]
          = [S \in SUBSET Shard |-> IF S = {} THEN 0 ELSE v[pick(S)] + f[S \ {pick(S)}]]
    BY <2>1
  <2> QED  BY <2>2
<1> HIDE DEF P, Q
<1>4. (CHOOSE f : P(f)) = (CHOOSE f : Q(f))  BY <1>3
<1> QED  BY <1>1, <1>2, <1>4

\* No half is skipped because its account has moved, and a migration brings
\* along the balance as it was: for any shards, brokers, transfers and moves, an
\* account owns, at the shard that holds it, and a broker, over all shards, what
\* the blocks of all shards add up to.
THEOREM MoneyAlwaysFollowsBlocks == BrokerSpec => []MoneyFollowsBlocks
<1>1. BrokerSpec => []BrokerFundsInv  BY BrokerFundsInit, BrokerFundsNext, PTL DEF BrokerSpec
<1>2. BrokerFundsInv => MoneyFollowsBlocks
  <2> SUFFICES ASSUME BrokerFundsInv PROVE MoneyFollowsBlocks  OBVIOUS
  <2>1. ASSUME NEW a \in Account PROVE balance[Holder(a)][a] = AccountLedger(a)
    BY HolderIs DEF BrokerFundsInv, BrokerInv, AccountMoney, MoneyInv, BalanceInv, AccountLedgers
  <2>2. ASSUME NEW b \in Broker
        PROVE  MapThenSumSet(LAMBDA s : brokerBalance[s][b], Shard) = BrokerLedger(b)
    <3>1. SumOf(Purse(b), Shard) = BrokerLedger(b)  BY DEF BrokerFundsInv, PursesInv
    <3>2. MapThenSumSet(LAMBDA s : brokerBalance[s][b], Shard) = SumOf(Purse(b), Shard)  BY PursesSum
    <3> QED  BY <3>1, <3>2, Zenon
  <2> QED  BY <2>1, <2>2, Zenon DEF MoneyFollowsBlocks
<1> QED  BY <1>1, <1>2, PTL
=============================================================================

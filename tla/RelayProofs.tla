----------------------------- MODULE RelayProofs -----------------------------
(***************************************************************************)
(* Proofs about RelayShards for any set of shards, accounts and transfers, *)
(* any number of repartitions and any moves: epochs stay in step, the      *)
(* shards agree on the location of every account, no transfer is lost or   *)
(* doubled, and every balance is what the blocks of all shards add up to.  *)
(***************************************************************************)
EXTENDS RelayShards, TransferSums, TLAPS

\* The shape of the variables the proofs are about.  What an array holds is
\* left open where the argument does not depend on it.
Shape ==
    /\ supEpoch \in Nat
    /\ chainEpoch \in [Shard -> Nat]
    /\ epoch \in [Shard -> Nat]
    /\ shardEpoch \in [Shard -> Nat]
    /\ ready \in [Shard -> BOOLEAN]
    /\ DOMAIN location = Shard
    /\ DOMAIN proposal = Shard
    /\ DOMAIN curModified = Shard
    /\ DOMAIN collected = Shard
    /\ DOMAIN unhandled = Shard

\* A shard's chain is in the supervisor's epoch or one behind; its leader may
\* be ahead of its chain and is then ready to migrate.  While the supervisor
\* believes the epochs to be in sync, every chain has reached its own.
EpochInv ==
    /\ \A s \in Shard :
          /\ chainEpoch[s] <= epoch[s] /\ epoch[s] <= supEpoch
          /\ supEpoch <= chainEpoch[s] + 1
          /\ ready[s] <=> epoch[s] # chainEpoch[s]
          /\ shardEpoch[s] <= chainEpoch[s]
          /\ epochSynced => shardEpoch[s] = supEpoch
    /\ \A m \in net : m.type = "info" =>
          m.shard \in Shard /\ m.epoch \in Nat /\ m.epoch <= chainEpoch[m.shard]

\* A start of an epoch is on its way to a shard that has not begun it, and
\* there is only one for each shard.
StartInv ==
    /\ \A m \in net : m.type = "start" =>
          /\ m.to \in Shard
          /\ m.epoch = supEpoch /\ m.epoch = epoch[m.to] + 1
          /\ Relocated(location[m.to], m.modified) = supLocation
    /\ \A m, n \in net : m.type = "start" /\ n.type = "start" /\ m.to = n.to => m = n

\* A chain in the supervisor's epoch has its map; one behind gets there by the
\* moves its leader has been told of.
LocationInv ==
    /\ \A s \in Shard :
          /\ chainEpoch[s] = supEpoch => location[s] = supLocation
          /\ ready[s] => Relocated(location[s], curModified[s]) = supLocation
    /\ \A s, o \in Shard : chainEpoch[s] = chainEpoch[o] => location[s] = location[o]

\* A migration block is proposed with the reports of all shards.
ProposalInv ==
    \A s \in Shard : proposal[s].type = "migration" =>
        /\ ready[s]
        /\ Reporters(s) = Shard
        /\ proposal[s].modified = curModified[s]

\* Shard s has sent its reports of the current epoch: the one to itself is on
\* its way or collected, or the migration is over.
Reported(s) ==
    \/ chainEpoch[s] = supEpoch
    \/ s \in Reporters(s)
    \/ \E m \in net : m.type = "states" /\ m.body.src = s /\ m.to = s

\* A report belongs to the current epoch, wherever it is.
Current(src, e) == src \in Shard /\ e = supEpoch /\ epoch[src] = supEpoch /\ Reported(src)

\* Every shard reports once to every shard: a report in flight is for a shard
\* that is still behind and has not got it, a collected one lies with a leader
\* that is migrating, an early one with a leader that has not begun.  When one
\* chain has the migration block, all have reported.
ReportInv ==
    /\ \A m \in net : m.type = "states" =>
          /\ m.to \in Shard
          /\ Current(m.body.src, m.epoch)
          /\ chainEpoch[m.to] # supEpoch
          /\ m.body.src \notin Reporters(m.to)
          /\ \A u \in unhandled[m.to] : u.body.src # m.body.src
    /\ \A m, n \in net :
          m.type = "states" /\ n.type = "states" /\ m.to = n.to /\ m.body.src = n.body.src
             => m = n
    /\ \A s \in Shard :
          /\ \A r \in collected[s] : ready[s] /\ Current(r.src, supEpoch)
          /\ \A u \in unhandled[s] : epoch[s] # supEpoch /\ Current(u.body.src, u.epoch)
    /\ \A s, o \in Shard : chainEpoch[o] = supEpoch => Reported(s)

IInv ==
    /\ Shape
    /\ EpochInv
    /\ StartInv
    /\ LocationInv
    /\ ProposalInv
    /\ ReportInv

-----------------------------------------------------------------------------

\* The larger of two numbers is one of them and not below the other.
LEMMA MaxOfTwo ==
    ASSUME NEW i \in Nat, NEW j \in Nat
    PROVE  Max({i, j}) \in {i, j} /\ Max({i, j}) >= i
<1>1. \E x \in {i, j} : \A y \in {i, j} : x >= y
  <2>1. CASE i >= j
    BY <2>1
  <2>2. CASE ~(i >= j)
    BY <2>2
  <2> QED
    BY <2>1, <2>2
<1> QED
  BY <1>1 DEF Max

\* SendWrappedTxs2Shards sends nothing but transactions.
LEMMA OnlyTxsSent ==
    ASSUME NEW dest, NEW m \in SendTxs(dest)
    PROVE  m.type = "txs"
  BY DEF SendTxs

LEMMA InitIInv == Init => IInv
<1> SUFFICES ASSUME Init PROVE IInv
  OBVIOUS
<1> USE DEF Init
<1>1. Shape /\ EpochInv /\ StartInv /\ LocationInv
  BY DEF Shape, EpochInv, StartInv, LocationInv
<1>2. ProposalInv
  BY DEF ProposalInv, NoBlock
<1>3. ReportInv
  BY DEF ReportInv, Reported
<1> QED
  BY <1>1, <1>2, <1>3 DEF IInv

-----------------------------------------------------------------------------
(***************************************************************************)
(* Steps that only move transactions                                       *)
(***************************************************************************)

\* What such a step may do: it adds block infos and messages that have nothing
\* to do with a repartition, takes no report away, and proposes no migration
\* block.
TxsOnly ==
    /\ UNCHANGED <<location, chainEpoch, ammVars, supLocation, supEpoch>>
    /\ DOMAIN proposal' = Shard
    /\ \A s \in Shard : proposal'[s] = proposal[s] \/ proposal'[s].type # "migration"
    /\ \A m \in net' :
          \/ m \in net
          \/ m.type \notin {"start", "states", "info"}
          \/ m.type = "info" /\ m.shard \in Shard /\ m.epoch = chainEpoch[m.shard]
    /\ \A m \in net : m.type = "states" => m \in net'
    /\ shardEpoch' \in [Shard -> Nat]
    /\ \A s \in Shard : shardEpoch'[s] <= chainEpoch[s]
    /\ epochSynced' => \A s \in Shard : shardEpoch'[s] = supEpoch

LEMMA TxsOnlyKeeps == IInv /\ TxsOnly => IInv'
<1> SUFFICES ASSUME IInv, TxsOnly PROVE IInv'
  OBVIOUS
<1> USE DEF IInv, ammVars
<1>1. Shape'
  BY DEF Shape, TxsOnly
<1>2. EpochInv'
  BY DEF Shape, EpochInv, TxsOnly
<1>3. StartInv'
  BY DEF StartInv, TxsOnly
<1>4. LocationInv'
  BY DEF LocationInv, TxsOnly
<1>5. ProposalInv'
  BY DEF ProposalInv, TxsOnly, Reporters
<1>6. ReportInv'
  <2>1. \A s \in Shard : Reported(s) => Reported(s)'
    BY DEF Reported, TxsOnly, Reporters
  <2>2. \A src, e : Current(src, e) => Current(src, e)'
    BY <2>1 DEF Current, TxsOnly
  <2>3. \A m \in net' : m.type = "states" => m \in net
    BY DEF TxsOnly
  <2> QED
    BY <2>1, <2>2, <2>3 DEF ReportInv, TxsOnly, Reporters
<1> QED
  BY <1>1, <1>2, <1>3, <1>4, <1>5, <1>6

\* The epoch in a block info of a shard is not ahead of the shard's chain.
LEMMA InfoKeeps ==
    ASSUME IInv, NEW m \in net, m.type = "info", net' = net \ {m},
           shardEpoch' = [shardEpoch EXCEPT ![m.shard] = Max({@, m.epoch})],
           UNCHANGED <<proposal, location, chainEpoch, ammVars, supLocation, supEpoch,
                       epochSynced>>
    PROVE  IInv'
<1> USE DEF IInv, ammVars
<1>1. m.shard \in Shard /\ m.epoch \in Nat /\ m.epoch <= chainEpoch[m.shard]
  BY DEF EpochInv
<1>2. shardEpoch[m.shard] \in Nat
  BY <1>1 DEF Shape
<1>3. \/ shardEpoch'[m.shard] = shardEpoch[m.shard]
      \/ shardEpoch'[m.shard] = m.epoch /\ m.epoch >= shardEpoch[m.shard]
  <2>1. /\ Max({shardEpoch[m.shard], m.epoch}) \in {shardEpoch[m.shard], m.epoch}
        /\ Max({shardEpoch[m.shard], m.epoch}) >= shardEpoch[m.shard]
    BY <1>1, <1>2, MaxOfTwo
  <2> QED
    BY <1>1, <1>2, <2>1 DEF Shape
<1>4. shardEpoch' \in [Shard -> Nat]
  BY <1>1, <1>2, <1>3 DEF Shape
<1>5. \A s \in Shard : shardEpoch'[s] <= chainEpoch[s]
  BY <1>1, <1>2, <1>3 DEF Shape, EpochInv
<1>6. epochSynced' => \A s \in Shard : shardEpoch'[s] = supEpoch
  <2> SUFFICES ASSUME epochSynced, NEW s \in Shard PROVE shardEpoch'[s] = supEpoch
    OBVIOUS
  <2>1. /\ shardEpoch[s] = supEpoch
        /\ shardEpoch[m.shard] = supEpoch /\ m.epoch <= supEpoch /\ supEpoch \in Nat
    BY <1>1 DEF Shape, EpochInv
  <2>2. shardEpoch'[m.shard] = supEpoch
    BY <1>1, <1>3, <2>1
  <2> QED
    BY <2>1, <2>2 DEF Shape
<1>7. TxsOnly
  BY <1>4, <1>5, <1>6 DEF TxsOnly, Shape
<1> QED
  BY <1>7, TxsOnlyKeeps

\* The supervisor believes the epochs in sync only when CheckEpochSyncAndMark
\* has just found them so, or had before.
LEMMA SupervisorTxs ==
    ASSUME IInv,
           ReadTxsAndSend \/ (\E m \in net : HandleBlockInfo(m)) \/ Stop
    PROVE  IInv'
<1> USE DEF IInv, supVars, chainVars, ammVars
<1>1. CASE ReadTxsAndSend
  <2>1. \A m \in net' : m \in net \/ m.type = "txs"
    BY <1>1, OnlyTxsSent DEF ReadTxsAndSend
  <2>2. \A m \in net : m \in net'
    BY <1>1 DEF ReadTxsAndSend
  <2>3. \A s \in Shard : shardEpoch[s] = supEpoch
    BY <1>1 DEF ReadTxsAndSend, EpochsReached, EpochInv
  <2>4. UNCHANGED <<location, chainEpoch, ammVars, supLocation, supEpoch, proposal, shardEpoch>>
    BY <1>1 DEF ReadTxsAndSend
  <2>5. TxsOnly
    BY <2>1, <2>2, <2>3, <2>4 DEF TxsOnly, Shape, EpochInv
  <2> QED
    BY <2>5, TxsOnlyKeeps
<1>2. ASSUME NEW m \in net, HandleBlockInfo(m) PROVE IInv'
  <2>1. /\ m.type = "info" /\ net' = net \ {m}
        /\ shardEpoch' = [shardEpoch EXCEPT ![m.shard] = Max({@, m.epoch})]
        /\ UNCHANGED <<proposal, location, chainEpoch, ammVars, supLocation, supEpoch,
                       epochSynced>>
    BY <1>2 DEF HandleBlockInfo
  <2> QED
    BY <2>1, InfoKeeps
<1>3. CASE Stop
  <2>1. TxsOnly
    BY <1>3 DEF Stop, TxsOnly, Shape, EpochInv
  <2> QED
    BY <2>1, TxsOnlyKeeps
<1> QED
  BY <1>1, <1>2, <1>3

LEMMA LeaderTxs ==
    ASSUME IInv, NEW s \in Shard,
           \/ \E m \in net : HandleReceiveTxs(m)
           \/ BuildBlockProposal(s)
           \/ BlockCommitAndDeliver(s)
    PROVE  IInv'
<1> USE DEF IInv, supVars, chainVars, ammVars
<1>1. CASE \E m \in net : HandleReceiveTxs(m)
  <2>1. TxsOnly
    BY <1>1 DEF HandleReceiveTxs, TxsOnly, Shape, EpochInv
  <2> QED
    BY <2>1, TxsOnlyKeeps
<1>2. CASE BuildBlockProposal(s)
  <2>1. PICK b, out :
          /\ proposal' = [proposal EXCEPT ![s] = [type |-> "tx", txs |-> b]]
          /\ net' = net \cup SendTxs(out)
          /\ UNCHANGED <<location, chainEpoch, ammVars, supLocation, supEpoch,
                         shardEpoch, epochSynced>>
    BY <1>2 DEF BuildBlockProposal
  <2>2. \A m \in net' : m \in net \/ m.type = "txs"
    BY <2>1, OnlyTxsSent
  <2>3. \A o \in Shard : proposal'[o] = proposal[o] \/ proposal'[o].type # "migration"
    BY <2>1 DEF Shape
  <2>4. TxsOnly
    BY <2>1, <2>2, <2>3 DEF TxsOnly, Shape, EpochInv
  <2> QED
    BY <2>4, TxsOnlyKeeps
<1>3. CASE BlockCommitAndDeliver(s)
  <2>1. PICK infos, out :
          /\ \A i \in infos : i.type = "info" /\ i.shard = s /\ i.epoch = chainEpoch[s]
          /\ net' = net \cup infos \cup SendTxs(out)
          /\ proposal' = [proposal EXCEPT ![s] = NoBlock]
          /\ UNCHANGED <<location, chainEpoch, ammVars, supLocation, supEpoch,
                         shardEpoch, epochSynced>>
    <3> DEFINE info == [type |-> "info", shard |-> s, epoch |-> chainEpoch[s],
                        empty |-> proposal[s].txs = {}]
               infos == IF stopped THEN {} ELSE {info}
               relay2 == {[c EXCEPT !.stage = "relay2"] :
                             c \in {x \in proposal[s].txs : x.stage = "relay1"}}
               out == [c \in relay2 |-> location[s][Recipient[c.tx]]]
    <3>1. net' = net \cup infos \cup SendTxs(out)
      BY <1>3 DEF BlockCommitAndDeliver
    <3>2. \A i \in infos : i.type = "info" /\ i.shard = s /\ i.epoch = chainEpoch[s]
      OBVIOUS
    <3>3. /\ proposal' = [proposal EXCEPT ![s] = NoBlock]
          /\ UNCHANGED <<location, chainEpoch, ammVars, supLocation, supEpoch,
                         shardEpoch, epochSynced>>
      BY <1>3 DEF BlockCommitAndDeliver
    <3> HIDE DEF infos, out
    <3> QED
      BY <3>1, <3>2, <3>3
  <2>2. \A m \in net' : \/ m \in net
                        \/ m.type = "txs"
                        \/ m.type = "info" /\ m.shard \in Shard /\ m.epoch = chainEpoch[m.shard]
    BY <2>1, OnlyTxsSent
  <2>3. \A o \in Shard : proposal'[o] = proposal[o] \/ proposal'[o].type # "migration"
    BY <2>1 DEF Shape, NoBlock
  <2>4. TxsOnly
    BY <2>1, <2>2, <2>3 DEF TxsOnly, Shape, EpochInv
  <2> QED
    BY <2>4, TxsOnlyKeeps
<1> QED
  BY <1>1, <1>2, <1>3

-----------------------------------------------------------------------------
(***************************************************************************)
(* Steps of a repartition                                                  *)
(***************************************************************************)

\* A repartition is started when all chains are in the supervisor's epoch, so
\* nothing of the one before is left anywhere.
LEMMA RepartitionStep ==
    ASSUME IInv, Repartition
    PROVE  IInv'
<1> USE DEF IInv, chainVars, ammVars
<1> PICK modified \in CLPAPartition :
      /\ supLocation' = Relocated(supLocation, modified)
      /\ net' = net \cup [type : {"start"}, to : Shard, epoch : {supEpoch + 1},
                          modified : {modified}]
  BY DEF Repartition
<1>1. /\ epochSynced /\ supEpoch' = supEpoch + 1 /\ epochSynced' = FALSE
      /\ UNCHANGED <<proposal, chainVars, ammVars, shardEpoch>>
  BY DEF Repartition
<1>2. \A s \in Shard : /\ chainEpoch[s] = supEpoch /\ epoch[s] = supEpoch
                       /\ ~ready[s] /\ location[s] = supLocation
  BY <1>1 DEF Shape, EpochInv, LocationInv
<1>3. \A m \in net : m.type # "start" /\ m.type # "states"
  BY <1>2 DEF Shape, StartInv, ReportInv
<1>4. \A s \in Shard : collected[s] = {} /\ unhandled[s] = {}
  BY <1>2 DEF ReportInv
<1>5. \A m \in net' :
        \/ m \in net
        \/ m.to \in Shard /\ m = [type |-> "start", to |-> m.to, epoch |-> supEpoch + 1,
                                  modified |-> modified]
  OBVIOUS
<1>6. Shape'
  BY <1>1 DEF Shape
<1>7. EpochInv'
  BY <1>1, <1>2, <1>5 DEF Shape, EpochInv
<1>8. StartInv'
  <2>1. \A m \in net' : m.type = "start" =>
           m.to \in Shard /\ m = [type |-> "start", to |-> m.to, epoch |-> supEpoch + 1,
                                  modified |-> modified]
    BY <1>3, <1>5
  <2>2. \A m \in net' : m.type = "start" =>
           m.to \in Shard /\ m.epoch = supEpoch + 1 /\ m.modified = modified
    BY <2>1
  <2>3. \A m, n \in net' : m.type = "start" /\ n.type = "start" /\ m.to = n.to => m = n
    BY <2>1
  <2> QED
    BY <1>1, <1>2, <2>2, <2>3 DEF StartInv
<1>9. LocationInv'
  BY <1>1, <1>2 DEF Shape, LocationInv
<1>10. ProposalInv'
  BY <1>1 DEF ProposalInv, Reporters
<1>11. ReportInv'
  <2>1. \A m \in net' : m.type # "states"
    BY <1>3, <1>5
  <2>2. \A s \in Shard : chainEpoch'[s] # supEpoch'
    BY <1>1, <1>2 DEF Shape
  <2> QED
    BY <1>1, <1>4, <2>1, <2>2 DEF ReportInv
<1> QED
  BY <1>6, <1>7, <1>8, <1>9, <1>10, <1>11

\* A leader begins the epoch: what has come early is now collected.
LEMMA StartStep ==
    ASSUME IInv, NEW m \in net, HandleRepartitionStart(m)
    PROVE  IInv'
<1> USE DEF IInv, supVars, chainVars
<1> DEFINE s == m.to
           early == Early(s, m.epoch)
<1>1. /\ m.type = "start" /\ net' = net \ {m}
      /\ UNCHANGED <<proposal, chainVars, supVars>>
  BY DEF HandleRepartitionStart
<1>2. /\ s \in Shard /\ m.epoch = supEpoch /\ m.epoch = epoch[s] + 1
      /\ Relocated(location[s], m.modified) = supLocation
  BY <1>1 DEF StartInv
<1>3. /\ epoch'       = [epoch EXCEPT ![s] = supEpoch]
      /\ curModified' = [curModified EXCEPT ![s] = m.modified]
      /\ ready'       = [ready EXCEPT ![s] = TRUE]
      /\ collected'   = [collected EXCEPT ![s] = @ \cup {u.body : u \in early}]
      /\ unhandled'   = [unhandled EXCEPT ![s] = @ \ early]
  BY <1>2 DEF HandleRepartitionStart
<1>4. /\ chainEpoch[s] + 1 = supEpoch /\ epoch[s] = chainEpoch[s] /\ ~ready[s]
      /\ chainEpoch[s] \in Nat /\ epoch[s] \in Nat /\ supEpoch \in Nat
  BY <1>2 DEF Shape, EpochInv
<1>5. /\ collected[s] = {}
      /\ early = unhandled[s]
  BY <1>2, <1>4 DEF ReportInv, Early, Current
<1>6. /\ collected'[s] = {u.body : u \in unhandled[s]}
      /\ unhandled'[s] = {}
      /\ \A o \in Shard \ {s} : collected'[o] = collected[o] /\ unhandled'[o] = unhandled[o]
  BY <1>2, <1>3, <1>5 DEF Shape
<1> HIDE DEF early
<1>7. Shape'
  BY <1>1, <1>2, <1>3, <1>4 DEF Shape
<1>8. EpochInv'
  <2>1. \A o \in Shard \ {s} : epoch'[o] = epoch[o] /\ ready'[o] = ready[o]
    BY <1>3 DEF Shape
  <2>2. epoch'[s] = supEpoch /\ ready'[s]
    BY <1>2, <1>3 DEF Shape
  <2>3. UNCHANGED <<chainEpoch, shardEpoch, epochSynced, supEpoch>>
    BY <1>1
  <2>4. \A n \in net' : n \in net
    BY <1>1
  <2>5. /\ supEpoch <= supEpoch /\ supEpoch # chainEpoch[s]
        /\ chainEpoch[s] <= supEpoch /\ supEpoch <= chainEpoch[s] + 1
    BY <1>4
  <2>6. \A o \in Shard :
          /\ chainEpoch[o] <= epoch'[o] /\ epoch'[o] <= supEpoch
          /\ supEpoch <= chainEpoch[o] + 1
          /\ ready'[o] <=> epoch'[o] # chainEpoch[o]
    BY <2>1, <2>2, <2>5 DEF EpochInv
  <2> QED
    BY <2>3, <2>4, <2>6 DEF EpochInv
<1>9. StartInv'
  BY <1>1, <1>2, <1>3 DEF Shape, StartInv
<1>10. LocationInv'
  BY <1>1, <1>2, <1>3 DEF Shape, LocationInv
<1>11. ProposalInv'
  BY <1>1, <1>2, <1>3, <1>4, <1>6 DEF Shape, ProposalInv, Reporters
<1>12. ReportInv'
  <2>1. \A o \in Shard : Reported(o) => Reported(o)'
    <3>1. \A o \in Shard : o \in Reporters(o) => o \in Reporters(o)'
      BY <1>2, <1>5, <1>6 DEF Reporters
    <3> QED
      BY <1>1, <3>1 DEF Reported
  <2>2. \A src, e : Current(src, e) => Current(src, e)'
    BY <1>1, <1>2, <1>3, <2>1 DEF Current, Shape
  <2>3. \A n \in net' : n.type = "states" =>
            /\ n.to \in Shard
            /\ Current(n.body.src, n.epoch)'
            /\ chainEpoch'[n.to] # supEpoch'
            /\ n.body.src \notin Reporters(n.to)'
            /\ \A u \in unhandled'[n.to] : u.body.src # n.body.src
    <3> SUFFICES ASSUME NEW n \in net', n.type = "states"
                 PROVE  /\ n.to \in Shard
                        /\ Current(n.body.src, n.epoch)'
                        /\ chainEpoch'[n.to] # supEpoch'
                        /\ n.body.src \notin Reporters(n.to)'
                        /\ \A u \in unhandled'[n.to] : u.body.src # n.body.src
      OBVIOUS
    <3>1. /\ n.to \in Shard
          /\ Current(n.body.src, n.epoch)
          /\ chainEpoch[n.to] # supEpoch
          /\ n.body.src \notin Reporters(n.to)
          /\ \A u \in unhandled[n.to] : u.body.src # n.body.src
      BY <1>1 DEF ReportInv
    <3>2. n.body.src \notin Reporters(n.to)'
      BY <1>6, <3>1 DEF Reporters
    <3>3. \A u \in unhandled'[n.to] : u.body.src # n.body.src
      BY <1>6, <3>1
    <3> QED
      BY <1>1, <2>2, <3>1, <3>2, <3>3
  <2>4. \A n, o \in net' :
          n.type = "states" /\ o.type = "states" /\ n.to = o.to /\ n.body.src = o.body.src
             => n = o
    BY <1>1 DEF ReportInv
  <2>5. ASSUME NEW o \in Shard
        PROVE  /\ \A r \in collected'[o] : ready'[o] /\ Current(r.src, supEpoch)'
               /\ \A u \in unhandled'[o] : epoch'[o] # supEpoch' /\ Current(u.body.src, u.epoch)'
    <3>1. CASE o = s
      <4>1. \A u \in unhandled[s] : Current(u.body.src, supEpoch)
        BY <1>2 DEF ReportInv, Current
      <4> QED
        BY <1>1, <1>2, <1>3, <1>6, <2>2, <3>1, <4>1 DEF Shape
    <3>2. CASE o # s
      <4>1. ready'[o] = ready[o] /\ epoch'[o] = epoch[o]
        BY <1>3, <3>2 DEF Shape
      <4> QED
        BY <1>1, <1>6, <2>2, <3>2, <4>1 DEF ReportInv
    <3> QED
      BY <3>1, <3>2
  <2>6. \A o, p \in Shard : chainEpoch'[p] = supEpoch' => Reported(o)'
    BY <1>1, <2>1 DEF ReportInv
  <2> QED
    BY <1>1, <2>3, <2>4, <2>5, <2>6 DEF ReportInv
<1> QED
  BY <1>7, <1>8, <1>9, <1>10, <1>11, <1>12

\* A report arrives at a leader that is migrating, or early.
LEMMA ReportStep ==
    ASSUME IInv, NEW m \in net, HandleAccountMigration(m)
    PROVE  IInv'
<1> USE DEF IInv, supVars, chainVars, ammVars
<1> DEFINE s == m.to
           src == m.body.src
<1>1. /\ m.type = "states" /\ net' = net \ {m}
      /\ UNCHANGED <<proposal, chainVars, supVars, epoch, curModified, ready>>
  BY DEF HandleAccountMigration
<1>2. /\ s \in Shard /\ src \in Shard /\ m.epoch = supEpoch /\ epoch[src] = supEpoch
      /\ chainEpoch[s] # supEpoch
      /\ src \notin Reporters(s)
      /\ \A u \in unhandled[s] : u.body.src # src
  BY <1>1 DEF ReportInv, Current
<1>3. /\ chainEpoch[s] \in Nat /\ epoch[s] \in Nat /\ supEpoch \in Nat
      /\ chainEpoch[s] <= epoch[s] /\ epoch[s] <= supEpoch /\ supEpoch <= chainEpoch[s] + 1
      /\ ready[s] <=> epoch[s] # chainEpoch[s]
  BY <1>2 DEF Shape, EpochInv
<1>4. \/ /\ epoch[s] = supEpoch /\ ready[s]
         /\ collected' = [collected EXCEPT ![s] = {r \in @ : r.src # src} \cup {m.body}]
         /\ UNCHANGED unhandled
      \/ /\ epoch[s] # supEpoch
         /\ unhandled' = [unhandled EXCEPT ![s] = @ \cup {m}]
         /\ UNCHANGED collected
  BY <1>2, <1>3 DEF HandleAccountMigration
<1>5. \A o \in Shard :
        /\ \A r \in collected'[o] :
              r \in collected[o] \/ (o = s /\ r = m.body /\ ready[s])
        /\ \A u \in unhandled'[o] :
              u \in unhandled[o] \/ (o = s /\ u = m /\ epoch[s] # supEpoch)
  BY <1>2, <1>4 DEF Shape
<1>6. \A o \in Shard : collected[o] \subseteq collected'[o]
  BY <1>2, <1>4 DEF Shape, Reporters
<1>7. Shape'
  BY <1>1, <1>4 DEF Shape
<1>8. EpochInv'
  BY <1>1 DEF EpochInv
<1>9. StartInv'
  BY <1>1 DEF StartInv
<1>10. LocationInv'
  BY <1>1 DEF LocationInv
<1>11. ProposalInv'
  <2>1. \A o \in Shard : Reporters(o)' = Reporters(o) \/ Reporters(o) # Shard
    <3>1. \A o \in Shard \ {s} : collected'[o] = collected[o]
      BY <1>2, <1>4 DEF Shape
    <3> QED
      BY <1>2, <3>1 DEF Reporters
  <2> QED
    BY <1>1, <2>1 DEF ProposalInv
<1>12. ReportInv'
  <2>1. \A o \in Shard : Reported(o) => Reported(o)'
    <3>1. \A o \in Shard : o \in Reporters(o) => o \in Reporters(o)'
      BY <1>6 DEF Reporters
    <3>2. src = s => src \in Reporters(src)'
      BY <1>2, <1>4 DEF Reporters, Shape
    <3> QED
      BY <1>1, <3>1, <3>2 DEF Reported
  <2>2. \A x, e : Current(x, e) => Current(x, e)'
    BY <1>1, <2>1 DEF Current
  <2>3. Current(src, supEpoch) /\ m.epoch = supEpoch
    BY <1>1, <1>2 DEF ReportInv
  <2>4. \A n \in net' : n.type = "states" =>
            /\ n.to \in Shard
            /\ Current(n.body.src, n.epoch)'
            /\ chainEpoch'[n.to] # supEpoch'
            /\ n.body.src \notin Reporters(n.to)'
            /\ \A u \in unhandled'[n.to] : u.body.src # n.body.src
    <3> SUFFICES ASSUME NEW n \in net', n.type = "states"
                 PROVE  /\ n.to \in Shard
                        /\ Current(n.body.src, n.epoch)'
                        /\ chainEpoch'[n.to] # supEpoch'
                        /\ n.body.src \notin Reporters(n.to)'
                        /\ \A u \in unhandled'[n.to] : u.body.src # n.body.src
      OBVIOUS
    <3>1. /\ n.to \in Shard
          /\ Current(n.body.src, n.epoch)
          /\ chainEpoch[n.to] # supEpoch
          /\ n.body.src \notin Reporters(n.to)
          /\ \A u \in unhandled[n.to] : u.body.src # n.body.src
          /\ ~(n.to = s /\ n.body.src = src)
      BY <1>1 DEF ReportInv
    <3>2. n.body.src \notin Reporters(n.to)'
      BY <1>5, <3>1 DEF Reporters
    <3>3. \A u \in unhandled'[n.to] : u.body.src # n.body.src
      BY <1>5, <3>1
    <3> QED
      BY <1>1, <2>2, <3>1, <3>2, <3>3
  <2>5. \A n, o \in net' :
          n.type = "states" /\ o.type = "states" /\ n.to = o.to /\ n.body.src = o.body.src
             => n = o
    BY <1>1 DEF ReportInv
  <2>6. \A o \in Shard :
          /\ \A r \in collected'[o] : ready'[o] /\ Current(r.src, supEpoch)'
          /\ \A u \in unhandled'[o] : epoch'[o] # supEpoch' /\ Current(u.body.src, u.epoch)'
    BY <1>1, <1>5, <2>2, <2>3 DEF ReportInv
  <2>7. \A o, p \in Shard : chainEpoch'[p] = supEpoch' => Reported(o)'
    BY <1>1, <2>1 DEF ReportInv
  <2> QED
    BY <1>1, <2>4, <2>5, <2>6, <2>7 DEF ReportInv
<1> QED
  BY <1>7, <1>8, <1>9, <1>10, <1>11, <1>12

\* What migrateAccounts sends to every shard, and what goes along with it.
ReportTo(s, d) == [type |-> "states", to |-> d, epoch |-> epoch[s],
                   body |-> [src |-> s, states |-> MigratedStates(s, d)]]

SendsReports(s) ==
    /\ ready[s] /\ s \notin Reporters(s)
    /\ \A m \in net : m.type = "states" => ~(m.body.src = s /\ m.to = s)
    /\ \A d \in Shard : ReportTo(s, d) \in net'
    /\ \A m \in net : m \in net'
    /\ \A m \in net' : \/ m \in net
                       \/ m.type \notin {"start", "states", "info"}
                       \/ \E d \in Shard : m = ReportTo(s, d)
    /\ UNCHANGED <<proposal, location, chainEpoch, ammVars, supLocation, supEpoch,
                   shardEpoch, epochSynced>>

\* A leader reports to all shards, itself included, for the first time.
LEMMA SendsReportsKeeps ==
    ASSUME IInv, NEW s \in Shard, SendsReports(s)
    PROVE  IInv'
<1> USE DEF IInv, ammVars
<1> DEFINE New(d) == ReportTo(s, d)
<1>1. /\ ready[s] /\ s \notin Reporters(s)
      /\ \A m \in net : m.type = "states" => ~(m.body.src = s /\ m.to = s)
      /\ UNCHANGED <<proposal, location, chainEpoch, ammVars, supLocation, supEpoch,
                     shardEpoch, epochSynced>>
  BY DEF SendsReports
<1>2. /\ \A d \in Shard : New(d) \in net'
      /\ \A m \in net : m \in net'
  BY DEF SendsReports
<1>3. epoch[s] = supEpoch /\ chainEpoch[s] # supEpoch
  BY <1>1 DEF Shape, EpochInv
<1>4. ~Reported(s)
  BY <1>1, <1>3 DEF Reported
<1>5. \A d \in Shard : /\ New(d).type = "states" /\ New(d).to = d
                       /\ New(d).epoch = supEpoch /\ New(d).body.src = s
  BY <1>3 DEF ReportTo
<1>6. \A m \in net' : \/ m \in net
                      \/ m.type \notin {"start", "states", "info"}
                      \/ \E d \in Shard : m = New(d)
  BY DEF SendsReports
<1> HIDE DEF New
<1>7. \A m \in net' : m.type \in {"start", "info"} => m \in net
  BY <1>5, <1>6
<1>8. Shape' /\ LocationInv' /\ ProposalInv'
  BY <1>1 DEF Shape, LocationInv, ProposalInv, Reporters
<1>9. EpochInv' /\ StartInv'
  BY <1>1, <1>7 DEF EpochInv, StartInv
<1>10. ReportInv'
  <2>1. Reported(s)'
    <3>1. New(s) \in net'
      BY <1>2
    <3> QED
      BY <1>5, <3>1 DEF Reported
  <2>2. \A o \in Shard : Reported(o) => Reported(o)'
    BY <1>1, <1>2 DEF Reported, Reporters
  <2>3. \A src, e : Current(src, e) => Current(src, e)'
    BY <1>1, <2>2 DEF Current
  <2>4. Current(s, supEpoch)'
    BY <1>1, <1>3, <2>1 DEF Current
  <2>5. \A d \in Shard : /\ chainEpoch[d] # supEpoch
                         /\ s \notin Reporters(d)
                         /\ \A u \in unhandled[d] : u.body.src # s
    BY <1>4 DEF ReportInv, Current, Reporters
  <2>6. \A m \in net : m.type = "states" => m.body.src # s
    BY <1>4 DEF ReportInv, Current
  <2>7. \A m \in net' : m.type = "states" =>
          /\ m.to \in Shard
          /\ Current(m.body.src, m.epoch)'
          /\ chainEpoch[m.to] # supEpoch
          /\ m.body.src \notin Reporters(m.to)
          /\ \A u \in unhandled[m.to] : u.body.src # m.body.src
    <3> SUFFICES ASSUME NEW m \in net', m.type = "states"
                 PROVE  /\ m.to \in Shard
                        /\ Current(m.body.src, m.epoch)'
                        /\ chainEpoch[m.to] # supEpoch
                        /\ m.body.src \notin Reporters(m.to)
                        /\ \A u \in unhandled[m.to] : u.body.src # m.body.src
      OBVIOUS
    <3>1. CASE m \in net
      BY <2>3, <3>1 DEF ReportInv
    <3>2. ASSUME NEW d \in Shard, m = New(d)
          PROVE  m.to = d /\ m.epoch = supEpoch /\ m.body.src = s
      BY <1>5, <3>2
    <3>3. CASE \E d \in Shard : m = New(d)
      <4>1. m.to \in Shard /\ m.epoch = supEpoch /\ m.body.src = s
        BY <3>2, <3>3
      <4>2. Current(m.body.src, m.epoch)'
        BY <1>1, <2>4, <4>1
      <4> QED
        BY <2>5, <4>1, <4>2
    <3> QED
      BY <1>6, <3>1, <3>3
  <2>8. \A m, n \in net' :
          m.type = "states" /\ n.type = "states" /\ m.to = n.to /\ m.body.src = n.body.src
             => m = n
    BY <1>5, <1>6, <2>6 DEF ReportInv
  <2> QED
    BY <1>1, <2>2, <2>3, <2>7, <2>8 DEF ReportInv, Reporters
<1> QED
  BY <1>8, <1>9, <1>10

LEMMA MigrateSends ==
    ASSUME NEW s \in Shard, MigrateAccounts(s)
    PROVE  SendsReports(s)
<1>1. PICK out : net' = net \cup {ReportTo(s, d) : d \in Shard} \cup SendTxs(out)
  BY DEF MigrateAccounts, ReportTo
<1>2. \A m \in net' : \/ m \in net
                      \/ m.type = "txs"
                      \/ \E d \in Shard : m = ReportTo(s, d)
  BY <1>1, OnlyTxsSent
<1>3. /\ \A d \in Shard : ReportTo(s, d) \in net'
      /\ \A m \in net : m \in net'
  BY <1>1
<1> QED
  BY <1>2, <1>3 DEF MigrateAccounts, SendsReports, supVars, chainVars, ammVars

\* With the reports of all shards the migration block is proposed.
LEMMA ProposeStep ==
    ASSUME IInv, NEW s \in Shard, BuildMigrationProposal(s)
    PROVE  IInv'
<1> USE DEF IInv, supVars, chainVars, ammVars
<1>1. /\ ready[s] /\ Reporters(s) = Shard
      /\ proposal' = [proposal EXCEPT ![s] =
            [type |-> "migration", modified |-> curModified[s],
             states |-> [a \in Account |-> MigratedState(s, a)]]]
      /\ UNCHANGED <<chainVars, ammVars, supVars, net>>
  BY DEF BuildMigrationProposal, MigratedAddrs
<1>2. Shape'
  BY <1>1 DEF Shape
<1>3. EpochInv' /\ StartInv' /\ LocationInv'
  BY <1>1 DEF EpochInv, StartInv, LocationInv
<1>4. ProposalInv'
  BY <1>1 DEF Shape, ProposalInv, Reporters
<1>5. ReportInv'
  BY <1>1 DEF ReportInv, Current, Reported, Reporters
<1> QED
  BY <1>2, <1>3, <1>4, <1>5

\* The chain enters the epoch: nothing about the migration is on its way to
\* this shard any more.
LEMMA CommitStep ==
    ASSUME IInv, NEW s \in Shard, MigrationBlockCommit(s)
    PROVE  IInv'
<1> USE DEF IInv, supVars
<1>1. /\ ready[s] /\ Reporters(s) = Shard
      /\ proposal[s].modified = curModified[s]
  BY DEF MigrationBlockCommit, ProposalInv
<1>2. /\ location' = [location EXCEPT ![s] = Relocated(@, curModified[s])]
      /\ chainEpoch'  = [chainEpoch EXCEPT ![s] = epoch[s]]
      /\ collected'   = [collected EXCEPT ![s] = {}]
      /\ curModified' = [curModified EXCEPT ![s] = NoMove]
      /\ ready'       = [ready EXCEPT ![s] = FALSE]
      /\ unhandled'   = [unhandled EXCEPT ![s] = {u \in @ : u.epoch # epoch[s]}]
      /\ proposal'    = [proposal EXCEPT ![s] = NoBlock]
      /\ UNCHANGED <<epoch, supVars, net>>
  BY <1>1 DEF MigrationBlockCommit
<1>3. /\ epoch[s] = supEpoch /\ chainEpoch[s] # supEpoch
      /\ supEpoch \in Nat /\ chainEpoch[s] \in Nat /\ chainEpoch[s] <= supEpoch
      /\ Relocated(location[s], curModified[s]) = supLocation
  BY <1>1 DEF Shape, EpochInv, LocationInv
<1>4. \A m \in net : m.type = "start" => m.to # s
  BY <1>3 DEF StartInv, Shape, EpochInv
<1>5. \A m \in net : m.type = "states" => m.to # s
  BY <1>1 DEF ReportInv, Current
<1>6. unhandled[s] = {}
  BY <1>3 DEF ReportInv
<1>7. /\ location'[s] = supLocation /\ chainEpoch'[s] = supEpoch /\ ~ready'[s]
      /\ collected'[s] = {} /\ unhandled'[s] = {} /\ proposal'[s] = NoBlock
      /\ \A o \in Shard \ {s} :
            /\ location'[o] = location[o] /\ chainEpoch'[o] = chainEpoch[o]
            /\ ready'[o] = ready[o] /\ collected'[o] = collected[o]
            /\ unhandled'[o] = unhandled[o] /\ proposal'[o] = proposal[o]
            /\ curModified'[o] = curModified[o]
  BY <1>2, <1>3, <1>6 DEF Shape
<1>8. Shape'
  BY <1>2, <1>3 DEF Shape
<1>9. EpochInv'
  <2>1. \A o \in Shard : chainEpoch[o] <= chainEpoch'[o]
    BY <1>3, <1>7 DEF Shape
  <2>2. \A o \in Shard :
          /\ chainEpoch'[o] <= epoch[o] /\ epoch[o] <= supEpoch
          /\ supEpoch <= chainEpoch'[o] + 1
          /\ ready'[o] <=> epoch[o] # chainEpoch'[o]
    BY <1>3, <1>7 DEF Shape, EpochInv
  <2>3. \A o \in Shard : shardEpoch[o] <= chainEpoch'[o]
    BY <1>8, <2>1 DEF Shape, EpochInv
  <2>4. \A m \in net : m.type = "info" =>
          m.shard \in Shard /\ m.epoch \in Nat /\ m.epoch <= chainEpoch'[m.shard]
    BY <1>8, <2>1 DEF Shape, EpochInv
  <2> QED
    BY <1>2, <2>2, <2>3, <2>4 DEF EpochInv
<1>10. StartInv'
  BY <1>2, <1>4, <1>7 DEF StartInv
<1>11. LocationInv'
  <2>1. \A o \in Shard : /\ chainEpoch'[o] = supEpoch => location'[o] = supLocation
                         /\ ready'[o] => Relocated(location'[o], curModified'[o]) = supLocation
    BY <1>7 DEF LocationInv
  <2>2. \A o, p \in Shard : chainEpoch'[o] = chainEpoch'[p] => location'[o] = location'[p]
    BY <1>7, <2>1 DEF LocationInv
  <2> QED
    BY <1>2, <2>1, <2>2 DEF LocationInv
<1>12. ProposalInv'
  BY <1>7 DEF ProposalInv, Reporters, NoBlock
<1>13. ReportInv'
  <2>1. \A o \in Shard : Current(o, supEpoch)
    <3>1. \A o \in Shard : \E r \in collected[s] : r.src = o
      BY <1>1 DEF Reporters
    <3> QED
      BY <3>1 DEF ReportInv
  <2>2. \A o \in Shard : Reported(o) => Reported(o)'
    BY <1>2, <1>7 DEF Reported, Reporters
  <2>3. \A o \in Shard : Reported(o)'
    BY <2>1, <2>2 DEF Current
  <2>4. \A o, e : Current(o, e) => Current(o, e)'
    BY <1>2, <2>2 DEF Current
  <2>5. \A m \in net : m.type = "states" =>
          /\ m.to \in Shard
          /\ Current(m.body.src, m.epoch)'
          /\ chainEpoch'[m.to] # supEpoch
          /\ m.body.src \notin Reporters(m.to)'
          /\ \A u \in unhandled'[m.to] : u.body.src # m.body.src
    BY <1>5, <1>7, <2>4 DEF ReportInv, Reporters
  <2>6. \A o \in Shard :
          /\ \A r \in collected'[o] : ready'[o] /\ Current(r.src, supEpoch)'
          /\ \A u \in unhandled'[o] : epoch[o] # supEpoch /\ Current(u.body.src, u.epoch)'
    BY <1>2, <1>7, <2>4 DEF ReportInv
  <2> QED
    BY <1>2, <2>3, <2>5, <2>6 DEF ReportInv
<1> QED
  BY <1>8, <1>9, <1>10, <1>11, <1>12, <1>13

-----------------------------------------------------------------------------

\* Every step of supervisor and leaders keeps the invariant.
LEMMA NextIInv == IInv /\ [Next]_vars => IInv'
<1> SUFFICES ASSUME IInv, [Next]_vars PROVE IInv'
  OBVIOUS
<1>1. CASE Supervisor
  BY <1>1, SupervisorTxs, RepartitionStep DEF Supervisor
<1>2. CASE \E s \in Shard : Receive(s)
  BY <1>2, LeaderTxs, StartStep, ReportStep DEF Receive
<1>3. CASE \E s \in Shard : Leader(s)
  BY <1>3, LeaderTxs, MigrateSends, SendsReportsKeeps, ProposeStep, CommitStep DEF Leader
<1>4. CASE UNCHANGED vars
  <2>1. TxsOnly
    BY <1>4 DEF vars, chainVars, ammVars, supVars, TxsOnly, IInv, Shape, EpochInv
  <2> QED
    BY <2>1, TxsOnlyKeeps
<1> QED
  BY <1>1, <1>2, <1>3, <1>4 DEF Next

\* What supervisor, leaders, chains and messages know of the current
\* repartition fits together in every reachable state.
THEOREM RepartitionInvariance == Spec => []IInv
  BY InitIInv, NextIInv, PTL DEF Spec

\* The invariant bounds the epochs in all messages.
LEMMA InvariantInStep == IInv => EpochsInStep
<1> SUFFICES ASSUME IInv PROVE EpochsInStep
  OBVIOUS
<1>1. \A m \in net : m.type = "states" => m.epoch >= epoch[m.to]
  <2> SUFFICES ASSUME NEW m \in net, m.type = "states" PROVE m.epoch >= epoch[m.to]
    OBVIOUS
  <2>1. m.to \in Shard /\ m.epoch = supEpoch
    BY DEF IInv, ReportInv, Current
  <2> QED
    BY <2>1 DEF IInv, Shape, EpochInv
<1> QED
  BY <1>1 DEF IInv, EpochInv, StartInv, EpochsInStep

\* No message about a repartition is ever refused, for any number of shards
\* and repartitions: the gate of CheckEpochSyncAndMark keeps the epochs of
\* supervisor, leaders and chains within one step of each other.
THEOREM EpochsStayInStep == Spec => []EpochsInStep
  BY InvariantInStep, RepartitionInvariance, PTL

\* Shards whose chains have the same migration blocks agree on the shard of
\* every account, and with the supervisor when they are in its epoch, whatever
\* moves CLPA asks for and however reports overtake the start of an epoch.
THEOREM LocationsAlwaysAgree == Spec => []LocationsAgree
<1>1. IInv => LocationsAgree
  BY DEF IInv, LocationInv, LocationsAgree
<1> QED
  BY <1>1, RepartitionInvariance, PTL

-----------------------------------------------------------------------------
(***************************************************************************)
(* Where transfers wait                                                    *)
(***************************************************************************)

\* What a message or a proposal holds.
Carried(m, c)  == m.type = "txs" /\ c \in m.txs
InBlock(bl, c) == bl.type = "tx" /\ c \in bl.txs

\* The places where transfer t waits, each with the transaction found there,
\* given the variables that may hold it.
PlacesIn(t, source, msgs, pools, blocks) ==
         {p \in {<<"source", t>>} : t \in source}
    \cup {p \in {"net"}   \X msgs  \X Copy : p[3].tx = t /\ Carried(p[2], p[3])}
    \cup {p \in {"pool"}  \X Shard \X Copy : p[3].tx = t /\ p[3] \in pools[p[2]]}
    \cup {p \in {"block"} \X Shard \X Copy : p[3].tx = t /\ InBlock(blocks[p[2]], p[3])}

Places(t) == PlacesIn(t, unsent, net, pool, proposal)

\* Shards, messages and blocks hold transactions of the source.
TransferShape ==
    /\ unsent \in SUBSET Tx
    /\ pool \in [Shard -> SUBSET Copy]
    /\ committed \in [Shard -> SUBSET Copy]
    /\ DOMAIN proposal = Shard
    /\ \A s \in Shard : proposal[s].type = "tx" => proposal[s].txs \in SUBSET Copy
    /\ \A m \in net : m.type = "txs" => m.txs \in SUBSET Copy

\* An unfinished transfer waits in one place, as one transaction.
PlaceInv ==
    \A t \in Tx : /\ \A p, q \in Places(t) : p = q
                  /\ Places(t) = {} <=> Done(t)

\* The first half of t is in the chain.
Halved(t) == \E s \in Shard : [tx |-> t, stage |-> "relay1"] \in committed[s]

\* Then its second half waits, and it was not executed as a whole.
StageInv ==
    \A t \in Tx : Halved(t) =>
        /\ \A p \in Places(t) : p[1] # "source" /\ p[3].stage = "relay2"
        /\ \A s \in Shard : [tx |-> t, stage |-> "raw"] \notin committed[s]

TransferInv == TransferShape /\ PlaceInv /\ StageInv

LEMMA CopyType ==
  ASSUME NEW c \in Copy
  PROVE  /\ c.tx \in Tx
         /\ c.stage \in {"raw", "relay1", "relay2"}
         /\ c = [tx |-> c.tx, stage |-> c.stage]
BY DEF Copy

\* Where t is found outside the source.
AtNet(msgs, t, q)     == \E m \in msgs, c \in Copy : q = <<"net", m, c>> /\ c.tx = t /\ Carried(m, c)
AtPool(pools, t, q)   == \E s \in Shard, c \in Copy : q = <<"pool", s, c>> /\ c.tx = t /\ c \in pools[s]
AtBlock(blocks, t, q) == \E s \in Shard, c \in Copy : q = <<"block", s, c>> /\ c.tx = t /\ InBlock(blocks[s], c)

LEMMA PlacesAre ==
  ASSUME NEW t, NEW source, NEW msgs, NEW pools, NEW blocks, NEW p
  PROVE  p \in PlacesIn(t, source, msgs, pools, blocks) <=>
           \/ p = <<"source", t>> /\ t \in source
           \/ AtNet(msgs, t, p)
           \/ AtPool(pools, t, p)
           \/ AtBlock(blocks, t, p)
BY DEF PlacesIn, AtNet, AtPool, AtBlock

\* A sent transaction is in one message.
LEMMA SentOnce ==
  ASSUME NEW dest
  PROVE  /\ \A m \in SendTxs(dest) : m.type = "txs" /\ m.txs \in SUBSET DOMAIN dest
         /\ \A c \in DOMAIN dest : \E m \in SendTxs(dest) :
               \A n \in SendTxs(dest) : c \in n.txs <=> n = m
<1> DEFINE Msg(s) == [type |-> "txs", to |-> s, txs |-> {c \in DOMAIN dest : dest[c] = s}]
<1>1. \A m \in SendTxs(dest) : \E s : m = Msg(s)  BY DEF SendTxs
<1>2. \A s : Msg(s).type = "txs" /\ Msg(s).txs = {c \in DOMAIN dest : dest[c] = s}  OBVIOUS
<1>3. \A c \in DOMAIN dest : Msg(dest[c]) \in SendTxs(dest)  BY DEF SendTxs
<1> HIDE DEF Msg
<1>4. \A m \in SendTxs(dest) : m.type = "txs" /\ m.txs \in SUBSET DOMAIN dest
  BY <1>1, <1>2
<1>5. ASSUME NEW c \in DOMAIN dest, NEW n \in SendTxs(dest)
      PROVE  c \in n.txs <=> n = Msg(dest[c])
  BY <1>1, <1>2
<1> QED  BY <1>3, <1>4, <1>5

\* A step that commits nothing and moves transfers from place to place.
LEMMA Moving ==
  ASSUME PlaceInv, StageInv, committed' = committed,
         \A t \in Tx :
            \/ Places(t)' = Places(t)
            \/ \E p, q : /\ Places(t) = {p} /\ Places(t)' = {q} /\ q[1] # "source"
                         /\ p[1] # "source" /\ p[3].stage = "relay2" => q[3].stage = "relay2"
  PROVE  PlaceInv' /\ StageInv'
<1>1. \A t \in Tx : (Done(t)' <=> Done(t)) /\ (Halved(t)' <=> Halved(t))
  BY DEF Done, Halved
<1>2. ASSUME NEW t \in Tx
      PROVE  /\ \A p, q \in Places(t)' : p = q
             /\ Places(t)' = {} <=> Done(t)'
  <2>1. (\A p, q \in Places(t) : p = q) /\ (Places(t) = {} <=> Done(t))  BY DEF PlaceInv
  <2> QED  BY <2>1, <1>1
<1>3. ASSUME NEW t \in Tx, Halved(t)', NEW q \in Places(t)'
      PROVE  q[1] # "source" /\ q[3].stage = "relay2"
  <2>1. \A p \in Places(t) : p[1] # "source" /\ p[3].stage = "relay2"
    BY <1>1, <1>3 DEF StageInv
  <2> QED  BY <2>1, <1>3
<1>4. \A t \in Tx : Halved(t)' => \A s \in Shard : [tx |-> t, stage |-> "raw"] \notin committed'[s]
  BY <1>1 DEF StageInv
<1>5. PlaceInv'  BY <1>2 DEF PlaceInv
<1>6. StageInv'  BY <1>3, <1>4 DEF StageInv
<1> QED  BY <1>5, <1>6

\* Membership in the places of this and the next state.
LEMMA PlacesNow ==
  ASSUME NEW t, NEW q
  PROVE  q \in Places(t) <=>
           (q = <<"source", t>> /\ t \in unsent) \/ AtNet(net, t, q) \/ AtPool(pool, t, q) \/ AtBlock(proposal, t, q)
BY PlacesAre DEF Places

LEMMA PlacesNext ==
  ASSUME NEW t, NEW q
  PROVE  q \in Places(t)' <=>
           (q = <<"source", t>> /\ t \in unsent') \/ AtNet(net', t, q) \/ AtPool(pool', t, q) \/ AtBlock(proposal', t, q)
BY PlacesAre DEF Places

\* A place has one shape.
LEMMA Shapes ==
  ASSUME NEW t, NEW q
  PROVE  /\ \A msgs : AtNet(msgs, t, q) => q[1] = "net"
         /\ \A pools : AtPool(pools, t, q) => q[1] = "pool"
         /\ \A blocks : AtBlock(blocks, t, q) => q[1] = "block"
         /\ q = <<"source", t>> => q[1] = "source"
BY DEF AtNet, AtPool, AtBlock

LEMMA PlaceRead ==
  ASSUME TransferInv, ReadTxsAndSend
  PROVE  TransferInv'
<1> USE DEF TransferInv
<1>1. PICK txs \in SUBSET unsent :
         /\ unsent' = unsent \ txs
         /\ net' = net \cup SendTxs([c \in [tx : txs, stage : {"raw"}] |-> supLocation[Sender[c.tx]]])
  BY DEF ReadTxsAndSend
<1>2. UNCHANGED <<pool, proposal, committed>>  BY DEF ReadTxsAndSend, chainVars
<1> DEFINE dest == [c \in [tx : txs, stage : {"raw"}] |-> supLocation[Sender[c.tx]]]
           sent == SendTxs(dest)
           Raw(t) == [tx |-> t, stage |-> "raw"]
<1>3. DOMAIN dest \in SUBSET Copy /\ \A c \in DOMAIN dest : c.tx \in txs /\ c = Raw(c.tx)
  BY DEF TransferShape, Copy
<1>4. \A t \in txs : Raw(t) \in DOMAIN dest  OBVIOUS
<1> HIDE DEF dest
<1>5. /\ \A m \in sent : m.type = "txs" /\ m.txs \in SUBSET DOMAIN dest
      /\ \A c \in DOMAIN dest : \E m \in sent : \A n \in sent : c \in n.txs <=> n = m
  BY <1>3, SentOnce
<1>6. net' = net \cup sent  BY <1>1 DEF dest
<1> HIDE DEF sent
<1>7. TransferShape'  BY <1>1, <1>2, <1>3, <1>5, <1>6 DEF TransferShape
<1>8. ASSUME NEW t \in Tx, NEW q
      PROVE  q \in Places(t)' <=>
               \/ q \in Places(t) /\ ~(q = <<"source", t>> /\ t \in txs)
               \/ AtNet(sent, t, q)
  <2>1. AtNet(net', t, q) <=> AtNet(net, t, q) \/ AtNet(sent, t, q)  BY <1>6 DEF AtNet
  <2>2. AtPool(pool', t, q) <=> AtPool(pool, t, q)  BY <1>2
  <2>3. AtBlock(proposal', t, q) <=> AtBlock(proposal, t, q)  BY <1>2
  <2>4. q = <<"source", t>> => ~AtNet(net, t, q) /\ ~AtPool(pool, t, q) /\ ~AtBlock(proposal, t, q)
    BY Shapes
  <2> QED  BY <2>1, <2>2, <2>3, <2>4, <1>1, PlacesNow, PlacesNext
<1>9. ASSUME NEW t \in Tx
      PROVE  \/ Places(t)' = Places(t)
             \/ \E p, q : /\ Places(t) = {p} /\ Places(t)' = {q} /\ q[1] # "source"
                          /\ p[1] # "source" /\ p[3].stage = "relay2" => q[3].stage = "relay2"
  <2>1. CASE t \notin txs
    <3>1. \A m \in sent : \A c \in m.txs : c.tx # t  BY <2>1, <1>3, <1>5
    <3>2. \A q : ~AtNet(sent, t, q)  BY <3>1 DEF AtNet, Carried
    <3> QED  BY <3>2, <2>1, <1>8
  <2>2. CASE t \in txs
    <3>1. <<"source", t>> \in Places(t)  BY <2>2, PlacesNow
    <3>2. Places(t) = {<<"source", t>>}  BY <3>1 DEF PlaceInv
    <3>3. PICK m \in sent : \A n \in sent : Raw(t) \in n.txs <=> n = m  BY <2>2, <1>4, <1>5
    <3>4. Raw(t) \in Copy /\ Raw(t).tx = t  BY DEF Copy
    <3>5. \A n \in sent : \A c \in n.txs : c.tx = t => c = Raw(t)  BY <1>3, <1>5
    <3> HIDE DEF Raw
    <3>6. \A q : AtNet(sent, t, q) <=> q = <<"net", m, Raw(t)>>
      BY <3>3, <3>4, <3>5, <1>5 DEF AtNet, Carried
    <3>7. Places(t)' = {<<"net", m, Raw(t)>>}  BY <2>2, <3>2, <3>6, <1>8
    <3> DEFINE p == <<"source", t>>
               q == <<"net", m, Raw(t)>>
    <3>8. p[1] = "source" /\ q[1] = "net"  OBVIOUS
    <3> HIDE DEF p, q
    <3> QED  BY <3>2, <3>7, <3>8 DEF p, q
  <2> QED  BY <2>1, <2>2
<1>10. PlaceInv' /\ StageInv'  BY <1>2, <1>9, Moving
<1> QED  BY <1>7, <1>10

\* A step that touches no place.
LEMMA PlaceStays ==
  ASSUME TransferInv, UNCHANGED <<unsent, pool, proposal, committed>>,
         \A m : m.type = "txs" => (m \in net' <=> m \in net)
  PROVE  TransferInv'
<1> USE DEF TransferInv
<1>1. TransferShape'  BY DEF TransferShape
<1>2. ASSUME NEW t \in Tx PROVE Places(t)' = Places(t)
  <2>1. \A q : AtNet(net', t, q) <=> AtNet(net, t, q)  BY DEF AtNet, Carried
  <2>2. \A q : q \in Places(t)' <=> q \in Places(t)  BY <2>1, PlacesNow, PlacesNext
  <2>3. Places(t)' \subseteq Places(t) /\ Places(t) \subseteq Places(t)'  BY <2>2
  <2> QED  BY <2>3
<1>3. PlaceInv' /\ StageInv'  BY <1>2, Moving
<1> QED  BY <1>1, <1>3

\* A transaction arrives in the pool of the shard it was sent to.
LEMMA PlaceReceive ==
  ASSUME TransferInv, NEW m \in net, m.to \in Shard, HandleReceiveTxs(m)
  PROVE  TransferInv'
<1> USE DEF TransferInv
<1> DEFINE s == m.to
<1>1. /\ m.type = "txs" /\ net' = net \ {m}
      /\ pool' = [pool EXCEPT ![s] = pool[s] \cup m.txs]
      /\ UNCHANGED <<unsent, proposal, committed>>
  BY DEF HandleReceiveTxs, supVars, chainVars
<1>2. m.txs \in SUBSET Copy  BY <1>1 DEF TransferShape
<1>3. TransferShape'  BY <1>1, <1>2 DEF TransferShape
<1>4. ASSUME NEW t \in Tx, NEW q
      PROVE  q \in Places(t)' <=>
               \/ q \in Places(t) /\ ~\E c \in m.txs : c.tx = t /\ q = <<"net", m, c>>
               \/ \E c \in m.txs : c.tx = t /\ q = <<"pool", s, c>>
  <2>1. AtNet(net', t, q) <=> AtNet(net, t, q) /\ ~\E c \in m.txs : c.tx = t /\ q = <<"net", m, c>>
    BY <1>1, <1>2 DEF AtNet, Carried
  <2>2. AtPool(pool', t, q) <=> AtPool(pool, t, q) \/ \E c \in m.txs : c.tx = t /\ q = <<"pool", s, c>>
    BY <1>1, <1>2 DEF AtPool, TransferShape
  <2>3. AtBlock(proposal', t, q) <=> AtBlock(proposal, t, q)  BY <1>1
  <2>4. ASSUME NEW c \in m.txs, q = <<"net", m, c>>
        PROVE  ~AtPool(pool, t, q) /\ ~AtBlock(proposal, t, q) /\ q # <<"source", t>>
    BY <2>4, Shapes
  <2> QED  BY <2>1, <2>2, <2>3, <2>4, <1>1, PlacesNow, PlacesNext
<1>5. ASSUME NEW t \in Tx
      PROVE  \/ Places(t)' = Places(t)
             \/ \E p, q : /\ Places(t) = {p} /\ Places(t)' = {q} /\ q[1] # "source"
                          /\ p[1] # "source" /\ p[3].stage = "relay2" => q[3].stage = "relay2"
  <2>1. CASE ~\E c \in m.txs : c.tx = t
    <3>1. \A q : q \in Places(t)' <=> q \in Places(t)  BY <2>1, <1>4
    <3>2. Places(t)' \subseteq Places(t) /\ Places(t) \subseteq Places(t)'  BY <3>1
    <3> QED  BY <3>2
  <2>2. ASSUME NEW c \in m.txs, c.tx = t
        PROVE  \E p, q : /\ Places(t) = {p} /\ Places(t)' = {q} /\ q[1] # "source"
                         /\ p[1] # "source" /\ p[3].stage = "relay2" => q[3].stage = "relay2"
    <3> DEFINE p(d) == <<"net", m, d>>
               q(d) == <<"pool", s, d>>
    <3>1. \A d \in m.txs : d.tx = t => p(d) \in Places(t)
      BY <1>1, <1>2, PlacesNow DEF AtNet, Carried
    <3>2. p(c) \in Places(t)  BY <3>1, <2>2
    <3> HIDE DEF p
    <3>9. Places(t) = {p(c)}  BY <3>2 DEF PlaceInv
    <3>10. \A d \in m.txs : d.tx = t => p(d) = p(c)  BY <3>1, <3>9
    <3> USE DEF p
    <3>3. \A d \in m.txs : d.tx = t => d = c  BY <3>10
    <3>4. \A x : x \in Places(t)' <=> x = q(c)  BY <1>4, <2>2, <3>9, <3>3
    <3>5. p(c)[3] = c /\ q(c)[1] = "pool" /\ q(c)[3] = c  OBVIOUS
    <3> HIDE DEF p, q
    <3>6. Places(t)' = {q(c)}  BY <3>4
    <3> QED  BY <3>9, <3>5, <3>6
  <2> QED  BY <2>1, <2>2
<1>6. PlaceInv' /\ StageInv'  BY <1>1, <1>5, Moving
<1> QED  BY <1>3, <1>6

LEMMA Restaged ==
  ASSUME NEW c \in Copy, NEW st \in {"raw", "relay1", "relay2"}
  PROVE  [c EXCEPT !.stage = st] = [tx |-> c.tx, stage |-> st]
BY DEF Copy

\* The packed transaction is the same but for the stage of a relayed one.
LEMMA PackedIs ==
  ASSUME NEW s, NEW c \in Copy
  PROVE  LET d == ModifyTxRelayOpt(s, c)
         IN  /\ d \in Copy /\ d.tx = c.tx
             /\ c.stage # "raw" => d = c
             /\ c.stage = "raw" => d.stage \in {"raw", "relay1"}
             /\ c.stage = "raw" /\ d.stage = "raw" => location[s][Recipient[c.tx]] = s
<1>1. [c EXCEPT !.stage = "relay1"] = [tx |-> c.tx, stage |-> "relay1"]  BY Restaged
<1>2. ModifyTxRelayOpt(s, c) = IF c.stage = "raw" /\ location[s][Recipient[c.tx]] # s
                               THEN [tx |-> c.tx, stage |-> "relay1"] ELSE c
  BY <1>1 DEF ModifyTxRelayOpt
<1>3. CASE c.stage = "raw" /\ location[s][Recipient[c.tx]] # s
  BY <1>2, <1>3, CopyType DEF Copy
<1>4. CASE ~(c.stage = "raw" /\ location[s][Recipient[c.tx]] # s)
  BY <1>2, <1>4, CopyType
<1> QED  BY <1>3, <1>4

\* A leader takes transactions from its pool, keeps some for its block and
\* sends the others away.
LEMMA PlaceLeaves ==
  ASSUME TransferInv, NEW s \in Shard, NEW txs \in SUBSET pool[s], NEW local \in SUBSET txs,
         NEW dest, DOMAIN dest = txs \ local, NEW other, \A m \in other : m.type # "txs",
         UNCHANGED <<unsent, committed>>,
         pool' = [pool EXCEPT ![s] = pool[s] \ txs],
         net' = net \cup other \cup SendTxs(dest),
         DOMAIN proposal' = Shard,
         \A o \in Shard \ {s} : proposal'[o] = proposal[o],
         \A c : ~InBlock(proposal[s], c),
         \A c : InBlock(proposal'[s], c) <=> \E d \in local : c = ModifyTxRelayOpt(s, d)
  PROVE  TransferInv'
<1> USE DEF TransferInv
<1> DEFINE sent == SendTxs(dest)
           Pack(c) == ModifyTxRelayOpt(s, c)
<1>1. txs \in SUBSET Copy  BY DEF TransferShape
<1>2. /\ \A m \in sent : m.type = "txs" /\ m.txs \in SUBSET (txs \ local)
      /\ \A c \in txs \ local : \E m \in sent : \A n \in sent : c \in n.txs <=> n = m
  BY <1>1, SentOnce
<1>3. \A c \in txs : /\ Pack(c) \in Copy /\ Pack(c).tx = c.tx
                     /\ c.stage = "relay2" => Pack(c).stage = "relay2"
  BY <1>1, PackedIs
<1> HIDE DEF Pack, sent
<1>4. \A c : InBlock(proposal'[s], c) <=> \E d \in local : c = Pack(d)  BY DEF Pack
<1>5. \A m \in net' : m.type = "txs" => m \in net \/ m \in sent  BY DEF sent
<1>6. \A m : m \in net \/ m \in sent => m \in net'  BY DEF sent
<1>7. TransferShape'
  <2>1. pool' \in [Shard -> SUBSET Copy]  BY DEF TransferShape
  <2>2. \A o \in Shard : proposal'[o].type = "tx" => proposal'[o].txs \in SUBSET Copy
    <3>1. proposal'[s].type = "tx" => \A c \in proposal'[s].txs : c \in Copy
      BY <1>3, <1>4 DEF InBlock
    <3> QED  BY <3>1 DEF TransferShape
  <2>3. \A m \in net' : m.type = "txs" => m.txs \in SUBSET Copy
    BY <1>1, <1>2, <1>5 DEF TransferShape
  <2> QED  BY <2>1, <2>2, <2>3 DEF TransferShape
<1>8. ASSUME NEW t \in Tx, NEW q
      PROVE  q \in Places(t)' <=>
               \/ q \in Places(t) /\ ~\E c \in txs : c.tx = t /\ q = <<"pool", s, c>>
               \/ \E c \in local : c.tx = t /\ q = <<"block", s, Pack(c)>>
               \/ AtNet(sent, t, q)
  <2>1. AtNet(net', t, q) <=> AtNet(net, t, q) \/ AtNet(sent, t, q)
    BY <1>5, <1>6 DEF AtNet, Carried
  <2>2. AtPool(pool', t, q) <=> AtPool(pool, t, q) /\ ~\E c \in txs : c.tx = t /\ q = <<"pool", s, c>>
    BY <1>1 DEF AtPool, TransferShape
  <2>3. AtBlock(proposal', t, q)
          <=> AtBlock(proposal, t, q) \/ \E c \in local : c.tx = t /\ q = <<"block", s, Pack(c)>>
    <3>1. AtBlock(proposal, t, q)
            <=> \E o \in Shard \ {s}, c \in Copy : q = <<"block", o, c>> /\ c.tx = t /\ InBlock(proposal[o], c)
      BY DEF AtBlock
    <3>2. AtBlock(proposal', t, q)
            <=> \/ \E o \in Shard \ {s}, c \in Copy : q = <<"block", o, c>> /\ c.tx = t /\ InBlock(proposal[o], c)
                \/ \E c \in Copy : q = <<"block", s, c>> /\ c.tx = t /\ InBlock(proposal'[s], c)
      BY DEF AtBlock
    <3>3. (\E c \in Copy : q = <<"block", s, c>> /\ c.tx = t /\ InBlock(proposal'[s], c))
            <=> \E c \in local : c.tx = t /\ q = <<"block", s, Pack(c)>>
      BY <1>3, <1>4
    <3> QED  BY <3>1, <3>2, <3>3
  <2>4. ASSUME NEW c \in txs, q = <<"pool", s, c>>
        PROVE  ~AtNet(net, t, q) /\ ~AtBlock(proposal, t, q) /\ q # <<"source", t>>
    BY <2>4, Shapes
  <2> QED  BY <2>1, <2>2, <2>3, <2>4, PlacesNow, PlacesNext
<1>9. \A t, q : AtNet(sent, t, q) <=>
          \E m \in sent, c \in txs \ local : q = <<"net", m, c>> /\ c.tx = t /\ c \in m.txs
  BY <1>1, <1>2 DEF AtNet, Carried
<1>10. ASSUME NEW t \in Tx
       PROVE  \/ Places(t)' = Places(t)
              \/ \E p, q : /\ Places(t) = {p} /\ Places(t)' = {q} /\ q[1] # "source"
                           /\ p[1] # "source" /\ p[3].stage = "relay2" => q[3].stage = "relay2"
  <2>1. CASE ~\E c \in txs : c.tx = t
    <3>1. \A q : q \in Places(t)' <=> q \in Places(t)  BY <2>1, <1>8, <1>9
    <3>2. Places(t)' \subseteq Places(t) /\ Places(t) \subseteq Places(t)'  BY <3>1
    <3> QED  BY <3>2
  <2>2. ASSUME NEW c \in txs, c.tx = t
        PROVE  \E p, q : /\ Places(t) = {p} /\ Places(t)' = {q} /\ q[1] # "source"
                         /\ p[1] # "source" /\ p[3].stage = "relay2" => q[3].stage = "relay2"
    <3> DEFINE p(d) == <<"pool", s, d>>
    <3>1. \A d \in txs : d.tx = t => p(d) \in Places(t)
      BY <1>1, PlacesNow DEF AtPool
    <3>2. p(c) \in Places(t)  BY <3>1, <2>2
    <3> HIDE DEF p
    <3>3. Places(t) = {p(c)}  BY <3>2 DEF PlaceInv
    <3>4. \A d \in txs : d.tx = t => p(d) = p(c)  BY <3>1, <3>3
    <3> USE DEF p
    <3>5. \A d \in txs : d.tx = t => d = c  BY <3>4
    <3>6. p(c)[3] = c  OBVIOUS
    <3>7. CASE c \in local
      <4> DEFINE q == <<"block", s, Pack(c)>>
      <4>1. \A x : x \in Places(t)' <=> x = q  BY <1>8, <1>9, <2>2, <3>3, <3>5, <3>7
      <4>2. q[1] = "block" /\ q[3] = Pack(c)  OBVIOUS
      <4>3. c.stage = "relay2" => Pack(c).stage = "relay2"  BY <1>3
      <4> HIDE DEF p, q
      <4>4. Places(t)' = {q}  BY <4>1
      <4> QED  BY <3>3, <3>6, <4>2, <4>3, <4>4
    <3>8. CASE c \notin local
      <4>1. PICK m \in sent : \A n \in sent : c \in n.txs <=> n = m  BY <1>2, <3>8
      <4> DEFINE q == <<"net", m, c>>
      <4>2. \A x : AtNet(sent, t, x) <=> x = q  BY <1>9, <2>2, <3>5, <3>8, <4>1
      <4>3. \A x : x \in Places(t)' <=> x = q  BY <1>8, <2>2, <3>3, <3>5, <3>8, <4>2
      <4>4. q[1] = "net" /\ q[3] = c  OBVIOUS
      <4> HIDE DEF p, q
      <4>5. Places(t)' = {q}  BY <4>3
      <4> QED  BY <3>3, <3>6, <4>4, <4>5
    <3> QED  BY <3>7, <3>8
  <2> QED  BY <2>1, <2>2
<1>11. PlaceInv' /\ StageInv'  BY <1>10, Moving
<1> QED  BY <1>7, <1>11

\* What buildBlockProposal packs, and what it sends away.
LEMMA BuildIs ==
  ASSUME NEW s \in Shard, BuildBlockProposal(s)
  PROVE  \E txs \in SUBSET pool[s] :
           /\ pool' = [pool EXCEPT ![s] = pool[s] \ txs]
           /\ proposal' = [proposal EXCEPT ![s] =
                 [type |-> "tx", txs |-> {ModifyTxRelayOpt(s, c) : c \in Local(s, txs)}]]
           /\ net' = net \cup SendTxs([c \in txs \ Local(s, txs) |-> location[s][KeyAcc(c)]])
BY DEF BuildBlockProposal, PackedTxs

LEMMA PlaceBuild ==
  ASSUME TransferInv, NEW s \in Shard, BuildBlockProposal(s)
  PROVE  TransferInv'
<1>1. PICK txs \in SUBSET pool[s] :
        /\ pool' = [pool EXCEPT ![s] = pool[s] \ txs]
        /\ proposal' = [proposal EXCEPT ![s] =
              [type |-> "tx", txs |-> {ModifyTxRelayOpt(s, c) : c \in Local(s, txs)}]]
        /\ net' = net \cup SendTxs([c \in txs \ Local(s, txs) |-> location[s][KeyAcc(c)]])
  BY BuildIs
<1> DEFINE local == Local(s, txs)
           other == {}
           dest == [c \in txs \ local |-> location[s][KeyAcc(c)]]
<1>2. local \in SUBSET txs  BY DEF Local
<1>3. DOMAIN dest = txs \ local  OBVIOUS
<1>4. DOMAIN proposal = Shard  BY DEF TransferInv, TransferShape
<1>5. UNCHANGED <<unsent, committed>> /\ proposal[s] = NoBlock
  BY DEF BuildBlockProposal, supVars, chainVars
<1>6. \A c : ~InBlock(proposal[s], c)  BY <1>5 DEF InBlock, NoBlock
<1>7. \A c : InBlock(proposal'[s], c) <=> \E d \in local : c = ModifyTxRelayOpt(s, d)
  BY <1>1, <1>4 DEF InBlock
<1>8. \A o \in Shard \ {s} : proposal'[o] = proposal[o]  BY <1>1, <1>4
<1>9. DOMAIN proposal' = Shard  BY <1>1, <1>4
<1>10. net' = net \cup other \cup SendTxs(dest)  BY <1>1
<1>11. \A m \in other : m.type # "txs"  OBVIOUS
<1> HIDE DEF dest, local, other
<1>12. pool' = [pool EXCEPT ![s] = pool[s] \ txs]  BY <1>1
<1> QED
  BY <1>2, <1>3, <1>5, <1>6, <1>7, <1>8, <1>9, <1>10, <1>11, <1>12, PlaceLeaves

LEMMA PlaceMigrate ==
  ASSUME TransferInv, NEW s \in Shard, MigrateAccounts(s)
  PROVE  TransferInv'
<1> DEFINE moved == {c \in pool[s] : curModified[s][KeyAcc(c)] # NoShard}
           dest == [c \in moved |-> curModified[s][KeyAcc(c)]]
           other == {[type |-> "states", to |-> d, epoch |-> epoch[s],
                       body |-> [src |-> s, states |-> MigratedStates(s, d)]] : d \in Shard}
<1>1. /\ pool' = [pool EXCEPT ![s] = AddBackTxs(s)]
      /\ net' = net \cup other \cup SendTxs(dest)
      /\ UNCHANGED <<unsent, committed, proposal>>
      /\ proposal[s] = NoBlock
  BY DEF MigrateAccounts, supVars, chainVars
<1>2. AddBackTxs(s) = pool[s] \ moved  BY DEF AddBackTxs
<1>3. DOMAIN dest = moved \ {}  OBVIOUS
<1>4. \A m \in other : m.type # "txs"  OBVIOUS
<1>5. moved \in SUBSET pool[s]  OBVIOUS
<1>6. \A c : ~InBlock(proposal[s], c)  BY <1>1 DEF InBlock, NoBlock
<1>7. DOMAIN proposal' = Shard  BY <1>1 DEF TransferInv, TransferShape
<1> HIDE DEF dest, moved, other
<1>8. \A c : InBlock(proposal'[s], c) <=> \E d \in {} : c = ModifyTxRelayOpt(s, d)
  BY <1>1, <1>6
<1>9. {} \in SUBSET moved  OBVIOUS
<1> QED
  BY <1>1, <1>2, <1>3, <1>4, <1>5, <1>6, <1>7, <1>8, <1>9, PlaceLeaves

\* The second halves that the relay transactions of a block become.
Second2(txs) == {[tx |-> c.tx, stage |-> "relay2"] : c \in {x \in txs : x.stage = "relay1"}}

LEMMA SecondHalves ==
  ASSUME NEW txs \in SUBSET Copy
  PROVE  {[c EXCEPT !.stage = "relay2"] : c \in {x \in txs : x.stage = "relay1"}} = Second2(txs)
<1> DEFINE R == {x \in txs : x.stage = "relay1"}
           F(c) == [c EXCEPT !.stage = "relay2"]
           G(c) == [tx |-> c.tx, stage |-> "relay2"]
<1>1. \A c \in R : F(c) = G(c)  BY Restaged
<1> HIDE DEF R, F, G
<1>2. {F(c) : c \in R} = {G(c) : c \in R}  BY <1>1
<1> QED  BY <1>2 DEF R, F, G, Second2

\* What a committed block changes, but for the balances.
LEMMA CommitIs ==
  ASSUME TransferShape, NEW s \in Shard, BlockCommitAndDeliver(s)
  PROVE  /\ proposal[s].type = "tx" /\ proposal[s].txs \in SUBSET Copy
         /\ committed' = [committed EXCEPT ![s] = committed[s] \cup proposal[s].txs]
         /\ proposal' = [proposal EXCEPT ![s] = NoBlock]
         /\ UNCHANGED <<unsent, pool>>
         /\ \E infos : /\ \A m \in infos : m.type = "info"
                       /\ net' = net \cup infos \cup SendTxs([c \in Second2(proposal[s].txs) |->
                                                                location[s][Recipient[c.tx]]])
<1> DEFINE txs == proposal[s].txs
           info == [type |-> "info", shard |-> s, epoch |-> chainEpoch[s], empty |-> txs = {}]
           infos == IF stopped THEN {} ELSE {info}
           relay2 == {[c EXCEPT !.stage = "relay2"] : c \in {x \in txs : x.stage = "relay1"}}
<1>1. proposal[s].type = "tx" /\ txs \in SUBSET Copy
  BY DEF BlockCommitAndDeliver, TransferShape
<1>2. net' = net \cup infos \cup SendTxs([c \in relay2 |-> location[s][Recipient[c.tx]]])
  BY DEF BlockCommitAndDeliver
<1>3. \A m \in infos : m.type = "info"  OBVIOUS
<1>4. relay2 = Second2(txs)  BY <1>1, SecondHalves
<1>5. /\ committed' = [committed EXCEPT ![s] = committed[s] \cup txs]
      /\ proposal' = [proposal EXCEPT ![s] = NoBlock]
      /\ UNCHANGED <<unsent, pool>>
  BY DEF BlockCommitAndDeliver, supVars
<1> HIDE DEF infos, relay2
<1>6. net' = net \cup infos \cup SendTxs([c \in Second2(txs) |-> location[s][Recipient[c.tx]]])
  BY <1>2, <1>4
<1> QED  BY <1>1, <1>3, <1>5, <1>6

\* A committed block finishes a transfer or sends its second half.
LEMMA PlaceCommit ==
  ASSUME TransferInv, NEW s \in Shard, BlockCommitAndDeliver(s)
  PROVE  TransferInv'
<1> USE DEF TransferInv
<1> DEFINE txs == proposal[s].txs
           relay2 == Second2(txs)
           dest == [c \in relay2 |-> location[s][Recipient[c.tx]]]
           sent == SendTxs(dest)
           Half2(t) == [tx |-> t, stage |-> "relay2"]
<1>1. /\ proposal[s].type = "tx" /\ txs \in SUBSET Copy
      /\ committed' = [committed EXCEPT ![s] = committed[s] \cup txs]
      /\ proposal' = [proposal EXCEPT ![s] = NoBlock]
      /\ UNCHANGED <<unsent, pool>>
  BY CommitIs
<1>2. PICK infos : /\ \A m \in infos : m.type = "info"
                   /\ net' = net \cup infos \cup sent
  BY CommitIs
<1>3. DOMAIN dest = relay2  OBVIOUS
<1>4. relay2 \in SUBSET Copy  BY <1>1 DEF Second2, Copy
<1>5. \A x : x \in relay2 <=> \E c \in txs : c.stage = "relay1" /\ x = Half2(c.tx)
  BY DEF Second2
<1> HIDE DEF dest, relay2
<1>6. /\ \A m \in sent : m.type = "txs" /\ m.txs \in SUBSET relay2
      /\ \A c \in relay2 : \E m \in sent : \A n \in sent : c \in n.txs <=> n = m
  BY <1>3, <1>4, SentOnce
<1> HIDE DEF sent
<1>7. \A m \in net' : m.type = "txs" => m \in net \/ m \in sent  BY <1>2
<1>8. \A m : m \in net \/ m \in sent => m \in net'  BY <1>2
<1>9. TransferShape'
  <2>1. committed' \in [Shard -> SUBSET Copy]  BY <1>1 DEF TransferShape
  <2>2. DOMAIN proposal' = Shard
        /\ \A o \in Shard : proposal'[o].type = "tx" => proposal'[o].txs \in SUBSET Copy
    BY <1>1 DEF TransferShape, NoBlock
  <2>3. \A m \in net' : m.type = "txs" => m.txs \in SUBSET Copy
    BY <1>4, <1>6, <1>7 DEF TransferShape
  <2> QED  BY <1>1, <2>1, <2>2, <2>3 DEF TransferShape
<1>10. ASSUME NEW t \in Tx, NEW q
       PROVE  q \in Places(t)' <=>
                \/ q \in Places(t) /\ ~\E c \in txs : c.tx = t /\ q = <<"block", s, c>>
                \/ AtNet(sent, t, q)
  <2>1. AtNet(net', t, q) <=> AtNet(net, t, q) \/ AtNet(sent, t, q)
    BY <1>7, <1>8 DEF AtNet, Carried
  <2>2. AtPool(pool', t, q) <=> AtPool(pool, t, q)  BY <1>1
  <2>3. AtBlock(proposal', t, q)
          <=> AtBlock(proposal, t, q) /\ ~\E c \in txs : c.tx = t /\ q = <<"block", s, c>>
    <3>1. \A c : ~InBlock(proposal'[s], c)  BY <1>1 DEF InBlock, NoBlock, TransferShape
    <3>2. \A o \in Shard \ {s} : proposal'[o] = proposal[o]  BY <1>1 DEF TransferShape
    <3>3. \A c : InBlock(proposal[s], c) <=> c \in txs  BY <1>1 DEF InBlock
    <3>4. AtBlock(proposal', t, q)
            <=> \E o \in Shard \ {s}, c \in Copy : q = <<"block", o, c>> /\ c.tx = t /\ InBlock(proposal[o], c)
      BY <3>1, <3>2 DEF AtBlock
    <3>5. AtBlock(proposal, t, q)
            <=> \/ \E o \in Shard \ {s}, c \in Copy : q = <<"block", o, c>> /\ c.tx = t /\ InBlock(proposal[o], c)
                \/ \E c \in txs : q = <<"block", s, c>> /\ c.tx = t
      BY <1>1, <3>3 DEF AtBlock
    <3>6. ASSUME NEW o \in Shard \ {s}, NEW c, q = <<"block", o, c>>
          PROVE  \A d : q # <<"block", s, d>>
      BY <3>6
    <3> QED  BY <3>4, <3>5, <3>6
  <2>4. ASSUME NEW c \in txs, q = <<"block", s, c>>
        PROVE  ~AtNet(net, t, q) /\ ~AtPool(pool, t, q) /\ q # <<"source", t>>
    BY <2>4, Shapes
  <2> QED  BY <2>1, <2>2, <2>3, <2>4, <1>1, PlacesNow, PlacesNext
<1>11. \A t, q : AtNet(sent, t, q) <=>
          \E m \in sent, c \in relay2 : q = <<"net", m, c>> /\ c.tx = t /\ c \in m.txs
  BY <1>4, <1>6 DEF AtNet, Carried
\* Which transactions the chains now hold.
<1>12. \A x : (\E o \in Shard : x \in committed'[o]) <=> x \in txs \/ \E o \in Shard : x \in committed[o]
  BY <1>1 DEF TransferShape
<1> DEFINE In(x)  == \E o \in Shard : x \in committed[o]
           Raw(t) == [tx |-> t, stage |-> "raw"]
           Half(t) == [tx |-> t, stage |-> "relay1"]
<1>13. \A t : /\ Done(t) <=> In(Raw(t)) \/ In(Half2(t))
              /\ Halved(t) <=> In(Half(t))
              /\ Done(t)' <=> In(Raw(t)) \/ In(Half2(t)) \/ Raw(t) \in txs \/ Half2(t) \in txs
              /\ Halved(t)' <=> In(Half(t)) \/ Half(t) \in txs
              /\ (\A o \in Shard : Raw(t) \notin committed[o]) <=> ~In(Raw(t))
              /\ (\A o \in Shard : Raw(t) \notin committed'[o]) <=> ~In(Raw(t)) /\ Raw(t) \notin txs
  BY <1>12 DEF Done, Halved
<1> HIDE DEF In
<1>14. ASSUME NEW t \in Tx
       PROVE  /\ \A p, q \in Places(t)' : p = q
              /\ Places(t)' = {} <=> Done(t)'
              /\ Halved(t)' => /\ \A p \in Places(t)' : p[1] # "source" /\ p[3].stage = "relay2"
                               /\ \A o \in Shard : Raw(t) \notin committed'[o]
  <2>1. /\ \A p, q \in Places(t) : p = q
        /\ Places(t) = {} <=> Done(t)
        /\ Halved(t) => /\ \A p \in Places(t) : p[1] # "source" /\ p[3].stage = "relay2"
                        /\ ~In(Raw(t))
    BY <1>13 DEF PlaceInv, StageInv
  <2>2. CASE ~\E c \in txs : c.tx = t
    <3>1. Raw(t) \notin txs /\ Half(t) \notin txs /\ Half2(t) \notin txs  BY <2>2
    <3>2. \A x \in relay2 : x.tx # t  BY <2>2, <1>5
    <3>3. \A q : q \in Places(t)' <=> q \in Places(t)  BY <2>2, <3>2, <1>10, <1>11
    <3>4. Places(t)' = Places(t)
      <4>1. Places(t)' \subseteq Places(t) /\ Places(t) \subseteq Places(t)'  BY <3>3
      <4> QED  BY <4>1
    <3>5. (Done(t)' <=> Done(t)) /\ (Halved(t)' <=> Halved(t))  BY <1>13, <3>1
    <3> QED  BY <2>1, <3>1, <3>4, <3>5, <1>13
  <2>3. ASSUME NEW c \in txs, c.tx = t
        PROVE  /\ \A p, q \in Places(t)' : p = q
               /\ Places(t)' = {} <=> Done(t)'
               /\ Halved(t)' => /\ \A p \in Places(t)' : p[1] # "source" /\ p[3].stage = "relay2"
                                /\ ~In(Raw(t)) /\ Raw(t) \notin txs
    <3> DEFINE p(d) == <<"block", s, d>>
    <3>1. \A d \in txs : d.tx = t => p(d) \in Places(t)
      BY <1>1, PlacesNow DEF AtBlock, InBlock
    <3>2. p(c) \in Places(t)  BY <3>1, <2>3
    <3> HIDE DEF p
    <3>3. Places(t) = {p(c)}  BY <3>2, <2>1
    <3>4. \A d \in txs : d.tx = t => p(d) = p(c)  BY <3>1, <3>3
    <3> USE DEF p
    <3>5. \A d \in txs : d.tx = t => d = c  BY <3>4
    <3>6. p(c)[1] = "block" /\ p(c)[3] = c  OBVIOUS
    <3>7. c = [tx |-> t, stage |-> c.stage] /\ c.stage \in {"raw", "relay1", "relay2"}
      BY <1>1, <2>3, CopyType
    <3>8. /\ Raw(t) \in txs <=> c.stage = "raw"
          /\ Half(t) \in txs <=> c.stage = "relay1"
          /\ Half2(t) \in txs <=> c.stage = "relay2"
      BY <3>5, <3>7
    <3>9. ~Done(t) /\ ~In(Raw(t)) /\ ~In(Half2(t))  BY <2>1, <3>2, <1>13
    <3>10. Halved(t) => c.stage = "relay2"  BY <2>1, <3>2, <3>6
    <3>11. CASE c.stage = "relay1"
      <4>1. \A x \in relay2 : x.tx = t <=> x = Half2(t)  BY <1>5, <3>5, <3>7
      <4>2. Half2(t) \in relay2  BY <1>5, <2>3, <3>11
      <4>3. PICK m \in sent : \A n \in sent : Half2(t) \in n.txs <=> n = m  BY <1>6, <4>2
      <4> DEFINE q == <<"net", m, Half2(t)>>
      <4>4. \A x : AtNet(sent, t, x) <=> x = q  BY <1>11, <4>1, <4>2, <4>3
      <4>5. \A x : x \in Places(t)' <=> x = q  BY <1>10, <2>3, <3>3, <4>4
      <4>6. q[1] = "net" /\ q[3].stage = "relay2"  OBVIOUS
      <4> HIDE DEF q, p
      <4>7. Places(t)' = {q}  BY <4>5
      <4>8. ~Done(t)' /\ Raw(t) \notin txs  BY <1>13, <3>8, <3>9, <3>11
      <4> QED  BY <3>9, <4>6, <4>7, <4>8
    <3>12. CASE c.stage # "relay1"
      <4>1. \A x \in relay2 : x.tx # t  BY <1>5, <3>5, <3>12
      <4>2. \A x : x \notin Places(t)'  BY <1>10, <1>11, <2>3, <3>3, <4>1
      <4> HIDE DEF p
      <4>3. Places(t)' = {}  BY <4>2
      <4>4. Done(t)'  BY <1>13, <3>7, <3>8, <3>12
      <4>5. Halved(t)' => Halved(t)  BY <1>13, <3>8, <3>12
      <4>6. Halved(t)' => Raw(t) \notin txs  BY <4>5, <3>8, <3>10
      <4> QED  BY <3>9, <4>3, <4>4, <4>6
    <3> QED  BY <3>11, <3>12
  <2>4. CASE \E c \in txs : c.tx = t  BY <2>3, <2>4, <1>13
  <2> QED  BY <2>2, <2>4
<1>15. PlaceInv'  BY <1>14 DEF PlaceInv
<1>16. StageInv'  BY <1>14 DEF StageInv
<1> QED  BY <1>9, <1>15, <1>16

\* A proposal without transactions comes or goes.
LEMMA PlaceNoBlock ==
  ASSUME TransferInv, NEW s \in Shard, proposal[s].type # "tx",
         NEW b, b.type # "tx", proposal' = [proposal EXCEPT ![s] = b],
         UNCHANGED <<unsent, pool, committed, net>>
  PROVE  TransferInv'
<1> USE DEF TransferInv
<1>1. TransferShape'  BY DEF TransferShape
<1>2. \A o \in Shard : \A c : InBlock(proposal'[o], c) <=> InBlock(proposal[o], c)
  BY DEF InBlock, TransferShape
<1>3. ASSUME NEW t \in Tx PROVE Places(t)' = Places(t)
  <2>1. \A q : AtBlock(proposal', t, q) <=> AtBlock(proposal, t, q)  BY <1>2 DEF AtBlock
  <2>2. \A q : q \in Places(t)' <=> q \in Places(t)  BY <2>1, PlacesNow, PlacesNext
  <2>3. Places(t)' \subseteq Places(t) /\ Places(t) \subseteq Places(t)'  BY <2>2
  <2> QED  BY <2>3
<1>4. PlaceInv' /\ StageInv'  BY <1>3, Moving
<1> QED  BY <1>1, <1>4

LEMMA TransferInit == Init => TransferInv
<1> SUFFICES ASSUME Init PROVE TransferInv  OBVIOUS
<1> USE DEF Init
<1>1. TransferShape  BY DEF TransferShape, NoBlock
<1>2. \A t \in Tx : ~Done(t) /\ ~Halved(t)  BY DEF Done, Halved
<1>3. \A t \in Tx : \A q : q \in Places(t) <=> q = <<"source", t>>
  <2> SUFFICES ASSUME NEW t \in Tx, NEW q PROVE q \in Places(t) <=> q = <<"source", t>>  OBVIOUS
  <2>1. ~AtNet(net, t, q) /\ ~AtPool(pool, t, q) /\ ~AtBlock(proposal, t, q)
    BY DEF AtNet, AtPool, AtBlock, InBlock, NoBlock
  <2> QED  BY <2>1, PlacesNow
<1>4. PlaceInv
  <2> SUFFICES ASSUME NEW t \in Tx
               PROVE  (\A p, q \in Places(t) : p = q) /\ (Places(t) = {} <=> Done(t))
    BY DEF PlaceInv
  <2> DEFINE p == <<"source", t>>
  <2>1. \A q : q \in Places(t) <=> q = p  BY <1>3
  <2> HIDE DEF p
  <2>2. Places(t) = {p}  BY <2>1
  <2> QED  BY <2>2, <1>2
<1>5. StageInv  BY <1>2 DEF StageInv
<1> QED  BY <1>1, <1>4, <1>5 DEF TransferInv

LEMMA TransferNext == TransferInv /\ [Next]_vars => TransferInv'
<1> SUFFICES ASSUME TransferInv, [Next]_vars PROVE TransferInv'  OBVIOUS
<1>1. CASE Supervisor
  <2>1. CASE ReadTxsAndSend  BY <2>1, PlaceRead
  <2>2. CASE Repartition
    <3>1. UNCHANGED <<unsent, pool, proposal, committed>>  BY <2>2 DEF Repartition, chainVars
    <3>2. \A m : m.type = "txs" => (m \in net' <=> m \in net)  BY <2>2 DEF Repartition
    <3> QED  BY <3>1, <3>2, PlaceStays
  <2>3. ASSUME NEW m \in net, HandleBlockInfo(m) PROVE TransferInv'
    BY <2>3, PlaceStays DEF HandleBlockInfo, chainVars
  <2>4. CASE Stop  BY <2>4, PlaceStays DEF Stop, chainVars
  <2> QED  BY <1>1, <2>1, <2>2, <2>3, <2>4 DEF Supervisor
<1>2. ASSUME NEW m \in net, m.to \in Shard,
             HandleReceiveTxs(m) \/ HandleRepartitionStart(m) \/ HandleAccountMigration(m)
      PROVE  TransferInv'
  <2>1. CASE HandleReceiveTxs(m)  BY <1>2, <2>1, PlaceReceive
  <2>2. CASE HandleRepartitionStart(m)
    BY <2>2, PlaceStays DEF HandleRepartitionStart, chainVars, supVars
  <2>3. CASE HandleAccountMigration(m)
    BY <2>3, PlaceStays DEF HandleAccountMigration, chainVars, supVars
  <2> QED  BY <1>2, <2>1, <2>2, <2>3
<1>3. ASSUME NEW s \in Shard, Leader(s) PROVE TransferInv'
  <2>1. CASE BuildBlockProposal(s)  BY <2>1, PlaceBuild
  <2>2. CASE MigrateAccounts(s)  BY <2>2, PlaceMigrate
  <2>3. CASE BuildMigrationProposal(s)
    <3> DEFINE b == [type |-> "migration", modified |-> MigratedAddrs(s),
                     states |-> [a \in Account |-> MigratedState(s, a)]]
    <3>1. /\ proposal' = [proposal EXCEPT ![s] = b]
          /\ UNCHANGED <<unsent, pool, committed, net>>
      BY <2>3 DEF BuildMigrationProposal, chainVars, supVars
    <3>2. b.type # "tx" /\ proposal[s].type # "tx"  BY <2>3 DEF BuildMigrationProposal, NoBlock
    <3> HIDE DEF b
    <3> QED  BY <3>1, <3>2, PlaceNoBlock
  <2>4. CASE BlockCommitAndDeliver(s)  BY <2>4, PlaceCommit
  <2>5. CASE MigrationBlockCommit(s)
    <3>1. /\ proposal' = [proposal EXCEPT ![s] = NoBlock] /\ proposal[s].type = "migration"
          /\ UNCHANGED <<unsent, pool, committed, net>>
      BY <2>5 DEF MigrationBlockCommit, supVars
    <3>2. NoBlock.type # "tx"  BY DEF NoBlock
    <3> QED  BY <3>1, <3>2, PlaceNoBlock
  <2> QED  BY <1>3, <2>1, <2>2, <2>3, <2>4, <2>5 DEF Leader
<1>4. CASE UNCHANGED vars  BY <1>4, PlaceStays DEF vars, chainVars, supVars
<1> QED
  <2>1. CASE \E s \in Shard : Receive(s)  BY <1>2, <2>1 DEF Receive
  <2> QED  BY <1>1, <2>1, <1>3, <1>4 DEF Next

LEMMA TransferCorrect == Spec => []TransferInv
BY TransferInit, TransferNext, PTL DEF Spec

\* No place is counted twice.
LEMMA CopiesCounted ==
  ASSUME TransferInv, NEW t \in Tx
  PROVE  Copies(t) = IF Done(t) THEN 0 ELSE 1
<1> USE DEF TransferInv
<1> DEFINE A == {m \in net : m.type = "txs" /\ Holds(m.txs, t)}
           B == {s \in Shard : Holds(pool[s], t)}
           C == {s \in Shard : proposal[s].type = "tx" /\ Holds(proposal[s].txs, t)}
           src == IF t \in unsent THEN 1 ELSE 0
<1>1. Copies(t) = src + Cardinality(A) + Cardinality(B) + Cardinality(C)
  BY DEF Copies
<1>2. \A p, q \in Places(t) : p = q  BY DEF PlaceInv
<1>3. Places(t) = {} <=> Done(t)  BY DEF PlaceInv
<1>4. t \in unsent <=> <<"source", t>> \in Places(t)  BY PlacesNow, Shapes
<1>5. \A m \in A : \E c \in Copy : <<"net", m, c>> \in Places(t)
  BY PlacesNow DEF AtNet, Carried, Holds, TransferShape
<1>6. \A s \in B : \E c \in Copy : <<"pool", s, c>> \in Places(t)
  BY PlacesNow DEF AtPool, Holds, TransferShape
<1>7. \A s \in C : \E c \in Copy : <<"block", s, c>> \in Places(t)
  BY PlacesNow DEF AtBlock, InBlock, Holds, TransferShape
<1>8. \A p \in Places(t) : t \in unsent \/ A # {} \/ B # {} \/ C # {}
  <2>1. \A q : AtNet(net, t, q) => A # {}  BY DEF AtNet, Carried, Holds
  <2>2. \A q : AtPool(pool, t, q) => B # {}  BY DEF AtPool, Holds
  <2>3. \A q : AtBlock(proposal, t, q) => C # {}  BY DEF AtBlock, InBlock, Holds
  <2> QED  BY <2>1, <2>2, <2>3, PlacesNow
<1> HIDE DEF A, B, C, src
<1>9. \A x, y \in A : x = y  BY <1>2, <1>5
<1>10. \A x, y \in B : x = y  BY <1>2, <1>6
<1>11. \A x, y \in C : x = y  BY <1>2, <1>7
<1>12. \A m \in A : B = {} /\ C = {} /\ t \notin unsent  BY <1>2, <1>4, <1>5, <1>6, <1>7
<1>13. \A s \in B : C = {} /\ t \notin unsent  BY <1>2, <1>4, <1>6, <1>7
<1>14. \A s \in C : t \notin unsent  BY <1>2, <1>4, <1>7
<1>15. /\ Cardinality(A) = IF A = {} THEN 0 ELSE 1
       /\ Cardinality(B) = IF B = {} THEN 0 ELSE 1
       /\ Cardinality(C) = IF C = {} THEN 0 ELSE 1
  BY <1>9, <1>10, <1>11, AtMostOne
<1>16. CASE Done(t)
  <2>1. A = {} /\ B = {} /\ C = {} /\ t \notin unsent
    BY <1>16, <1>3, <1>4, <1>5, <1>6, <1>7
  <2> QED  BY <1>16, <2>1, <1>1, <1>15 DEF src
<1>17. CASE ~Done(t)
  <2>1. t \in unsent \/ A # {} \/ B # {} \/ C # {}  BY <1>17, <1>3, <1>8
  <2> QED  BY <1>17, <2>1, <1>1, <1>12, <1>13, <1>14, <1>15 DEF src
<1> QED  BY <1>16, <1>17

\* An unfinished transfer is in exactly one place between the source, the
\* messages, the pools and the proposals, and a finished one nowhere: however
\* transactions are packed, relayed, sent on because their account lives
\* elsewhere and migrated with their accounts, for any number of shards,
\* transfers and repartitions.
THEOREM TransfersNeverLostOrDoubled == Spec => []NothingLostOrDoubled
<1>1. TransferInv => NothingLostOrDoubled  BY CopiesCounted DEF NothingLostOrDoubled
<1> QED  BY <1>1, TransferCorrect, PTL

-----------------------------------------------------------------------------
(***************************************************************************)
(* Amounts                                                                 *)
(***************************************************************************)

\* Transactions of either mode, and what each of them moves.
Priced(S) == IsFiniteSet(S) /\ \A c \in S : c.tx \in Tx

Amount(S) == [c \in S |-> Value[c.tx]]

\* The recursions behind both sums are the same function.
LEMMA AmountIsSum ==
  ASSUME NEW S, NEW T \in SUBSET S
  PROVE  Sum(T) = SumOf(Amount(S), T)
<1> DEFINE pick(s) == CHOOSE x \in s : TRUE
           v == Amount(S)
           P(f) == f = [s \in SUBSET T |-> IF s = {} THEN 0 ELSE Value[pick(s).tx] + f[s \ {pick(s)}]]
           Q(f) == f = [s \in SUBSET T |-> IF s = {} THEN 0 ELSE v[pick(s)] + f[s \ {pick(s)}]]
<1>1. Sum(T) = (CHOOSE f : P(f))[T]
  BY DEF Sum, MapThenSumSet, MapThenFoldSet
<1>2. SumOf(v, T) = (CHOOSE f : Q(f))[T]
  BY DEF SumOf, MapThenSumSet, MapThenFoldSet
<1>3. ASSUME NEW f PROVE P(f) <=> Q(f)
  <2>1. \A s \in SUBSET T : s # {} => Value[pick(s).tx] = v[pick(s)]
    BY DEF Amount
  <2> HIDE DEF v
  <2>2. [s \in SUBSET T |-> IF s = {} THEN 0 ELSE Value[pick(s).tx] + f[s \ {pick(s)}]]
          = [s \in SUBSET T |-> IF s = {} THEN 0 ELSE v[pick(s)] + f[s \ {pick(s)}]]
    BY <2>1
  <2> QED  BY <2>2
<1> HIDE DEF P, Q
<1>4. (CHOOSE f : P(f)) = (CHOOSE f : Q(f))  BY <1>3
<1> QED  BY <1>1, <1>2, <1>4

LEMMA AmountType ==
  ASSUME NEW S, Priced(S)
  PROVE  Amount(S) \in [S -> Nat] /\ IsFiniteSet(S)
BY TxAssumption DEF Amount, Priced

LEMMA AmountNat ==
  ASSUME NEW S, Priced(S), NEW T \in SUBSET S
  PROVE  Sum(T) \in Nat
BY AmountIsSum, AmountType, SumNat

LEMMA AmountEmpty == Sum({}) = 0
<1> DEFINE S == {}
<1>1. Priced(S)  BY FS_EmptySet DEF Priced
<1>2. S \in SUBSET S  OBVIOUS
<1> HIDE DEF S
<1>3. SumOf(Amount(S), {}) = 0  BY <1>1, AmountType, SumEmpty
<1>4. Sum(S) = SumOf(Amount(S), S)  BY <1>2, AmountIsSum
<1> QED  BY <1>3, <1>4 DEF S

LEMMA AmountUnion ==
  ASSUME NEW S, Priced(S), NEW T \in SUBSET S, NEW U \in SUBSET S, T \cap U = {}
  PROVE  Sum(T \cup U) = Sum(T) + Sum(U)
<1>1. T \cup U \in SUBSET S  OBVIOUS
<1>2. SumOf(Amount(S), T \cup U) = SumOf(Amount(S), T) + SumOf(Amount(S), U)
  BY AmountType, SumUnion
<1> QED  BY <1>1, <1>2, AmountIsSum

\* What is taken at most once from every transfer is no dearer than all
\* transfers together.
LEMMA AmountBound ==
  ASSUME NEW S, Priced(S), NEW T \in SUBSET S, \A c, d \in T : c.tx = d.tx => c = d
  PROVE  Sum(T) <= SumOf(Value, Tx)
<1> DEFINE amount == Amount(S)
           U == Units(amount, T)
           V == Units(Value, Tx)
           F == [u \in U |-> <<u[1].tx, u[2]>>]
<1>1. IsFiniteSet(Tx) /\ Value \in [Tx -> Nat]  BY TxAssumption
<1>2. SumOf(Value, Tx) = Cardinality(V) /\ IsFiniteSet(V)
  BY <1>1, SumIsUnits, UnitsFinite
<1>3. Sum(T) = Cardinality(U) /\ IsFiniteSet(U)
  BY AmountIsSum, AmountType, SumIsUnits, UnitsFinite
<1>4. \A u \in U : /\ u[1] \in T /\ u[2] \in 1 .. amount[u[1]]
                   /\ u = <<u[1], u[2]>>
  BY DEF Units
<1>5. \A u \in U : <<u[1].tx, u[2]>> \in V
  <2> SUFFICES ASSUME NEW u \in U PROVE <<u[1].tx, u[2]>> \in V  OBVIOUS
  <2>1. u[1] \in T /\ u[2] \in 1 .. amount[u[1]]  BY <1>4
  <2>2. u[1].tx \in Tx /\ amount[u[1]] = Value[u[1].tx]  BY <2>1 DEF Amount, Priced
  <2> QED  BY <2>1, <2>2 DEF Units
<1>6. \A u, w \in U : <<u[1].tx, u[2]>> = <<w[1].tx, w[2]>> => u = w
  <2> SUFFICES ASSUME NEW u \in U, NEW w \in U, <<u[1].tx, u[2]>> = <<w[1].tx, w[2]>>
               PROVE  u = w
    OBVIOUS
  <2>1. u[1].tx = w[1].tx /\ u[2] = w[2]  OBVIOUS
  <2>2. u[1] = w[1]  BY <2>1, <1>4
  <2> QED  BY <2>1, <2>2, <1>4
<1> HIDE DEF U, V
<1>7. F \in Injection(U, V)
  <2>1. F \in [U -> V]  BY <1>5
  <2>2. \A u, w \in U : F[u] = F[w] => u = w  BY <1>6
  <2> HIDE DEF F
  <2> QED  BY <2>1, <2>2 DEF Injection, IsInjective
<1>8. Cardinality(U) <= Cardinality(V)  BY <1>2, <1>7, FS_Injection
<1> QED  BY <1>2, <1>3, <1>8

LEMMA FundsSuffice ==
  InitBalance \in Nat /\ InitBalance >= SumOf(Value, Tx) /\ SumOf(Value, Tx) \in Nat
<1>1. InitBalance \in Nat /\ InitBalance > MapThenSumSet(LAMBDA t : Value[t], Tx)
  BY FundsAssumption, Zenon
<1>2. MapThenSumSet(LAMBDA t : Value[t], Tx) = SumOf(Value, Tx)  BY DEF SumOf
<1>3. SumOf(Value, Tx) \in Nat
  <2>1. Tx \in SUBSET Tx  OBVIOUS
  <2> QED  BY <2>1, TxAssumption, SumNat
<1>4. InitBalance > SumOf(Value, Tx)  BY <1>1, <1>2, Zenon
<1>5. InitBalance \in Nat  BY <1>1, Zenon
<1> QED  BY <1>3, <1>4, <1>5

LEMMA CopyPriced == Priced(Copy)
<1> DEFINE S == {"raw", "relay1", "relay2"}
           F == [p \in Tx \X S |-> [tx |-> p[1], stage |-> p[2]]]
<1>1. IsFiniteSet(S)
  <2>1. IsFiniteSet({"raw"}) /\ IsFiniteSet({"raw", "relay1"})
    BY FS_AddElement, FS_EmptySet, FS_Singleton
  <2>2. {"raw", "relay1"} = {"raw"} \cup {"relay1"} /\ S = {"raw", "relay1"} \cup {"relay2"}  OBVIOUS
  <2> QED  BY <2>1, <2>2, FS_AddElement
<1>2. IsFiniteSet(Tx \X S)  BY <1>1, TxAssumption, FS_Product
<1>3. F \in Surjection(Tx \X S, Copy)
  <2>1. \A p \in Tx \X S : F[p] \in Copy  BY DEF Copy
  <2>2. \A c \in Copy : \E p \in Tx \X S : F[p] = c
    <3> SUFFICES ASSUME NEW c \in Copy PROVE \E p \in Tx \X S : F[p] = c  OBVIOUS
    <3>1. <<c.tx, c.stage>> \in Tx \X S /\ c = [tx |-> c.tx, stage |-> c.stage]  BY DEF Copy
    <3> QED  BY <3>1
  <2> QED  BY <2>1, <2>2 DEF Surjection
<1>4. IsFiniteSet(Copy)  BY <1>2, <1>3, FS_Surjection
<1> QED  BY <1>4 DEF Priced, Copy

\* The transactions of a set that take from account x, and those that give.
Takes(T, x) == {c \in T : Sender[c.tx] = x /\ c.stage \in {"raw", "relay1"}}
Gives(T, x) == {c \in T : Recipient[c.tx] = x /\ c.stage \in {"raw", "relay2"}}

InChains == UNION {committed[s] : s \in Shard}

LEMMA LedgerIs ==
  ASSUME NEW x
  PROVE  LedgerBalance(x) = InitBalance - Sum(Takes(InChains, x)) + Sum(Gives(InChains, x))
BY DEF LedgerBalance, Takes, Gives, InChains

\* No account is ever overdrawn.
LEMMA LedgerNat ==
  ASSUME TransferInv, NEW x
  PROVE  LedgerBalance(x) \in Nat
<1>1. InChains \in SUBSET Copy  BY DEF InChains, TransferInv, TransferShape
<1> DEFINE T == Takes(InChains, x)
           G == Gives(InChains, x)
<1>2. T \in SUBSET Copy /\ G \in SUBSET Copy  BY <1>1 DEF Takes, Gives
<1>3. \A c, d \in T : c.tx = d.tx => c = d
  <2> SUFFICES ASSUME NEW c \in T, NEW d \in T, c.tx = d.tx, c.stage # d.stage PROVE FALSE
    BY <1>2, CopyType
  <2>1. ASSUME NEW u \in T, NEW v \in T, u.tx = v.tx, u.stage = "raw", v.stage = "relay1"
        PROVE  FALSE
    <3>1. u.tx \in Tx /\ u = [tx |-> u.tx, stage |-> "raw"] /\ v = [tx |-> u.tx, stage |-> "relay1"]
      BY <1>2, <2>1, CopyType
    <3>2. Halved(u.tx) /\ \E s \in Shard : u \in committed[s]
      BY <3>1 DEF Halved, Takes, InChains
    <3> QED  BY <3>1, <3>2 DEF TransferInv, StageInv
  <2> QED  BY <2>1 DEF Takes
<1> HIDE DEF T, G
<1>4. Sum(T) <= SumOf(Value, Tx)  BY <1>2, <1>3, CopyPriced, AmountBound
<1>5. InitBalance \in Nat /\ InitBalance >= SumOf(Value, Tx) /\ SumOf(Value, Tx) \in Nat
  BY FundsSuffice
<1>8. Sum(T) \in Nat /\ Sum(G) \in Nat  BY <1>2, CopyPriced, AmountNat
<1>9. LedgerBalance(x) = InitBalance - Sum(T) + Sum(G)  BY LedgerIs DEF T, G
<1> QED  BY <1>4, <1>5, <1>8, <1>9

-----------------------------------------------------------------------------
(***************************************************************************)
(* Where accounts are                                                      *)
(***************************************************************************)

\* The moves that lead from loc to the map of the supervisor.
Moves(loc) == [x \in Account |-> IF supLocation[x] = loc[x] THEN NoShard ELSE supLocation[x]]

\* A leader that is migrating, or about to hear of it, knows these moves.
MapsInv ==
    /\ supLocation \in [Account -> Shard]
    /\ location \in [Shard -> [Account -> Shard]]
    /\ \A s \in Shard : ready[s] => curModified[s] = Moves(location[s])
    /\ \A m \in net : m.type = "start" => m.modified = Moves(location[m.to])

\* A leader that has reported proposes no transactions before the migration
\* block is committed.
QuietInv == \A s \in Shard : chainEpoch[s] # supEpoch /\ Reported(s) => proposal[s].type # "tx"

MoveInv == MapsInv /\ QuietInv

\* A step that is not about the repartition.
Calm ==
    /\ UNCHANGED <<location, chainEpoch, ammVars, supLocation, supEpoch>>
    /\ \A m \in net' : m.type \in {"start", "states"} => m \in net
    /\ \A s \in Shard :
          \/ proposal'[s] = proposal[s]
          \/ proposal'[s].type = "none"
          \/ ~ready[s] /\ proposal'[s].type = "tx"

\* A leader that is not migrating has reported only if its chain is through.
LEMMA NotReported ==
  ASSUME IInv, NEW s \in Shard, ~ready[s], chainEpoch[s] # supEpoch
  PROVE  ~Reported(s)
<1>1. epoch[s] # supEpoch  BY DEF IInv, EpochInv
<1>2. s \notin Reporters(s)  BY DEF IInv, ReportInv, Reporters
<1>3. \A m \in net : m.type = "states" => m.body.src # s
  BY <1>1 DEF IInv, ReportInv, Current
<1> QED  BY <1>2, <1>3 DEF Reported

LEMMA CalmMoves ==
  ASSUME IInv, MoveInv, Calm
  PROVE  MoveInv'
<1> USE DEF Calm, ammVars
<1>1. MapsInv'
  <2>1. \A loc : Moves(loc)' = Moves(loc)  BY DEF Moves
  <2> QED  BY <2>1 DEF MoveInv, MapsInv
<1>2. QuietInv'
  <2> SUFFICES ASSUME NEW s \in Shard, chainEpoch[s] # supEpoch, Reported(s)'
               PROVE  proposal'[s].type # "tx"
    BY DEF QuietInv
  <2>1. Reported(s)  BY DEF Reported, Reporters
  <2>2. ready[s]  BY <2>1, NotReported
  <2> QED  BY <2>1, <2>2 DEF MoveInv, QuietInv
<1> QED  BY <1>1, <1>2 DEF MoveInv

\* CLPA moves no account to the shard where it is.
LEMMA MovesRepartition ==
  ASSUME IInv, MoveInv, Repartition
  PROVE  MoveInv'
<1> PICK modified \in CLPAPartition :
      /\ supLocation' = Relocated(supLocation, modified)
      /\ net' = net \cup [type : {"start"}, to : Shard, epoch : {supEpoch + 1},
                          modified : {modified}]
  BY DEF Repartition
<1>1. /\ epochSynced /\ supEpoch' = supEpoch + 1
      /\ UNCHANGED <<proposal, chainVars, ammVars>>
  BY DEF Repartition
<1>2. \A s \in Shard : chainEpoch[s] = supEpoch /\ ~ready[s] /\ location[s] = supLocation
  BY <1>1 DEF IInv, Shape, EpochInv, LocationInv
<1>3. \A m \in net : m.type # "start" /\ m.type # "states"
  BY <1>2 DEF IInv, Shape, EpochInv, StartInv, ReportInv
<1>4. \A m \in net' : \/ m \in net
                      \/ m.type = "start" /\ m.to \in Shard /\ m.modified = modified
  OBVIOUS
<1>5. /\ modified \in ModifiedMap
      /\ \A x \in Account : modified[x] # supLocation[x]
  BY DEF CLPAPartition
<1>6. supLocation' \in [Account -> Shard]
  BY <1>5 DEF Relocated, ModifiedMap, MoveInv, MapsInv
<1>7. \A loc : loc = supLocation => Moves(loc)' = modified
  <2> SUFFICES ASSUME NEW loc, loc = supLocation PROVE Moves(loc)' = modified  OBVIOUS
  <2>1. /\ supLocation \in [Account -> Shard]
        /\ modified \in [Account -> Shard \cup {NoShard}]
    BY <1>5 DEF ModifiedMap, MoveInv, MapsInv
  <2>2. \A x \in Account : supLocation'[x] = IF modified[x] = NoShard THEN supLocation[x] ELSE modified[x]
    BY DEF Relocated
  <2>3. Moves(loc)' = [x \in Account |-> IF supLocation'[x] = supLocation[x] THEN NoShard ELSE supLocation'[x]]
    BY DEF Moves
  <2>4. \A x \in Account :
          (IF supLocation'[x] = supLocation[x] THEN NoShard ELSE supLocation'[x]) = modified[x]
    BY <1>5, <2>1, <2>2, TxAssumption
  <2> QED  BY <2>1, <2>3, <2>4
<1>8. MapsInv'
  <2>1. location' \in [Shard -> [Account -> Shard]]  BY <1>1 DEF chainVars, MoveInv, MapsInv
  <2>2. \A s \in Shard : ~ready'[s]  BY <1>1, <1>2 DEF ammVars
  <2>3. ASSUME NEW m \in net', m.type = "start", NEW loc, loc = location'[m.to]
        PROVE  m.modified = Moves(loc)'
    <3>1. m.to \in Shard /\ m.modified = modified  BY <1>3, <1>4, <2>3
    <3>2. loc = supLocation  BY <1>1, <1>2, <2>3, <3>1 DEF chainVars
    <3> QED  BY <1>7, <3>1, <3>2
  <2>4. \A m \in net' : m.type = "start" => m.modified = Moves(location[m.to])'
    BY <2>3 DEF Moves
  <2> QED  BY <1>6, <2>1, <2>2, <2>4 DEF MapsInv
<1>9. QuietInv'
  <2>1. \A s \in Shard : collected[s] = {}  BY <1>2 DEF IInv, ReportInv
  <2>2. \A m \in net' : m.type # "states"  BY <1>3, <1>4
  <2>3. \A s \in Shard : chainEpoch'[s] # supEpoch' => ~Reported(s)'
    BY <1>1, <2>1, <2>2 DEF Reported, Reporters, chainVars, ammVars
  <2> QED  BY <2>3 DEF QuietInv
<1> QED  BY <1>8, <1>9 DEF MoveInv

LEMMA MovesStart ==
  ASSUME IInv, MoveInv, NEW m \in net, HandleRepartitionStart(m)
  PROVE  MoveInv'
<1> DEFINE s == m.to
           early == Early(s, m.epoch)
<1>1. m.type = "start" /\ net' = net \ {m} /\ UNCHANGED <<proposal, chainVars, supVars>>
  BY DEF HandleRepartitionStart
<1>2. s \in Shard /\ m.epoch = epoch[s] + 1  BY <1>1 DEF IInv, StartInv
<1>3. /\ curModified' = [curModified EXCEPT ![s] = m.modified]
      /\ ready'       = [ready EXCEPT ![s] = TRUE]
      /\ collected'   = [collected EXCEPT ![s] = @ \cup {u.body : u \in early}]
  BY <1>2 DEF HandleRepartitionStart
<1>4. MapsInv'
  <2>1. \A loc : Moves(loc)' = Moves(loc)  BY <1>1 DEF Moves, supVars
  <2>2. m.modified = Moves(location[s])  BY <1>1 DEF MoveInv, MapsInv
  <2>3. \A o \in Shard : ready'[o] => curModified'[o] = Moves(location[o])
    BY <1>2, <1>3, <2>2 DEF MoveInv, MapsInv, IInv, Shape
  <2>4. \A n \in net' : n.type = "start" => n.modified = Moves(location[n.to])
    BY <1>1 DEF MoveInv, MapsInv
  <2>5. UNCHANGED <<supLocation, location>>  BY <1>1 DEF chainVars, supVars
  <2> QED  BY <2>1, <2>3, <2>4, <2>5 DEF MoveInv, MapsInv
<1>5. QuietInv'
  <2>1. \A o \in Shard : Reported(o)' => Reported(o)
    <3>1. \A o \in Shard : o \in Reporters(o)' => o \in Reporters(o) \/ \E u \in unhandled[s] : u.body.src = o
      BY <1>2, <1>3 DEF Reporters, Early, IInv, Shape
    <3>2. \A u \in unhandled[s] : Reported(u.body.src)  BY <1>2 DEF IInv, ReportInv, Current
    <3> QED  BY <1>1, <3>1, <3>2 DEF Reported, chainVars, supVars
  <2> QED  BY <1>1, <2>1 DEF MoveInv, QuietInv, chainVars, supVars
<1> QED  BY <1>4, <1>5 DEF MoveInv

LEMMA MovesReport ==
  ASSUME IInv, MoveInv, NEW m \in net, HandleAccountMigration(m)
  PROVE  MoveInv'
<1>1. m.type = "states" /\ net' = net \ {m}
      /\ UNCHANGED <<proposal, chainVars, supVars, epoch, curModified, ready>>
  BY DEF HandleAccountMigration, ammVars
<1>2. m.to \in Shard /\ Reported(m.body.src)  BY <1>1 DEF IInv, ReportInv, Current
<1>3. \A o \in Shard : \A r \in collected'[o] : r \in collected[o] \/ r = m.body
  BY <1>2 DEF HandleAccountMigration, ammVars, IInv, Shape
<1>4. MapsInv'
  <2>1. \A loc : Moves(loc)' = Moves(loc)  BY <1>1 DEF Moves, supVars
  <2> QED  BY <1>1, <2>1 DEF MoveInv, MapsInv, chainVars, supVars
<1>5. QuietInv'
  <2>1. \A o \in Shard : Reported(o)' => Reported(o)
    BY <1>1, <1>2, <1>3 DEF Reported, Reporters, chainVars, supVars
  <2> QED  BY <1>1, <2>1 DEF MoveInv, QuietInv, chainVars, supVars
<1> QED  BY <1>4, <1>5 DEF MoveInv

LEMMA MovesMigrate ==
  ASSUME IInv, MoveInv, NEW s \in Shard, SendsReports(s), proposal[s].type # "tx"
  PROVE  MoveInv'
<1>1. \A m \in net' : \/ m \in net
                      \/ m.type \notin {"start", "states"}
                      \/ m.type = "states" /\ m.body.src = s
  BY DEF SendsReports, ReportTo
<1>2. UNCHANGED <<proposal, location, chainEpoch, ammVars, supLocation, supEpoch>>
  BY DEF SendsReports
<1>3. MapsInv'
  <2>1. \A loc : Moves(loc)' = Moves(loc)  BY <1>2 DEF Moves
  <2> QED  BY <1>1, <1>2, <2>1 DEF MoveInv, MapsInv, ammVars
<1>4. QuietInv'
  <2>1. \A o \in Shard : Reported(o)' => Reported(o) \/ o = s
    BY <1>1, <1>2 DEF Reported, Reporters, ammVars
  <2> QED  BY <1>2, <2>1 DEF MoveInv, QuietInv
<1> QED  BY <1>3, <1>4 DEF MoveInv

LEMMA MovesPropose ==
  ASSUME IInv, MoveInv, NEW s \in Shard, BuildMigrationProposal(s)
  PROVE  MoveInv'
<1> DEFINE b == [type |-> "migration", modified |-> MigratedAddrs(s),
                 states |-> [a \in Account |-> MigratedState(s, a)]]
<1>1. /\ proposal' = [proposal EXCEPT ![s] = b]
      /\ UNCHANGED <<chainVars, ammVars, supVars, net>>
  BY DEF BuildMigrationProposal
<1>2. b.type # "tx"  OBVIOUS
<1> HIDE DEF b
<1>3. \A o \in Shard : proposal'[o].type = "tx" => proposal'[o] = proposal[o]
  BY <1>1, <1>2 DEF IInv, Shape
<1>4. MapsInv'
  <2>1. \A loc : Moves(loc)' = Moves(loc)  BY <1>1 DEF Moves, supVars
  <2> QED  BY <1>1, <2>1 DEF MoveInv, MapsInv, chainVars, supVars, ammVars
<1>5. QuietInv'
  <2>1. \A o \in Shard : Reported(o)' <=> Reported(o)
    BY <1>1 DEF Reported, Reporters, chainVars, supVars, ammVars
  <2> QED  BY <1>1, <1>3, <2>1 DEF MoveInv, QuietInv, chainVars, supVars
<1> QED  BY <1>4, <1>5 DEF MoveInv

\* What the migration block changes; the shard is then where the supervisor is.
LEMMA MigrationIs ==
  ASSUME IInv, NEW s \in Shard, MigrationBlockCommit(s)
  PROVE  /\ ready[s] /\ Reporters(s) = Shard /\ chainEpoch[s] # supEpoch
         /\ proposal[s].modified = curModified[s]
         /\ proposal' = [proposal EXCEPT ![s] = NoBlock]
         /\ location' = [location EXCEPT ![s] = supLocation]
         /\ chainEpoch' = [chainEpoch EXCEPT ![s] = supEpoch]
         /\ collected' = [collected EXCEPT ![s] = {}]
         /\ ready' = [ready EXCEPT ![s] = FALSE]
         /\ curModified' = [curModified EXCEPT ![s] = NoMove]
         /\ \A o \in Shard : unhandled'[o] \subseteq unhandled[o]
         /\ unhandled[s] = {}
         /\ \A m \in net : m.type \in {"start", "states"} => m.to # s
         /\ UNCHANGED <<committed, epoch, supVars, net>>
<1>1. /\ ready[s] /\ Reporters(s) = Shard
      /\ proposal[s].modified = curModified[s]
  BY DEF MigrationBlockCommit, IInv, ProposalInv
<1>2. Relocated(location[s], curModified[s]) = supLocation  BY <1>1 DEF IInv, LocationInv
<1>3. epoch[s] = supEpoch /\ chainEpoch[s] # supEpoch
  BY <1>1 DEF IInv, Shape, EpochInv
<1>4. unhandled[s] = {}  BY <1>3 DEF IInv, ReportInv
<1>5. \A m \in net : m.type = "start" => m.to # s
  BY <1>3 DEF IInv, StartInv, Shape, EpochInv
<1>6. \A m \in net : m.type = "states" => m.to # s
  BY <1>1 DEF IInv, ReportInv, Current
<1>7. unhandled' = [unhandled EXCEPT ![s] = {u \in @ : u.epoch # epoch[s]}]
  BY DEF MigrationBlockCommit
<1>8. \A o \in Shard : unhandled'[o] \subseteq unhandled[o]
  BY <1>7 DEF IInv, Shape
<1> QED  BY <1>1, <1>2, <1>3, <1>4, <1>5, <1>6, <1>8 DEF MigrationBlockCommit

LEMMA MovesMigrationCommit ==
  ASSUME IInv, MoveInv, NEW s \in Shard, MigrationBlockCommit(s)
  PROVE  MoveInv'
<1>1. /\ proposal' = [proposal EXCEPT ![s] = NoBlock]
      /\ location' = [location EXCEPT ![s] = supLocation]
      /\ chainEpoch' = [chainEpoch EXCEPT ![s] = supEpoch]
      /\ collected' = [collected EXCEPT ![s] = {}]
      /\ ready' = [ready EXCEPT ![s] = FALSE]
      /\ curModified' = [curModified EXCEPT ![s] = NoMove]
      /\ \A m \in net : m.type \in {"start", "states"} => m.to # s
      /\ UNCHANGED <<supVars, net>>
  BY MigrationIs
<1>2. \A o \in Shard \ {s} :
         /\ proposal'[o] = proposal[o] /\ location'[o] = location[o]
         /\ chainEpoch'[o] = chainEpoch[o] /\ collected'[o] = collected[o]
         /\ ready'[o] = ready[o] /\ curModified'[o] = curModified[o]
  BY <1>1 DEF IInv, Shape
<1>3. proposal'[s].type # "tx" /\ chainEpoch'[s] = supEpoch /\ ~ready'[s]
  BY <1>1 DEF IInv, Shape, NoBlock
<1>4. MapsInv'
  <2>1. \A loc : Moves(loc)' = Moves(loc)  BY <1>1 DEF Moves, supVars
  <2>2. location' \in [Shard -> [Account -> Shard]]  BY <1>1 DEF MoveInv, MapsInv
  <2>3. \A o \in Shard : ready'[o] => curModified'[o] = Moves(location'[o])
    BY <1>2, <1>3 DEF MoveInv, MapsInv
  <2>4. \A m \in net : m.type = "start" => m.to \in Shard \ {s}  BY <1>1 DEF IInv, StartInv
  <2>5. \A m \in net : m.type = "start" => m.modified = Moves(location'[m.to])
    BY <1>2, <2>4 DEF MoveInv, MapsInv
  <2> QED  BY <1>1, <2>1, <2>2, <2>3, <2>5 DEF MoveInv, MapsInv, supVars
<1>5. QuietInv'
  <2>1. \A o \in Shard \ {s} : Reported(o)' => Reported(o)
    BY <1>1, <1>2 DEF Reported, Reporters, supVars
  <2> QED  BY <1>1, <1>2, <1>3, <2>1 DEF MoveInv, QuietInv, supVars
<1> QED  BY <1>4, <1>5 DEF MoveInv

-----------------------------------------------------------------------------
(***************************************************************************)
(* Where the money is                                                      *)
(***************************************************************************)

\* The shard that holds the money of x, by the supervisor's map: the new home
\* once its chain is through, until then the home by its old map.
OwnerOf(x) ==
    LET home == supLocation[x]
    IN  IF chainEpoch[home] = supEpoch THEN home ELSE location[home][x]

\* Account x moves from shard src to shard d, which still waits for it.
Brings(src, d, x) == location[d][x] = src /\ src # d /\ supLocation[x] = d

\* What the blocks of all chains say an account has is led here: how it is
\* computed differs from mode to mode, what a migration does with it does not.
\* A report tells the balances of the accounts that move and nothing of others.
Told(led, src, d, states) ==
    states = [x \in Account |-> IF Brings(src, d, x) THEN led[x] ELSE NoState]

StatesInv(led) ==
    /\ \A m \in net : m.type = "states" => Told(led, m.body.src, m.to, m.body.states)
    /\ \A s \in Shard :
          /\ \A r \in collected[s] : Told(led, r.src, s, r.states)
          /\ \A u \in unhandled[s] : Told(led, u.body.src, s, u.body.states)
          /\ proposal[s].type = "migration" =>
                \A x \in Account : location[s][x] # s /\ supLocation[x] = s =>
                    proposal[s].states[x] = led[x]

BalanceInv(led) ==
    /\ DOMAIN balance = Shard
    /\ \A x \in Account : balance[OwnerOf(x)][x] = led[x]

MoneyInv(led) == StatesInv(led) /\ BalanceInv(led)

LEMMA ToldSame ==
  ASSUME NEW led, UNCHANGED <<location, supLocation>>
  PROVE  \A src, d, states : Told(led, src, d, states)' <=> Told(led, src, d, states)
BY DEF Told, Brings

LEMMA OwnerSame ==
  ASSUME UNCHANGED <<location, supLocation, chainEpoch, supEpoch>>
  PROVE  \A x : OwnerOf(x)' = OwnerOf(x)
BY DEF OwnerOf

LEMMA ToldOf ==
  ASSUME NEW led, NEW src, NEW d, NEW states, Told(led, src, d, states), NEW x \in Account
  PROVE  states[x] = IF Brings(src, d, x) THEN led[x] ELSE NoState
BY DEF Told

LEMMA MovesOf ==
  ASSUME MoveInv, NEW s \in Shard, ready[s], NEW x \in Account
  PROVE  curModified[s][x] = IF supLocation[x] = location[s][x] THEN NoShard ELSE supLocation[x]
<1>1. curModified[s] = Moves(location[s])  BY DEF MoveInv, MapsInv
<1> QED  BY <1>1 DEF Moves

\* While no chain is through, all have the same map.
LEMMA SameMaps ==
  ASSUME IInv, \A o \in Shard : chainEpoch[o] # supEpoch,
         NEW s \in Shard, NEW d \in Shard
  PROVE  location[s] = location[d]
<1>1. \A o \in Shard : chainEpoch[o] + 1 = supEpoch
  BY DEF IInv, Shape, EpochInv
<1>2. chainEpoch[s] = chainEpoch[d]  BY <1>1 DEF IInv, Shape
<1> QED  BY <1>2 DEF IInv, LocationInv

\* Once one chain is through, every shard has reported.
LEMMA AllReported ==
  ASSUME IInv, NEW s \in Shard, ~Reported(s)
  PROVE  \A o \in Shard : chainEpoch[o] # supEpoch
BY DEF IInv, ReportInv

\* A step without blocks and balances that leaves the maps alone.
LEMMA MoneyStays ==
  ASSUME NEW led, MoneyInv(led),
         UNCHANGED <<location, supLocation, chainEpoch, supEpoch, balance>>,
         \A m \in net' : m.type = "states" => m \in net \/ Told(led, m.body.src, m.to, m.body.states),
         \A s \in Shard :
            /\ \A r \in collected'[s] : r \in collected[s] \/ Told(led, r.src, s, r.states)
            /\ \A u \in unhandled'[s] : u \in unhandled[s] \/ Told(led, u.body.src, s, u.body.states)
            /\ \/ proposal'[s] = proposal[s]
               \/ proposal'[s].type # "migration"
               \/ \A x \in Account : location[s][x] # s /\ supLocation[x] = s =>
                      proposal'[s].states[x] = led[x]
  PROVE  MoneyInv(led)'
<1>1. StatesInv(led)'
  <2>1. \A src, d, states : Told(led, src, d, states)' <=> Told(led, src, d, states)  BY ToldSame
  <2>2. \A m \in net' : m.type = "states" => Told(led, m.body.src, m.to, m.body.states)'
    BY <2>1 DEF MoneyInv, StatesInv
  <2>3. \A s \in Shard : /\ \A r \in collected'[s] : Told(led, r.src, s, r.states)'
                         /\ \A u \in unhandled'[s] : Told(led, u.body.src, s, u.body.states)'
    BY <2>1 DEF MoneyInv, StatesInv
  <2>4. \A s \in Shard : proposal'[s].type = "migration" =>
           \A x \in Account : location[s][x] # s /\ supLocation[x] = s =>
               proposal'[s].states[x] = led[x]
    BY DEF MoneyInv, StatesInv
  <2> QED  BY <2>2, <2>3, <2>4 DEF StatesInv
<1>2. BalanceInv(led)'
  BY OwnerSame DEF MoneyInv, BalanceInv
<1> QED  BY <1>1, <1>2 DEF MoneyInv

LEMMA MoneyStart ==
  ASSUME IInv, NEW led, MoneyInv(led), NEW m \in net, HandleRepartitionStart(m)
  PROVE  MoneyInv(led)'
<1> DEFINE s == m.to
           early == Early(s, m.epoch)
<1>1. m.type = "start" /\ net' = net \ {m} /\ UNCHANGED <<proposal, chainVars, supVars>>
  BY DEF HandleRepartitionStart
<1>2. s \in Shard /\ m.epoch = epoch[s] + 1  BY <1>1 DEF IInv, StartInv
<1>3. /\ collected'   = [collected EXCEPT ![s] = @ \cup {u.body : u \in early}]
      /\ unhandled'   = [unhandled EXCEPT ![s] = @ \ early]
  BY <1>2 DEF HandleRepartitionStart
<1>4. \A o \in Shard : \A r \in collected'[o] :
         r \in collected[o] \/ (o = s /\ \E u \in unhandled[s] : r = u.body)
  BY <1>2, <1>3 DEF Early, IInv, Shape
<1>5. \A o \in Shard : \A r \in collected'[o] : r \in collected[o] \/ Told(led, r.src, o, r.states)
  BY <1>2, <1>4 DEF MoneyInv, StatesInv
<1>6. \A o \in Shard : unhandled'[o] \subseteq unhandled[o]
  BY <1>2, <1>3 DEF IInv, Shape
<1> QED  BY <1>1, <1>5, <1>6, MoneyStays DEF chainVars, supVars

LEMMA MoneyReport ==
  ASSUME IInv, NEW led, MoneyInv(led), NEW m \in net, HandleAccountMigration(m)
  PROVE  MoneyInv(led)'
<1>1. m.type = "states" /\ net' = net \ {m}
      /\ UNCHANGED <<proposal, chainVars, supVars>>
  BY DEF HandleAccountMigration
<1>2. m.to \in Shard  BY <1>1 DEF IInv, ReportInv
<1>3. Told(led, m.body.src, m.to, m.body.states)  BY <1>1 DEF MoneyInv, StatesInv
<1>4. \A o \in Shard : /\ \A r \in collected'[o] : r \in collected[o] \/ (o = m.to /\ r = m.body)
                       /\ \A u \in unhandled'[o] : u \in unhandled[o] \/ (o = m.to /\ u = m)
  BY <1>2 DEF HandleAccountMigration, ammVars, IInv, Shape
<1> QED  BY <1>1, <1>3, <1>4, MoneyStays DEF chainVars, supVars

\* What a leader reports is the money as the blocks have it: no chain is
\* through, so it still holds the accounts it hands over.
LEMMA MoneyMigrate ==
  ASSUME IInv, MoveInv, NEW led, MoneyInv(led), NEW s \in Shard, SendsReports(s), UNCHANGED balance
  PROVE  MoneyInv(led)'
<1>2. \A m \in net' : m \in net \/ m.type # "states" \/ \E d \in Shard : m = ReportTo(s, d)
  BY DEF SendsReports
<1>3. /\ ready[s] /\ s \notin Reporters(s)
      /\ \A m \in net : m.type = "states" => ~(m.body.src = s /\ m.to = s)
      /\ UNCHANGED <<proposal, location, chainEpoch, ammVars, supLocation, supEpoch, balance>>
  BY DEF SendsReports
<1>4. chainEpoch[s] # supEpoch  BY <1>3 DEF IInv, EpochInv, Shape
<1>5. ~Reported(s)  BY <1>3, <1>4 DEF Reported
<1>6. \A o \in Shard : chainEpoch[o] # supEpoch  BY <1>5, AllReported
<1>7. \A o \in Shard : location[o] = location[s]  BY <1>6, SameMaps
<1>8. ASSUME NEW d \in Shard
      PROVE  Told(led, s, d, MigratedStates(s, d))
  <2> SUFFICES ASSUME NEW x \in Account
               PROVE  (IF location[s][x] = s /\ curModified[s][x] = d THEN balance[s][x] ELSE NoState)
                        = (IF Brings(s, d, x) THEN led[x] ELSE NoState)
    BY DEF Told, MigratedStates
  <2>1. curModified[s][x] = IF supLocation[x] = location[s][x] THEN NoShard ELSE supLocation[x]
    BY <1>3, MovesOf
  <2>2. location[s][x] = s /\ curModified[s][x] = d <=> Brings(s, d, x)
    BY <1>7, <2>1, TxAssumption DEF Brings
  <2>3. Brings(s, d, x) => OwnerOf(x) = s  BY <1>6 DEF OwnerOf, Brings
  <2>4. Brings(s, d, x) => balance[s][x] = led[x]
    BY <2>3 DEF MoneyInv, BalanceInv
  <2> QED  BY <2>2, <2>4
<1>9. \A d \in Shard : Told(led, ReportTo(s, d).body.src, ReportTo(s, d).to, ReportTo(s, d).body.states)
  BY <1>8 DEF ReportTo
<1>10. \A m \in net' : m.type = "states" => m \in net \/ Told(led, m.body.src, m.to, m.body.states)
  BY <1>2, <1>9
<1> QED  BY <1>3, <1>10, MoneyStays DEF ammVars

\* Each account that arrives was reported, by the shard that had it and by
\* nobody else.
LEMMA MoneyPropose ==
  ASSUME IInv, MoveInv, NEW led \in [Account -> Nat], MoneyInv(led), NEW s \in Shard, BuildMigrationProposal(s)
  PROVE  MoneyInv(led)'
<1> DEFINE st == [x \in Account |-> MigratedState(s, x)]
           b == [type |-> "migration", modified |-> MigratedAddrs(s), states |-> st]
<1>1. /\ proposal' = [proposal EXCEPT ![s] = b]
      /\ Reporters(s) = Shard
      /\ UNCHANGED <<chainVars, ammVars, supVars, net>>
  BY DEF BuildMigrationProposal
<1>2. b.states = st  OBVIOUS
<1>3. ASSUME NEW x \in Account, location[s][x] # s, supLocation[x] = s
      PROVE  st[x] = led[x]
  <2> DEFINE src == location[s][x]
             reports == {r \in collected[s] : r.states[x] # NoState}
  <2>1. src \in Shard  BY DEF MoveInv, MapsInv
  <2>2. PICK r \in collected[s] : r.src = src  BY <1>1, <2>1 DEF Reporters
  <2>3. led[x] # NoState
    <3>1. led[x] \in Nat  OBVIOUS
    <3> QED  BY <3>1 DEF NoState
  <2>4. \A q \in collected[s] : q.states[x] = IF Brings(q.src, s, x) THEN led[x] ELSE NoState
    BY ToldOf DEF MoneyInv, StatesInv
  <2>5. r \in reports
    <3>1. Brings(src, s, x)  BY <1>3 DEF Brings
    <3> QED  BY <2>2, <2>3, <2>4, <3>1
  <2>6. \A q \in reports : q.states[x] = led[x]  BY <2>4
  <2>7. MigratedState(s, x) = IF reports = {} THEN InitBalance ELSE (CHOOSE q \in reports : TRUE).states[x]
    BY DEF MigratedState
  <2> HIDE DEF reports
  <2>8. (CHOOSE q \in reports : TRUE) \in reports  BY <2>5
  <2> QED  BY <2>5, <2>6, <2>7, <2>8
<1> HIDE DEF st, b
<1>4. \A o \in Shard : proposal'[o] = proposal[o] \/ (o = s /\ proposal'[o] = b)
  BY <1>1 DEF IInv, Shape
<1>5. \A o \in Shard :
        \/ proposal'[o] = proposal[o]
        \/ \A x \in Account : location[o][x] # o /\ supLocation[x] = o =>
               proposal'[o].states[x] = led[x]
  BY <1>2, <1>3, <1>4
<1> QED  BY <1>1, <1>5, MoneyStays DEF chainVars, supVars, ammVars

\* The migration block brings in the reported money.
LEMMA MoneyMigrationCommit ==
  ASSUME IInv, MoveInv, NEW led, MoneyInv(led), NEW s \in Shard, MigrationBlockCommit(s)
  PROVE  MoneyInv(led)'
<1>1. /\ ready[s] /\ chainEpoch[s] # supEpoch
      /\ proposal[s].modified = curModified[s]
      /\ proposal' = [proposal EXCEPT ![s] = NoBlock]
      /\ location' = [location EXCEPT ![s] = supLocation]
      /\ chainEpoch' = [chainEpoch EXCEPT ![s] = supEpoch]
      /\ collected' = [collected EXCEPT ![s] = {}]
      /\ \A o \in Shard : unhandled'[o] \subseteq unhandled[o]
      /\ unhandled[s] = {}
      /\ \A m \in net : m.type = "states" => m.to # s
      /\ UNCHANGED <<committed, supVars, net>>
  BY MigrationIs
<1>2. /\ proposal[s].type = "migration"
      /\ balance' = [balance EXCEPT ![s] =
            [x \in Account |-> IF proposal[s].modified[x] = s
                               THEN proposal[s].states[x] ELSE balance[s][x]]]
  BY DEF MigrationBlockCommit
<1>3. \A o \in Shard \ {s} :
         /\ proposal'[o] = proposal[o] /\ location'[o] = location[o]
         /\ chainEpoch'[o] = chainEpoch[o] /\ collected'[o] = collected[o]
         /\ balance'[o] = balance[o]
  BY <1>1, <1>2 DEF IInv, Shape, MoneyInv, BalanceInv
<1>4. /\ proposal'[s] = NoBlock /\ location'[s] = supLocation /\ chainEpoch'[s] = supEpoch
      /\ collected'[s] = {}
      /\ unhandled'[s] = {}
      /\ \A x \in Account : balance'[s][x] = IF proposal[s].modified[x] = s
                                             THEN proposal[s].states[x] ELSE balance[s][x]
  BY <1>1, <1>2 DEF IInv, Shape, MoneyInv, BalanceInv
<1>5. UNCHANGED <<supLocation, supEpoch>>  BY <1>1 DEF supVars
<1>6. \A d \in Shard \ {s} : \A src, states : Told(led, src, d, states)' <=> Told(led, src, d, states)
  BY <1>1, <1>3, <1>5 DEF Told, Brings
<1>7. StatesInv(led)'
  <2>1. \A m \in net : m.type = "states" => m.to \in Shard \ {s}  BY <1>1 DEF IInv, ReportInv
  <2>2. \A m \in net' : m.type = "states" => Told(led, m.body.src, m.to, m.body.states)'
    BY <1>1, <1>6, <2>1 DEF MoneyInv, StatesInv
  <2>3. \A o \in Shard \ {s} : /\ \A r \in collected'[o] : Told(led, r.src, o, r.states)'
                               /\ \A u \in unhandled'[o] : Told(led, u.body.src, o, u.body.states)'
    BY <1>1, <1>3, <1>6 DEF MoneyInv, StatesInv
  <2>4. \A o \in Shard \ {s} : proposal'[o].type = "migration" =>
           \A x \in Account : location'[o][x] # o /\ supLocation'[x] = o =>
               proposal'[o].states[x] = led[x]
    BY <1>1, <1>3, <1>5 DEF MoneyInv, StatesInv
  <2>5. proposal'[s].type # "migration"  BY <1>4 DEF NoBlock
  <2> QED  BY <1>4, <2>2, <2>3, <2>4, <2>5 DEF StatesInv
<1>8. ASSUME NEW x \in Account PROVE balance'[OwnerOf(x)'][x] = led[x]
  <2>1. supLocation[x] \in Shard /\ location[s][x] \in Shard  BY DEF MoveInv, MapsInv
  <2>2. balance[OwnerOf(x)][x] = led[x]  BY DEF MoneyInv, BalanceInv
  <2>3. proposal[s].modified[x] = IF supLocation[x] = location[s][x] THEN NoShard ELSE supLocation[x]
    BY <1>1, MovesOf
  <2>4. CASE supLocation[x] = s
    <3>1. OwnerOf(x)' = s  BY <1>4, <1>5, <2>4 DEF OwnerOf
    <3>2. CASE location[s][x] = s
      <4>1. OwnerOf(x) = s  BY <1>1, <2>4, <3>2 DEF OwnerOf
      <4>2. proposal[s].modified[x] # s  BY <2>3, <2>4, <3>2, TxAssumption
      <4> QED  BY <1>4, <2>2, <3>1, <4>1, <4>2
    <3>3. CASE location[s][x] # s
      <4>1. proposal[s].modified[x] = s  BY <2>3, <2>4, <3>3
      <4>2. proposal[s].states[x] = led[x]
        BY <1>2, <2>4, <3>3 DEF MoneyInv, StatesInv
      <4> QED  BY <1>4, <3>1, <4>1, <4>2
    <3> QED  BY <3>2, <3>3
  <2>5. CASE supLocation[x] # s
    <3>1. OwnerOf(x)' = OwnerOf(x)  BY <1>3, <1>5, <2>1, <2>5 DEF OwnerOf
    <3>2. OwnerOf(x) \in Shard  BY <2>1 DEF OwnerOf, MoveInv, MapsInv
    <3>3. proposal[s].modified[x] # s  BY <2>3, <2>5, TxAssumption
    <3> QED  BY <1>3, <1>4, <2>2, <3>1, <3>2, <3>3
  <2> QED  BY <2>4, <2>5
<1>9. BalanceInv(led)'
  <2>1. DOMAIN balance' = Shard  BY <1>2 DEF MoneyInv, BalanceInv
  <2> QED  BY <1>1, <1>8, <2>1 DEF BalanceInv
<1> QED  BY <1>7, <1>9 DEF MoneyInv

\* The next repartition begins with the money where the accounts are.
LEMMA MoneyRepartition ==
  ASSUME IInv, MoveInv, NEW led, MoneyInv(led), Repartition, MoveInv'
  PROVE  MoneyInv(led)'
<1> PICK modified \in CLPAPartition :
      net' = net \cup [type : {"start"}, to : Shard, epoch : {supEpoch + 1},
                       modified : {modified}]
  BY DEF Repartition
<1>1. /\ epochSynced /\ supEpoch' = supEpoch + 1
      /\ UNCHANGED <<proposal, chainVars, ammVars>>
  BY DEF Repartition
<1>2. \A s \in Shard : /\ chainEpoch[s] = supEpoch /\ epoch[s] = supEpoch
                       /\ ~ready[s] /\ location[s] = supLocation
  BY <1>1 DEF IInv, Shape, EpochInv, LocationInv
<1>3. \A m \in net' : m.type # "states"
  BY <1>2 DEF IInv, ReportInv
<1>4. StatesInv(led)'
  <2>1. \A s \in Shard : collected[s] = {} /\ unhandled[s] = {}
    BY <1>2 DEF IInv, ReportInv
  <2>2. \A s \in Shard : proposal[s].type # "migration"  BY <1>2 DEF IInv, ProposalInv
  <2> QED  BY <1>1, <1>3, <2>1, <2>2 DEF StatesInv, ammVars
<1>5. \A s \in Shard : chainEpoch'[s] # supEpoch'
  BY <1>1, <1>2 DEF chainVars, IInv, Shape
<1>6. ASSUME NEW x \in Account PROVE OwnerOf(x)' = OwnerOf(x)
  <2>1. supLocation[x] \in Shard /\ supLocation'[x] \in Shard  BY DEF MoveInv, MapsInv
  <2>2. OwnerOf(x) = supLocation[x]  BY <1>2, <2>1 DEF OwnerOf
  <2>3. OwnerOf(x)' = location'[supLocation'[x]][x]  BY <1>5, <2>1 DEF OwnerOf
  <2> QED  BY <1>1, <1>2, <2>1, <2>2, <2>3 DEF chainVars
<1>7. BalanceInv(led)'  BY <1>1, <1>6 DEF chainVars, MoneyInv, BalanceInv
<1> QED  BY <1>4, <1>7 DEF MoneyInv

\* A shard that commits transactions about x holds the money of x, and nobody
\* has reported it.
LEMMA OwnerCommits ==
  ASSUME IInv, MoveInv, NEW s \in Shard, proposal[s].type = "tx",
         NEW x \in Account, location[s][x] = s
  PROVE  /\ OwnerOf(x) = s
         /\ \A src, d \in Shard : chainEpoch[d] # supEpoch /\ Reported(src) => ~Brings(src, d, x)
<1>1. supLocation[x] \in Shard  BY DEF MoveInv, MapsInv
<1>2. CASE chainEpoch[s] = supEpoch
  <2>1. supLocation[x] = s  BY <1>2 DEF IInv, LocationInv
  <2> QED  BY <1>2, <2>1 DEF OwnerOf, Brings
<1>3. CASE chainEpoch[s] # supEpoch
  <2>1. ~Reported(s)  BY <1>3 DEF MoveInv, QuietInv
  <2>2. \A o \in Shard : chainEpoch[o] # supEpoch  BY <2>1, AllReported
  <2>3. \A o \in Shard : location[o][x] = s  BY <2>2, SameMaps
  <2> QED  BY <1>1, <2>1, <2>2, <2>3 DEF OwnerOf, Brings
<1> QED  BY <1>2, <1>3

\* A block of shard s changes balances as it changes led, and only those of
\* accounts that are there.
Executes(s, led, after) ==
    /\ proposal[s].type = "tx"
    /\ proposal' = [proposal EXCEPT ![s] = NoBlock]
    /\ \A m \in net' : m.type = "states" => m \in net
    /\ UNCHANGED <<location, chainEpoch, ammVars, supLocation, supEpoch>>
    /\ DOMAIN balance' = Shard
    /\ \A o \in Shard \ {s} : balance'[o] = balance[o]
    /\ \A x \in Account :
          /\ location[s][x] # s => after[x] = led[x]
          /\ balance[s][x] = led[x] => balance'[s][x] = after[x]

\* No reported balance is among those.
LEMMA MoneyCommit ==
  ASSUME IInv, MoveInv, NEW led, NEW after, MoneyInv(led),
         NEW s \in Shard, Executes(s, led, after)
  PROVE  MoneyInv(after)'
<1> USE DEF Executes
<1>1. \A x \in Account : location[s][x] # s => after[x] = led[x]  OBVIOUS
<1>2. ASSUME NEW src \in Shard, NEW d \in Shard, NEW states, Told(led, src, d, states),
             chainEpoch[d] # supEpoch, Reported(src)
      PROVE  Told(after, src, d, states)'
  <2>1. \A x \in Account : Brings(src, d, x) => after[x] = led[x]
    BY <1>1, <1>2, OwnerCommits
  <2>2. \A x : Brings(src, d, x)' <=> Brings(src, d, x)  BY DEF Brings
  <2> QED  BY <1>2, <2>1, <2>2 DEF Told
<1>3. StatesInv(after)'
  <2>1. ASSUME NEW m \in net', m.type = "states"
        PROVE  Told(after, m.body.src, m.to, m.body.states)'
    <3>1. m \in net  BY <2>1
    <3>2. /\ m.to \in Shard /\ chainEpoch[m.to] # supEpoch
          /\ m.body.src \in Shard /\ Reported(m.body.src)
      BY <2>1, <3>1 DEF IInv, ReportInv, Current
    <3>3. Told(led, m.body.src, m.to, m.body.states)  BY <2>1, <3>1 DEF MoneyInv, StatesInv
    <3> QED  BY <1>2, <3>2, <3>3
  <2>2. ASSUME NEW o \in Shard, NEW r \in collected'[o] PROVE Told(after, r.src, o, r.states)'
    <3>1. r \in collected[o]  BY <2>2 DEF ammVars
    <3>2. ready[o] /\ r.src \in Shard /\ Reported(r.src)  BY <3>1 DEF IInv, ReportInv, Current
    <3>3. chainEpoch[o] # supEpoch  BY <3>2 DEF IInv, Shape, EpochInv
    <3>4. Told(led, r.src, o, r.states)  BY <3>1 DEF MoneyInv, StatesInv
    <3> QED  BY <1>2, <3>2, <3>3, <3>4
  <2>3. ASSUME NEW o \in Shard, NEW u \in unhandled'[o] PROVE Told(after, u.body.src, o, u.body.states)'
    <3>1. u \in unhandled[o]  BY <2>3 DEF ammVars
    <3>2. epoch[o] # supEpoch /\ u.body.src \in Shard /\ Reported(u.body.src)
      BY <3>1 DEF IInv, ReportInv, Current
    <3>3. chainEpoch[o] # supEpoch  BY <3>2 DEF IInv, Shape, EpochInv
    <3>4. Told(led, u.body.src, o, u.body.states)  BY <3>1 DEF MoneyInv, StatesInv
    <3> QED  BY <1>2, <3>2, <3>3, <3>4
  <2>4. ASSUME NEW o \in Shard, proposal'[o].type = "migration",
               NEW x \in Account, location[o][x] # o, supLocation[x] = o
        PROVE  proposal'[o].states[x] = after[x]
    <3>1. proposal'[o] = proposal[o]  BY <2>4 DEF NoBlock, IInv, Shape
    <3>2. proposal[o].states[x] = led[x]  BY <2>4, <3>1 DEF MoneyInv, StatesInv
    <3>3. ready[o] /\ Reporters(o) = Shard  BY <2>4, <3>1 DEF IInv, ProposalInv
    <3>4. chainEpoch[o] # supEpoch  BY <3>3 DEF IInv, Shape, EpochInv
    <3>5. \A src \in Shard : Reported(src)  BY <3>3 DEF IInv, ReportInv, Current, Reporters
    <3>6. location[o][x] \in Shard  BY DEF MoveInv, MapsInv
    <3>7. Brings(location[o][x], o, x)  BY <2>4 DEF Brings
    <3>8. location[s][x] # s  BY <3>4, <3>5, <3>6, <3>7, OwnerCommits
    <3> QED  BY <1>1, <3>1, <3>2, <3>8
  <2> QED  BY <2>1, <2>2, <2>3, <2>4 DEF StatesInv
<1>4. BalanceInv(after)'
  <2>1. \A x \in Account : OwnerOf(x)' = OwnerOf(x)  BY OwnerSame
  <2>2. ASSUME NEW x \in Account PROVE balance'[OwnerOf(x)][x] = after[x]
    <3>1. balance[OwnerOf(x)][x] = led[x]  BY DEF MoneyInv, BalanceInv
    <3>2. OwnerOf(x) \in Shard  BY DEF OwnerOf, MoveInv, MapsInv
    <3>3. location[s][x] = s => OwnerOf(x) = s  BY OwnerCommits
    <3> QED  BY <3>1, <3>2, <3>3
  <2> QED  BY <2>1, <2>2 DEF BalanceInv
<1> QED  BY <1>3, <1>4 DEF MoneyInv

\* No step of a migration, and no step that is about transactions and commits
\* none, changes what led says.
LEMMA MigrationKeeps ==
  ASSUME IInv, MoveInv, NEW led \in [Account -> Nat], MoneyInv(led),
         \/ Calm /\ UNCHANGED balance
         \/ Repartition
         \/ \E m \in net : HandleRepartitionStart(m) \/ HandleAccountMigration(m)
         \/ \E s \in Shard :
              \/ SendsReports(s) /\ proposal[s].type # "tx" /\ UNCHANGED balance
              \/ BuildMigrationProposal(s)
              \/ MigrationBlockCommit(s)
  PROVE  MoveInv' /\ MoneyInv(led)'
<1>1. CASE Calm /\ UNCHANGED balance
  <2>1. /\ UNCHANGED <<location, supLocation, chainEpoch, supEpoch, collected, unhandled>>
        /\ \A m \in net' : m.type = "states" => m \in net
    BY <1>1 DEF Calm, ammVars
  <2>2. \A s \in Shard : proposal'[s] = proposal[s] \/ proposal'[s].type # "migration"
    BY <1>1 DEF Calm
  <2>3. MoneyInv(led)'  BY <1>1, <2>1, <2>2, MoneyStays
  <2> QED  BY <1>1, <2>3, CalmMoves
<1>2. CASE Repartition
  BY <1>2, MovesRepartition, MoneyRepartition
<1>3. ASSUME NEW m \in net, HandleRepartitionStart(m) \/ HandleAccountMigration(m)
      PROVE  MoveInv' /\ MoneyInv(led)'
  BY <1>3, MovesStart, MoneyStart, MovesReport, MoneyReport
<1>4. ASSUME NEW s \in Shard, SendsReports(s), proposal[s].type # "tx", UNCHANGED balance
      PROVE  MoveInv' /\ MoneyInv(led)'
  BY <1>4, MovesMigrate, MoneyMigrate
<1>5. ASSUME NEW s \in Shard, BuildMigrationProposal(s) \/ MigrationBlockCommit(s)
      PROVE  MoveInv' /\ MoneyInv(led)'
  BY <1>5, MovesPropose, MoneyPropose, MovesMigrationCommit, MoneyMigrationCommit
<1> QED  BY <1>1, <1>2, <1>3, <1>4, <1>5

\* By the newest chain or by the supervisor's map: the money is in one place.
LEMMA HolderIs ==
  ASSUME IInv, MoveInv, NEW x \in Account
  PROVE  Holder(x) = OwnerOf(x)
<1>1. \A s \in Shard : chainEpoch[s] \in Nat /\ supEpoch \in Nat
                       /\ chainEpoch[s] <= supEpoch /\ supEpoch <= chainEpoch[s] + 1
  BY DEF IInv, Shape, EpochInv
<1>2. supLocation[x] \in Shard  BY DEF MoveInv, MapsInv
<1>3. \E s \in Shard : \A o \in Shard : chainEpoch[o] <= chainEpoch[s]
  <2>1. CASE \E s \in Shard : chainEpoch[s] = supEpoch  BY <1>1, <2>1
  <2>2. CASE \A s \in Shard : chainEpoch[s] # supEpoch  BY <1>1, <1>2, <2>2
  <2> QED  BY <2>1, <2>2
<1>4. Newest \in Shard /\ \A o \in Shard : chainEpoch[o] <= chainEpoch[Newest]
  BY <1>3 DEF Newest
<1>5. CASE chainEpoch[Newest] = supEpoch
  <2>1. location[Newest] = supLocation  BY <1>4, <1>5 DEF IInv, LocationInv
  <2> QED  BY <1>5, <2>1 DEF Holder, OwnerOf
<1>6. CASE chainEpoch[Newest] # supEpoch
  <2>1. \A o \in Shard : chainEpoch[o] # supEpoch  BY <1>1, <1>4, <1>6
  <2>2. \A o \in Shard : chainEpoch[o] = chainEpoch[Newest]  BY <1>1, <1>4, <2>1
  <2>3. \A o \in Shard : location[o] = location[Newest]  BY <1>4, <2>1, SameMaps
  <2>4. location[Newest][x] \in Shard  BY <1>4 DEF MoveInv, MapsInv
  <2> QED  BY <1>2, <2>1, <2>2, <2>3, <2>4 DEF Holder, OwnerOf
<1> QED  BY <1>5, <1>6

\* A migration block is no block of transactions.
LEMMA MigrationIsNoTx ==
  ASSUME IInv, NEW s \in Shard, BuildMigrationProposal(s) \/ MigrationBlockCommit(s)
  PROVE  \A o \in Shard : \/ proposal'[o].type # "tx"
                          \/ location'[o] = location[o] /\ proposal'[o] = proposal[o]
<1>1. CASE BuildMigrationProposal(s)
  <2>1. /\ proposal' = [proposal EXCEPT ![s] = proposal'[s]] /\ proposal'[s].type = "migration"
        /\ UNCHANGED location
    BY <1>1 DEF BuildMigrationProposal, chainVars, IInv, Shape
  <2> QED  BY <2>1 DEF IInv, Shape
<1>2. CASE MigrationBlockCommit(s)
  BY <1>2 DEF MigrationBlockCommit, NoBlock, IInv, Shape
<1> QED  BY <1>1, <1>2

-----------------------------------------------------------------------------
(***************************************************************************)
(* The blocks of the relay mode                                            *)
(***************************************************************************)

\* A block only touches accounts that are in its shard.
LocalIn(s, c) ==
    /\ location[s][KeyAcc(c)] = s
    /\ c.stage = "raw" => location[s][Recipient[c.tx]] = s

LocalInv ==
    \A s \in Shard : proposal[s].type = "tx" => \A c \in proposal[s].txs : LocalIn(s, c)

LEMMA LocalKept ==
  ASSUME LocalInv,
         \A s \in Shard :
            \/ proposal'[s].type # "tx"
            \/ /\ location'[s] = location[s]
               /\ proposal'[s] = proposal[s] \/ \A c \in proposal'[s].txs : LocalIn(s, c)
  PROVE  LocalInv'
<1>1. \A s \in Shard : proposal'[s].type = "tx" =>
         location'[s] = location[s] /\ \A c \in proposal'[s].txs : LocalIn(s, c)
  BY DEF LocalInv
<1> QED  BY <1>1 DEF LocalInv, LocalIn, KeyAcc

LEMMA LedgerNext ==
  ASSUME NEW x
  PROVE  LedgerBalance(x)' = InitBalance - Sum(Takes(InChains', x)) + Sum(Gives(InChains', x))
BY DEF LedgerBalance, Takes, Gives, InChains

LEMMA LedgerSame ==
  ASSUME UNCHANGED committed
  PROVE  \A x : LedgerBalance(x)' = LedgerBalance(x)
<1>1. InChains' = InChains  BY DEF InChains
<1>2. \A x : LedgerBalance(x)' = InitBalance - Sum(Takes(InChains', x)) + Sum(Gives(InChains', x))
  BY LedgerNext
<1> QED  BY <1>1, <1>2, LedgerIs

\* What a block takes and gives belongs to its shard.
LEMMA DebitIs ==
  ASSUME TransferInv, LocalInv, NEW s \in Shard, proposal[s].type = "tx", NEW x
  PROVE  LET txs == proposal[s].txs
         IN  /\ Debit(s, txs, x) = Sum(Takes(txs, x))
             /\ Credit(s, txs, x) = Sum(Gives(txs, x))
             /\ location[s][x] # s => Takes(txs, x) = {} /\ Gives(txs, x) = {}
<1> DEFINE txs == proposal[s].txs
<1>1. txs \in SUBSET Copy  BY DEF TransferInv, TransferShape
<1>2. ASSUME NEW c \in txs
      PROVE  /\ c.stage \in {"raw", "relay1"} => location[s][Sender[c.tx]] = s
             /\ c.stage \in {"raw", "relay2"} => location[s][Recipient[c.tx]] = s
  BY DEF LocalInv, LocalIn, KeyAcc
<1>3. {c \in txs : Sender[c.tx] = x /\ (c.stage = "raw" \/ (c.stage = "relay1" /\ location[s][x] = s))}
        = Takes(txs, x)
  BY <1>2 DEF Takes
<1>4. {c \in txs : Recipient[c.tx] = x /\ (c.stage = "raw" \/ (c.stage = "relay2" /\ location[s][x] = s))}
        = Gives(txs, x)
  BY <1>2 DEF Gives
<1>5. location[s][x] # s => Takes(txs, x) = {} /\ Gives(txs, x) = {}
  BY <1>2 DEF Takes, Gives
<1> QED  BY <1>3, <1>4, <1>5 DEF Debit, Credit

\* No transaction is committed twice.
LEMMA CommittedOnce ==
  ASSUME TransferInv, NEW s \in Shard, proposal[s].type = "tx"
  PROVE  proposal[s].txs \cap InChains = {}
<1> SUFFICES ASSUME NEW c \in proposal[s].txs, NEW o \in Shard, c \in committed[o] PROVE FALSE
  BY DEF InChains
<1>1. c \in Copy  BY DEF TransferInv, TransferShape
<1>2. c.tx \in Tx /\ c = [tx |-> c.tx, stage |-> c.stage] /\ c.stage \in {"raw", "relay1", "relay2"}
  BY <1>1, CopyType
<1> DEFINE t == c.tx
           p == <<"block", s, c>>
<1>3. p \in Places(t)  BY <1>1, PlacesNow DEF AtBlock, InBlock
<1>4. ~Done(t)  BY <1>2, <1>3 DEF TransferInv, PlaceInv
<1>5. c.stage = "relay1"  BY <1>2, <1>4 DEF Done
<1>6. Halved(t)  BY <1>2, <1>5 DEF Halved
<1>7. p[3] = c  OBVIOUS
<1> HIDE DEF p
<1>8. p[3].stage = "relay2"  BY <1>2, <1>3, <1>6 DEF TransferInv, StageInv
<1> QED  BY <1>5, <1>7, <1>8

LEMMA LedgerAfter ==
  ASSUME TransferInv, NEW s \in Shard, BlockCommitAndDeliver(s), NEW x
  PROVE  LedgerBalance(x)' = LedgerBalance(x) - Sum(Takes(proposal[s].txs, x))
                                              + Sum(Gives(proposal[s].txs, x))
<1> DEFINE txs == proposal[s].txs
           T == Takes(InChains, x)
           U == Takes(txs, x)
           G == Gives(InChains, x)
           H == Gives(txs, x)
<1>1. /\ proposal[s].type = "tx" /\ txs \in SUBSET Copy
      /\ committed' = [committed EXCEPT ![s] = committed[s] \cup txs]
  BY CommitIs DEF TransferInv
<1>2. InChains' = InChains \cup txs
  <2>1. DOMAIN committed = Shard  BY DEF TransferInv, TransferShape
  <2>2. \A c : (\E o \in Shard : c \in committed'[o]) <=> (\E o \in Shard : c \in committed[o]) \/ c \in txs
    BY <1>1, <2>1
  <2> QED  BY <2>2 DEF InChains
<1>3. Takes(InChains', x) = T \cup U /\ Gives(InChains', x) = G \cup H
  BY <1>2 DEF Takes, Gives
<1>4. T \cap U = {} /\ G \cap H = {}
  BY <1>1, CommittedOnce DEF Takes, Gives
<1>5. InChains \in SUBSET Copy  BY DEF TransferInv, TransferShape, InChains
<1>6. T \in SUBSET Copy /\ U \in SUBSET Copy /\ G \in SUBSET Copy /\ H \in SUBSET Copy
  BY <1>1, <1>5 DEF Takes, Gives
<1> HIDE DEF T, U, G, H, txs
<1>7. Sum(T \cup U) = Sum(T) + Sum(U) /\ Sum(G \cup H) = Sum(G) + Sum(H)
  BY <1>4, <1>6, CopyPriced, AmountUnion
<1>8. Sum(T) \in Nat /\ Sum(U) \in Nat /\ Sum(G) \in Nat /\ Sum(H) \in Nat
  BY <1>6, CopyPriced, AmountNat
<1>9. LedgerBalance(x) = InitBalance - Sum(T) + Sum(G)  BY LedgerIs DEF T, G
<1>10. LedgerBalance(x)' = InitBalance - (Sum(T) + Sum(U)) + (Sum(G) + Sum(H))
  BY <1>3, <1>7, LedgerNext
<1>11. InitBalance \in Nat  BY FundsAssumption, Zenon
<1>12. LedgerBalance(x)' = LedgerBalance(x) - Sum(U) + Sum(H)
  BY <1>8, <1>9, <1>10, <1>11
<1> QED  BY <1>12 DEF U, H, txs

\* What the blocks of all shards say every account owns.
Ledger == [x \in Account |-> LedgerBalance(x)]

\* What the shards know of the money, with all it rests on.
FundsInv == IInv /\ TransferInv /\ MoveInv /\ LocalInv /\ MoneyInv(Ledger)

LEMMA LedgerType ==
  ASSUME TransferInv
  PROVE  Ledger \in [Account -> Nat]
BY LedgerNat DEF Ledger

\* The value that stands for the ledger of the next state.
LEMMA MoneyNext ==
  ASSUME NEW led, led = Ledger', MoneyInv(led)'
  PROVE  MoneyInv(Ledger)'
<1>1. \A src, d, states : Told(led, src, d, states)' <=> Told(Ledger, src, d, states)'
  BY DEF Told
<1>2. StatesInv(Ledger)'  BY <1>1 DEF MoneyInv, StatesInv
<1>3. BalanceInv(Ledger)'  BY DEF MoneyInv, BalanceInv
<1> QED  BY <1>2, <1>3 DEF MoneyInv

LEMMA FundsInit == Init => FundsInv
<1> SUFFICES ASSUME Init PROVE FundsInv  OBVIOUS
<1>1. IInv /\ TransferInv  BY InitIInv, TransferInit
<1> USE DEF Init
<1>2. MapsInv  BY TxAssumption DEF MapsInv
<1>3. LocalInv /\ QuietInv  BY DEF LocalInv, QuietInv, NoBlock
<1>4. StatesInv(Ledger)  BY DEF StatesInv, NoBlock
<1>5. InChains = {}  BY DEF InChains
<1>6. \A x : LedgerBalance(x) = InitBalance
  <2> SUFFICES ASSUME NEW x PROVE LedgerBalance(x) = InitBalance  OBVIOUS
  <2>1. Takes(InChains, x) = {} /\ Gives(InChains, x) = {}  BY <1>5 DEF Takes, Gives
  <2>2. LedgerBalance(x) = InitBalance - 0 + 0  BY <2>1, LedgerIs, AmountEmpty
  <2>3. InitBalance \in Nat  BY FundsAssumption, Zenon
  <2> QED  BY <2>2, <2>3
<1>7. \A x \in Account : OwnerOf(x) \in Shard  BY TxAssumption DEF OwnerOf
<1>8. BalanceInv(Ledger)  BY <1>6, <1>7 DEF BalanceInv, Ledger
<1> QED  BY <1>1, <1>2, <1>3, <1>4, <1>8 DEF FundsInv, MoveInv, MoneyInv

\* The proposed block only touches accounts of the shard.
LEMMA FundsBuild ==
  ASSUME FundsInv, NEW s \in Shard, BuildBlockProposal(s)
  PROVE  Calm /\ LocalInv'
<1>1. PICK txs \in SUBSET pool[s] :
        /\ proposal' = [proposal EXCEPT ![s] =
              [type |-> "tx", txs |-> {ModifyTxRelayOpt(s, c) : c \in Local(s, txs)}]]
        /\ net' = net \cup SendTxs([c \in txs \ Local(s, txs) |-> location[s][KeyAcc(c)]])
  BY BuildIs
<1>2. ~ready[s] /\ UNCHANGED <<chainVars, ammVars, supVars>>  BY DEF BuildBlockProposal
<1>3. ASSUME NEW c \in Local(s, txs)
      PROVE  LocalIn(s, ModifyTxRelayOpt(s, c))
  <2>1. c \in Copy /\ location[s][KeyAcc(c)] = s
    BY DEF FundsInv, TransferInv, TransferShape, Local
  <2>2. c.stage \in {"raw", "relay1", "relay2"}  BY <2>1, CopyType
  <2> DEFINE d == ModifyTxRelayOpt(s, c)
  <2>3. /\ d.tx = c.tx
        /\ c.stage # "raw" => d = c
        /\ c.stage = "raw" => d.stage \in {"raw", "relay1"}
        /\ c.stage = "raw" /\ d.stage = "raw" => location[s][Recipient[c.tx]] = s
    BY <2>1, PackedIs
  <2> HIDE DEF d
  <2>4. LocalIn(s, d)  BY <2>1, <2>2, <2>3 DEF LocalIn, KeyAcc
  <2> QED  BY <2>4 DEF d
<1>4. \A o \in Shard : \/ proposal'[o] = proposal[o]
                       \/ /\ o = s /\ proposal'[s].type = "tx"
                          /\ proposal'[s].txs = {ModifyTxRelayOpt(s, c) : c \in Local(s, txs)}
  BY <1>1 DEF FundsInv, IInv, Shape
<1>5. \A m \in net' : m \in net \/ m.type = "txs"  BY <1>1, OnlyTxsSent
<1>6. Calm  BY <1>2, <1>4, <1>5 DEF Calm, chainVars, supVars
<1>7. \A o \in Shard : proposal'[o] = proposal[o] \/ \A c \in proposal'[o].txs : LocalIn(o, c)
  BY <1>3, <1>4
<1>8. LocalInv'  BY <1>2, <1>7, LocalKept DEF FundsInv, chainVars
<1> QED  BY <1>6, <1>8

\* The committed block changes balances and ledger alike.
LEMMA FundsCommit ==
  ASSUME FundsInv, NEW s \in Shard, BlockCommitAndDeliver(s), TransferInv'
  PROVE  MoveInv' /\ LocalInv' /\ MoneyInv(Ledger)'
<1> DEFINE txs == proposal[s].txs
<1> USE DEF FundsInv
<1>1. /\ proposal[s].type = "tx" /\ txs \in SUBSET Copy
      /\ proposal' = [proposal EXCEPT ![s] = NoBlock]
  BY CommitIs DEF TransferInv
<1>2. \A m \in net' : m.type \in {"start", "states"} => m \in net
  <2>1. PICK infos, out : /\ \A m \in infos : m.type = "info"
                          /\ net' = net \cup infos \cup SendTxs(out)
    BY CommitIs DEF TransferInv
  <2> QED  BY <2>1, OnlyTxsSent
<1>3. /\ balance' = [balance EXCEPT ![s] =
             [a \in Account |-> balance[s][a] - Debit(s, txs, a) + Credit(s, txs, a)]]
      /\ UNCHANGED <<location, chainEpoch, ammVars, supLocation, supEpoch>>
  BY DEF BlockCommitAndDeliver, supVars
<1>4. \A o \in Shard : proposal'[o] = proposal[o] \/ proposal'[o].type = "none"
  BY <1>1 DEF NoBlock, IInv, Shape
<1>5. MoveInv'
  <2>1. Calm  BY <1>2, <1>3, <1>4 DEF Calm
  <2> QED  BY <2>1, CalmMoves
<1>6. LocalInv'  BY <1>3, <1>4, LocalKept
<1> PICK led : led = Ledger  OBVIOUS
<1> PICK after : after = Ledger'  OBVIOUS
<1>7. /\ \A x \in Account : led[x] = LedgerBalance(x) /\ led[x] \in Nat
      /\ \A x \in Account : after[x] = LedgerBalance(x)'
      /\ MoneyInv(led)
  BY LedgerNat DEF Ledger
<1>8. ASSUME NEW x \in Account
      PROVE  /\ Debit(s, txs, x) \in Nat /\ Credit(s, txs, x) \in Nat
             /\ location[s][x] # s => Debit(s, txs, x) = 0 /\ Credit(s, txs, x) = 0
             /\ after[x] = led[x] - Debit(s, txs, x) + Credit(s, txs, x)
  <2>1. /\ Debit(s, txs, x) = Sum(Takes(txs, x)) /\ Credit(s, txs, x) = Sum(Gives(txs, x))
        /\ location[s][x] # s => Takes(txs, x) = {} /\ Gives(txs, x) = {}
    BY <1>1, DebitIs
  <2>2. LedgerBalance(x)' = LedgerBalance(x) - Sum(Takes(txs, x)) + Sum(Gives(txs, x))
    BY LedgerAfter
  <2>3. Takes(txs, x) \in SUBSET Copy /\ Gives(txs, x) \in SUBSET Copy
    BY <1>1 DEF Takes, Gives
  <2>4. Sum(Takes(txs, x)) \in Nat /\ Sum(Gives(txs, x)) \in Nat  BY <2>3, CopyPriced, AmountNat
  <2> QED  BY <1>7, <2>1, <2>2, <2>4, AmountEmpty
<1>9. /\ DOMAIN balance' = Shard
      /\ \A o \in Shard \ {s} : balance'[o] = balance[o]
      /\ \A x \in Account : balance'[s][x] = balance[s][x] - Debit(s, txs, x) + Credit(s, txs, x)
  BY <1>3, <1>7 DEF MoneyInv, BalanceInv
<1>10. \A x \in Account :
         /\ location[s][x] # s => after[x] = led[x]
         /\ balance[s][x] = led[x] => balance'[s][x] = after[x]
  BY <1>7, <1>8, <1>9
<1>11. /\ \A m \in net' : m.type = "states" => m \in net
       /\ UNCHANGED <<location, chainEpoch, ammVars, supLocation, supEpoch>>
  BY <1>2, <1>3
<1>12. Executes(s, led, after)  BY <1>1, <1>9, <1>10, <1>11 DEF Executes
<1>13. MoneyInv(after)'  BY <1>7, <1>12, MoneyCommit
<1> QED  BY <1>5, <1>6, <1>13, MoneyNext

LEMMA FundsNext == FundsInv /\ [Next]_vars => FundsInv'
<1> SUFFICES ASSUME FundsInv, [Next]_vars PROVE FundsInv'  OBVIOUS
<1>1. IInv' /\ TransferInv'  BY NextIInv, TransferNext DEF FundsInv
<1> SUFFICES MoveInv' /\ LocalInv' /\ MoneyInv(Ledger)'  BY <1>1 DEF FundsInv
<1>2. CASE \E s \in Shard : BlockCommitAndDeliver(s)
  BY <1>1, <1>2, FundsCommit
<1>3. CASE ~\E s \in Shard : BlockCommitAndDeliver(s)
  <2> PICK led : led = Ledger  OBVIOUS
  <2>1. led \in [Account -> Nat] /\ MoneyInv(led)  BY LedgerType DEF FundsInv
  <2>2. UNCHANGED committed
    BY <1>3 DEF Next, Supervisor, Receive, Leader, ReadTxsAndSend, Repartition, HandleBlockInfo, Stop,
                HandleReceiveTxs, HandleRepartitionStart, HandleAccountMigration, BuildBlockProposal,
                MigrateAccounts, BuildMigrationProposal, MigrationBlockCommit, vars, chainVars
  <2>3. led = Ledger'  BY <2>2, LedgerSame DEF Ledger
  <2>4. MoveInv /\ IInv /\ LocalInv  BY DEF FundsInv
  <2>5. /\ MoveInv' /\ MoneyInv(led)'
        /\ LocalInv'
    <3>1. CASE Supervisor
      <4>1. CASE ReadTxsAndSend
        <5>1. \A m \in net' : m \in net \/ m.type = "txs"
          BY <4>1, OnlyTxsSent DEF ReadTxsAndSend
        <5>2. Calm /\ UNCHANGED <<location, proposal, balance>>
          BY <4>1, <5>1 DEF ReadTxsAndSend, Calm, chainVars
        <5> QED  BY <5>2, <2>1, <2>4, MigrationKeeps, LocalKept
      <4>2. CASE Repartition
        <5>1. UNCHANGED <<location, proposal>>  BY <4>2 DEF Repartition, chainVars
        <5> QED  BY <4>2, <5>1, <2>1, <2>4, MigrationKeeps, LocalKept
      <4>3. CASE (\E m \in net : HandleBlockInfo(m)) \/ Stop
        <5>1. Calm /\ UNCHANGED <<location, proposal, balance>>
          BY <4>3 DEF HandleBlockInfo, Stop, Calm, chainVars
        <5> QED  BY <5>1, <2>1, <2>4, MigrationKeeps, LocalKept
      <4> QED  BY <3>1, <4>1, <4>2, <4>3 DEF Supervisor
    <3>2. ASSUME NEW m \in net, HandleReceiveTxs(m)
          PROVE  MoveInv' /\ MoneyInv(led)' /\ LocalInv'
      <4>1. Calm /\ UNCHANGED <<location, proposal, balance>>
        BY <3>2 DEF HandleReceiveTxs, Calm, chainVars, supVars
      <4> QED  BY <4>1, <2>1, <2>4, MigrationKeeps, LocalKept
    <3>3. ASSUME NEW m \in net, HandleRepartitionStart(m) \/ HandleAccountMigration(m)
          PROVE  MoveInv' /\ MoneyInv(led)' /\ LocalInv'
      <4>1. UNCHANGED <<location, proposal>>
        BY <3>3 DEF HandleRepartitionStart, HandleAccountMigration, chainVars
      <4>2. LocalInv'  BY <4>1, <2>4, LocalKept
      <4> QED  BY <3>3, <4>2, <2>1, <2>4, MigrationKeeps
    <3>4. ASSUME NEW s \in Shard, BuildBlockProposal(s)
          PROVE  MoveInv' /\ MoneyInv(led)' /\ LocalInv'
      <4>1. Calm /\ LocalInv'  BY <3>4, FundsBuild
      <4>2. UNCHANGED balance  BY <3>4 DEF BuildBlockProposal, chainVars
      <4> QED  BY <4>1, <4>2, <2>1, <2>4, MigrationKeeps
    <3>5. ASSUME NEW s \in Shard, MigrateAccounts(s)
          PROVE  MoveInv' /\ MoneyInv(led)' /\ LocalInv'
      <4>1. SendsReports(s)  BY <3>5, MigrateSends
      <4>2. proposal[s].type # "tx" /\ UNCHANGED <<location, proposal, balance>>
        BY <3>5 DEF MigrateAccounts, NoBlock, chainVars
      <4> QED  BY <4>1, <4>2, <2>1, <2>4, MigrationKeeps, LocalKept
    <3>6. ASSUME NEW s \in Shard, BuildMigrationProposal(s) \/ MigrationBlockCommit(s)
          PROVE  MoveInv' /\ MoneyInv(led)' /\ LocalInv'
      <4>1. LocalInv'  BY <3>6, <2>4, MigrationIsNoTx, LocalKept
      <4> QED  BY <3>6, <4>1, <2>1, <2>4, MigrationKeeps
    <3>7. CASE UNCHANGED vars
      <4>1. Calm /\ UNCHANGED <<location, proposal, balance>>
        BY <3>7 DEF vars, Calm, chainVars, supVars
      <4> QED  BY <4>1, <2>1, <2>4, MigrationKeeps, LocalKept
    <3> QED
      <4>1. CASE \E s \in Shard : Receive(s)  BY <4>1, <3>2, <3>3 DEF Receive
      <4>2. CASE \E s \in Shard : Leader(s)  BY <4>2, <1>3, <3>4, <3>5, <3>6 DEF Leader
      <4> QED  BY <3>1, <3>7, <4>1, <4>2 DEF Next
  <2> QED  BY <2>3, <2>5, MoneyNext
<1> QED  BY <1>2, <1>3

LEMMA FundsCorrect == Spec => []FundsInv
BY FundsInit, FundsNext, PTL DEF Spec

\* For any accounts, transfers, shards and repartitions, the balance of every
\* account, at the shard that holds it, is what the blocks of all shards add up
\* to: no transfer is executed on a state that was already handed over, none is
\* skipped because its account has moved, and a migration brings along the
\* balance as it was.
THEOREM BalancesAlwaysMatchLedger == Spec => []BalancesMatchLedger
<1>1. FundsInv => BalancesMatchLedger
  BY HolderIs DEF FundsInv, MoneyInv, BalanceInv, BalancesMatchLedger, Ledger
<1> QED  BY <1>1, FundsCorrect, PTL

==============================================================================

------------------------------ MODULE BrokerEpochs ------------------------------
(***************************************************************************)
(* Broker transfers between accounts that move (clpa_broker): the          *)
(* committee of supervisor/committee/clpabroker.go and the broker half of  *)
(* consensus/pbft/insideop/dynamicshardop.go.                              *)
(*                                                                         *)
(* The code shares the repartition protocol with clpa_relay, and so does   *)
(* this module: the messages and blocks of a migration are the actions of  *)
(* RelayShards.  What differs is the transactions.  The supervisor cuts a  *)
(* transfer between shards into two halves; an inner transfer whose        *)
(* accounts have been separated goes back to it; and nothing but the books *)
(* of the broker manager knows which half comes next.                      *)
(***************************************************************************)
EXTENDS RelayShards

CONSTANTS
    Broker,
    NoBroker,           \* not a broker: an inner transfer
    Supervisor0,        \* not a shard: supervisorShardID
    BrokerInitBalance   \* BrokerInitBalanceStr

\* The committee picks brokers at random and never asks what they have; their
\* initial balance (10^36) is more than all transfers, so none is left with
\* nothing and deleted by the chain.  Brokers make no transfers of their own,
\* so CLPA does not know them and they do not move.
ASSUME BrokerAssumption ==
    /\ IsFiniteSet(Broker) /\ Broker # {} /\ NoBroker \notin Broker
    /\ Supervisor0 \notin Shard
    /\ BrokerInitBalance \in Nat
    /\ BrokerInitBalance > MapThenSumSet(LAMBDA t : Value[t], Tx)

BrokerCopy ==
         [tx : Tx, stage : {"inner"}, broker : {NoBroker}]
    \cup [tx : Tx, stage : {"broker1", "broker2"}, broker : Broker]

\* txInfoStage: a transfer the manager has a record of, and the half it
\* waits for.
TxInfoStage == [tx : Tx, broker : Broker, confirmStage : {1, 2}]

BrokerMessage ==
         [type : {"txs"}, to : Shard, txs : SUBSET BrokerCopy]
    \cup [type : {"start"}, to : Shard, epoch : Nat, modified : ModifiedMap]
    \cup [type : {"states"}, to : Shard, epoch : Nat, body : Report]
    \cup [type : {"info"}, shard : Shard, epoch : Nat, txs : SUBSET BrokerCopy]
    \cup [type : {"again"}, txs : SUBSET Tx]

VARIABLES
    unconfirmed,        \* unconfirmedTxInfo
    readyBroker1,       \* readyBroker1TxHashes
    readyBroker2,       \* readyBroker2TxHashes
    brokerBalance       \* brokerBalance[s][b]: money of b in the state of s

bookVars   == <<unconfirmed, readyBroker1, readyBroker2>>
brokerVars == <<vars, bookVars, brokerBalance>>

BrokerTypeOK ==
    /\ pool        \in [Shard -> SUBSET BrokerCopy]
    /\ \A s \in Shard : proposal[s] \in Block \/
                        (proposal[s].type = "tx" /\ proposal[s].txs \subseteq BrokerCopy)
    /\ committed   \in [Shard -> SUBSET BrokerCopy]
    /\ balance     \in [Shard -> [Account -> Nat]]
    /\ net         \subseteq BrokerMessage
    /\ unconfirmed \subseteq TxInfoStage
    /\ readyBroker1 \subseteq Tx /\ readyBroker2 \subseteq Tx
    /\ brokerBalance \in [Shard -> [Broker -> Nat]]

BrokerInit ==
    /\ Init
    /\ unconfirmed = {}
    /\ readyBroker1 = {}
    /\ readyBroker2 = {}
    /\ brokerBalance = [s \in Shard |-> [b \in Broker |-> BrokerInitBalance]]

-----------------------------------------------------------------------------
(***************************************************************************)
(* The supervisor                                                          *)
(***************************************************************************)

\* CreateRawTxsRandomBroker: a record with some broker for every transfer.  A
\* transfer that has a record is refused (BooksFollowChains: that never happens).
RawTxs(txs) ==
    LET new == {t \in txs : \A i \in unconfirmed : i.tx # t}
    IN  {{[tx |-> t, broker |-> f[t], confirmStage |-> 1] : t \in new} : f \in [new -> Broker]}

\* Mutant of Half: the second half does not wait for the first.
HalfEarly(records, txs, n, stage) ==
    {[tx |-> i.tx, stage |-> stage, broker |-> i.broker] :
        i \in {j \in records : j.tx \in txs \/ n = 2}}

\* createBroker1Tx and createBroker2Tx for the transfers on a ready list.
Half(records, txs, n, stage) ==
    {[tx |-> i.tx, stage |-> stage, broker |-> i.broker] :
        i \in {j \in records : j.tx \in txs /\ j.confirmStage = n}}

\* getTxLocByCLPAState
LocByCLPAState(c) ==
    IF c.stage = "broker2" THEN supLocation[Recipient[c.tx]] ELSE supLocation[Sender[c.tx]]

\* readTxsAndSend, once the epochs are in sync.
BrokerReadTxsAndSend ==
    /\ ~stopped
    /\ epochSynced \/ EpochsReached
    /\ epochSynced' = TRUE
    /\ \E txs \in SUBSET unsent :
         LET cross == {t \in txs : supLocation[Sender[t]] # supLocation[Recipient[t]]}
             inner == [tx : txs \ cross, stage : {"inner"}, broker : {NoBroker}]
         IN  /\ Cardinality(txs) = Min({TxInjectionSpeed, Cardinality(unsent)})
             /\ unsent' = unsent \ txs
             /\ \E new \in RawTxs(cross) :
                  LET known == unconfirmed \cup new
                      sent  == inner \cup Half(known, readyBroker1 \cup {i.tx : i \in new}, 1, "broker1")
                                     \cup Half(known, readyBroker2, 2, "broker2")
                  IN  /\ unconfirmed' = known
                      /\ net' = net \cup SendTxs([c \in sent |-> LocByCLPAState(c)])
    /\ readyBroker1' = {}
    /\ readyBroker2' = {}
    /\ UNCHANGED <<pool, proposal, chainVars, ammVars, supLocation, supEpoch, shardEpoch,
                   stopCnt, stopped, brokerBalance>>

\* Mutant of Confirmed: a report is taken whatever the manager waits for.
ConfirmedAny(records, txs, n, stage) ==
    {i \in records : \E c \in txs : c.tx = i.tx /\ c.stage \in {"broker1", "broker2"}}

\* ConfirmBrokerTx: the records that a reported half finds waiting for it.
Confirmed(records, txs, n, stage) ==
    {i \in records : i.confirmStage = n /\ \E c \in txs : c.tx = i.tx /\ c.stage = stage}

\* handleBlockInfoMsg.  stopCnt counts no further than the threshold it is
\* compared with.
HandleBrokerBlockInfo(m) ==
    /\ ~stopped
    /\ net' = net \ {m}
    /\ shardEpoch' = [shardEpoch EXCEPT ![m.shard] = Max({@, m.epoch})]
    /\ stopCnt' = CASE unsent = {} /\ m.txs = {} -> Min({stopCnt + 1, StopThreshold})
                    [] unsent = {} /\ m.txs # {} -> 0
                    [] OTHER -> stopCnt
    /\ LET first  == Confirmed(unconfirmed, m.txs, 1, "broker1")
           after  == (unconfirmed \ first) \cup {[i EXCEPT !.confirmStage = 2] : i \in first}
           second == Confirmed(after, m.txs, 2, "broker2")
       IN  /\ unconfirmed' = after \ second
           /\ readyBroker2' = readyBroker2 \cup {i.tx : i \in first}
    /\ UNCHANGED <<pool, proposal, chainVars, ammVars, unsent, supLocation, supEpoch,
                   epochSynced, stopped, readyBroker1, brokerBalance>>

\* handleTxSendAgainMsg
HandleTxSendAgain(m) ==
    /\ ~stopped
    /\ net' = net \ {m}
    /\ \E new \in RawTxs(m.txs) :
         /\ unconfirmed' = unconfirmed \cup new
         /\ readyBroker1' = readyBroker1 \cup {i.tx : i \in new}
    /\ UNCHANGED <<pool, proposal, chainVars, ammVars, supVars, readyBroker2, brokerBalance>>

-----------------------------------------------------------------------------
(***************************************************************************)
(* The leaders                                                             *)
(***************************************************************************)

\* Mutant of DestLoc: an inner transfer follows its sender.
DestLocOfSender(loc, c) == IF c.stage = "broker2" THEN loc[Recipient[c.tx]] ELSE loc[Sender[c.tx]]

\* Where a transaction belongs when the accounts are at loc.
DestLoc(loc, c) ==
    CASE c.stage = "broker1" -> loc[Sender[c.tx]]
      [] c.stage = "broker2" -> loc[Recipient[c.tx]]
      [] c.stage = "inner"   -> IF loc[Sender[c.tx]] = loc[Recipient[c.tx]]
                                THEN loc[Sender[c.tx]] ELSE Supervisor0

\* SendWrappedTxs2Shards and brokerCLPATxSendAgain for what does not stay.  A
\* stopped supervisor has closed its connection.
SendAway(s, txs, loc) ==
    LET again == {c \in txs : DestLoc(loc, c) = Supervisor0}
        away  == {c \in txs : DestLoc(loc, c) \in Shard \ {s}}
    IN  SendTxs([c \in away |-> DestLoc(loc, c)])
          \cup (IF again = {} \/ stopped THEN {}
                ELSE {[type |-> "again", txs |-> {c.tx : c \in again}]})

\* Mutant of Stays: what goes back to the supervisor stays, too.
StaysToo(s, txs, loc) == {c \in txs : DestLoc(loc, c) \in {s, Supervisor0}}

Stays(s, txs, loc) == {c \in txs : DestLoc(loc, c) = s}

\* buildBlockProposal with packValidTxsInBroker: transactions are taken from
\* the pool until enough of them belong here or the pool is empty.
BuildBrokerBlockProposal(s) ==
    /\ proposal[s] = NoBlock
    /\ ~ready[s]
    /\ \E txs \in SUBSET pool[s] :
         LET packed == Stays(s, txs, location[s])
         IN  /\ \/ Cardinality(packed) = BlockSizeLimit
                \/ txs = pool[s] /\ Cardinality(packed) < BlockSizeLimit
             /\ pool' = [pool EXCEPT ![s] = @ \ txs]
             /\ proposal' = [proposal EXCEPT ![s] = [type |-> "tx", txs |-> packed]]
             /\ net' = net \cup SendAway(s, txs, location[s])
    /\ UNCHANGED <<chainVars, ammVars, supVars, bookVars, brokerBalance>>

\* getMigratedTxDestLocInBroker takes every account that does not move for an
\* account of this shard.
MigratedLoc(s) ==
    [a \in Account |-> IF curModified[s][a] = NoShard THEN s ELSE curModified[s][a]]

\* MigrateAccounts and migrateTxsInBroker.
BrokerMigrateAccounts(s) ==
    /\ proposal[s] = NoBlock
    /\ ready[s]
    /\ s \notin Reporters(s)
    /\ \A m \in net : m.type = "states" => ~(m.body.src = s /\ m.to = s)
    /\ pool' = [pool EXCEPT ![s] = Stays(s, @, MigratedLoc(s))]
    /\ net' = net
         \cup {[type |-> "states", to |-> d, epoch |-> epoch[s],
                body |-> [src |-> s, states |-> MigratedStates(s, d)]] : d \in Shard}
         \cup SendAway(s, pool[s], MigratedLoc(s))
    /\ UNCHANGED <<proposal, chainVars, ammVars, supVars, bookVars, brokerBalance>>

\* What the transactions of a block take from and give to an account.  A half
\* is skipped when its account is not in this shard.
Taken(s, txs, a) ==
    Sum({c \in txs : /\ Sender[c.tx] = a
                     /\ c.stage = "inner" \/ (c.stage = "broker1" /\ location[s][a] = s)})

Given(s, txs, a) ==
    Sum({c \in txs : /\ Recipient[c.tx] = a
                     /\ c.stage = "inner" \/ (c.stage = "broker2" /\ location[s][a] = s)})

\* The broker's side of the halves in a block.
BrokerGain(s, txs, b) ==
    LET mine == {c \in txs : c.broker = b}
    IN  Sum({c \in mine : c.stage = "broker1" /\ location[s][Sender[c.tx]] = s})
          - Sum({c \in mine : c.stage = "broker2" /\ location[s][Recipient[c.tx]] = s})

\* BlockCommitAndDeliver of BrokerTxBlockOp.
BrokerBlockCommitAndDeliver(s) ==
    /\ proposal[s].type = "tx"
    /\ LET txs  == proposal[s].txs
           info == [type |-> "info", shard |-> s, epoch |-> chainEpoch[s], txs |-> txs]
       IN  /\ \/ stopped
              \/ info \notin net /\ Cardinality(Undelivered(s)) < MaxInfo
           /\ balance' = [balance EXCEPT ![s] =
                 [a \in Account |-> @[a] - Taken(s, txs, a) + Given(s, txs, a)]]
           /\ brokerBalance' = [brokerBalance EXCEPT ![s] =
                 [b \in Broker |-> @[b] + BrokerGain(s, txs, b)]]
           /\ committed' = [committed EXCEPT ![s] = @ \cup txs]
           /\ net' = net \cup (IF stopped THEN {} ELSE {info})
    /\ proposal' = [proposal EXCEPT ![s] = NoBlock]
    /\ UNCHANGED <<pool, location, chainEpoch, ammVars, supVars, bookVars>>

-----------------------------------------------------------------------------

BrokerReceive(s) ==
    /\ \E m \in {x \in net : x.type \in {"txs", "start", "states"}} :
         /\ m.to = s
         /\ HandleReceiveTxs(m) \/ HandleRepartitionStart(m) \/ HandleAccountMigration(m)
    /\ UNCHANGED <<bookVars, brokerBalance>>

BrokerLeader(s) ==
    \/ BuildBrokerBlockProposal(s)
    \/ BrokerMigrateAccounts(s)
    \/ BrokerBlockCommitAndDeliver(s)
    \/ (BuildMigrationProposal(s) \/ MigrationBlockCommit(s)) /\ UNCHANGED <<bookVars, brokerBalance>>

HandleMsg ==
    \/ \E m \in {x \in net : x.type = "info"}  : HandleBrokerBlockInfo(m)
    \/ \E m \in {x \in net : x.type = "again"} : HandleTxSendAgain(m)

BrokerNext ==
    \/ BrokerReadTxsAndSend
    \/ HandleMsg
    \/ (Repartition \/ Stop) /\ UNCHANGED <<bookVars, brokerBalance>>
    \/ \E s \in Shard : BrokerReceive(s) \/ BrokerLeader(s)

BrokerSpec == BrokerInit /\ [][BrokerNext]_brokerVars

\* The tickers of supervisor and leaders keep firing; a tick drains the
\* message buffer, so no message waits behind others for ever; and a proposed
\* block is committed.  Neither a repartition nor the stop is assumed.
BrokerFairness ==
    /\ WF_brokerVars(BrokerReadTxsAndSend)
    /\ WF_brokerVars(\E m \in {x \in net : x.type = "again"} : HandleTxSendAgain(m))
    /\ \A s \in Shard :
         /\ WF_brokerVars(\E m \in Undelivered(s) : HandleBrokerBlockInfo(m))
         /\ WF_brokerVars(BrokerReceive(s))
         /\ WF_brokerVars(BrokerLeader(s))

BrokerFairSpec == BrokerSpec /\ BrokerFairness

-----------------------------------------------------------------------------
(***************************************************************************)
(* Properties                                                              *)
(***************************************************************************)

Committed(t, stage) == \E s \in Shard : \E c \in committed[s] : c.tx = t /\ c.stage = stage

BrokerDone(t) == Committed(t, "inner") \/ Committed(t, "broker2")

\* The places where transfer t, or the half of it that comes next, waits.
BrokerCopies(t) ==
      Cardinality({q \in {1, 2, 3} : t \in <<unsent, readyBroker1, readyBroker2>>[q]})
    + Cardinality({m \in net : m.type = "txs" /\ Holds(m.txs, t)})
    + Cardinality({m \in net : m.type = "again" /\ t \in m.txs})
    + Cardinality({m \in net : m.type = "info" /\ \E c \in m.txs : c.tx = t /\ c.stage = "broker1"})
    + Cardinality({s \in Shard : Holds(pool[s], t)})
    + Cardinality({s \in Shard : proposal[s].type = "tx" /\ Holds(proposal[s].txs, t)})

\* Until the supervisor stops, a transfer that is not finished waits in
\* exactly one place, however it was cut into halves, sent to another shard,
\* sent back to the supervisor or held back until the epochs are in sync.
TransfersKept ==
    ~stopped => \A t \in Tx : BrokerCopies(t) = IF BrokerDone(t) THEN 0 ELSE 1

\* A transfer is executed in one way: as an inner transfer, or by two halves
\* through one broker, each half in one block of one shard.
ExecutedOnce ==
    \A t \in Tx :
        /\ ~(Committed(t, "inner") /\ Committed(t, "broker1"))
        /\ Committed(t, "broker2") => Committed(t, "broker1")
        /\ Cardinality({c.broker : c \in {d \in UNION Range(committed) : d.tx = t}}) <= 1
        /\ \A s, o \in Shard : \A c \in committed[s] \cap committed[o] : c.tx = t => s = o

\* What the manager has recorded follows the chains: a transfer that is sent
\* back has no record yet, and a half that is reported, by a shard in any
\* epoch, finds the manager waiting for it.
BooksFollowChains ==
    \A m \in net :
        /\ m.type = "again" => \A i \in unconfirmed : i.tx \notin m.txs
        /\ m.type = "info" => \A c \in m.txs : c.stage # "inner" =>
             [tx |-> c.tx, broker |-> c.broker,
              confirmStage |-> IF c.stage = "broker1" THEN 1 ELSE 2] \in unconfirmed

\* What the blocks of all shards say an account and a broker own.
AccountLedger(a) ==
    LET all == UNION Range(committed)
    IN  InitBalance - Sum({c \in all : Sender[c.tx] = a /\ c.stage \in {"inner", "broker1"}})
                    + Sum({c \in all : Recipient[c.tx] = a /\ c.stage \in {"inner", "broker2"}})

BrokerLedger(b) ==
    LET mine == {c \in UNION Range(committed) : c.broker = b}
    IN  BrokerInitBalance * Cardinality(Shard) + Sum({c \in mine : c.stage = "broker1"})
                                               - Sum({c \in mine : c.stage = "broker2"})

\* No half is skipped because its account has moved, and a migration brings
\* along the balance as it was: accounts, at the shard that holds them, and
\* brokers, over all shards, own what the blocks add up to.
MoneyFollowsBlocks ==
    /\ \A a \in Account : balance[Holder(a)][a] = AccountLedger(a)
    /\ \A b \in Broker :
         MapThenSumSet(LAMBDA s : brokerBalance[s][b], Shard) = BrokerLedger(b)

\* Unless the supervisor stops, every transfer is finished, although the one
\* who sends the next half sends nothing while the epochs are out of step.
TransfersFinish == <>stopped \/ <>[] \A t \in Tx : BrokerDone(t)
=================================================================================

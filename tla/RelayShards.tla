----------------------------- MODULE RelayShards -----------------------------
(***************************************************************************)
(* The shards of the cluster, seen from their leaders, with the supervisor *)
(* that feeds them: cross-shard transfers by relay transactions            *)
(* (consensus/pbft/insideop) and the migration of accounts between shards  *)
(* that CLPA asks for (consensus/pbft/migration, migrationblockop,         *)
(* supervisor/committee/clparelay.go).                                     *)
(*                                                                         *)
(* What happens inside a shard is the business of PBFT: here the leader    *)
(* proposes a block, messages keep arriving, and later the block commits.  *)
(* A proposal is only built after the previous block has committed.  With  *)
(* MaxEpoch = 0 this is the static relay mode.                             *)
(***************************************************************************)
EXTENDS Integers, FiniteSets, FiniteSetsExt

CONSTANTS
    Shard,
    NoShard,            \* not a shard: the account does not move
    Account,
    Tx,                 \* transactions of the source
    Sender,             \* Sender[t], Recipient[t]: accounts of t
    Recipient,
    Value,              \* Value[t]: amount of t
    InitBalance,        \* NormalInitBalanceStr
    DefaultAccountLoc,  \* DefaultAccountLoc[a]: the shard an address hashes to
    BlockSizeLimit,
    TxInjectionSpeed,
    StopThreshold,      \* ShardNum * stopThresholdPerShard
    MaxEpoch,           \* bound: repartitions in a behaviour
    MaxInfo             \* bound: undelivered block infos of a shard

ASSUME TxAssumption ==
    /\ IsFiniteSet(Shard) /\ IsFiniteSet(Account) /\ IsFiniteSet(Tx)
    /\ Sender \in [Tx -> Account]
    /\ Recipient \in [Tx -> Account]
    /\ Value \in [Tx -> Nat]
    /\ NoShard \notin Shard
    /\ DefaultAccountLoc \in [Account -> Shard]
ASSUME SizeAssumption ==
    /\ BlockSizeLimit \in Nat \ {0}
    /\ TxInjectionSpeed \in Nat \ {0}
    /\ StopThreshold \in Nat \ {0}
    /\ MaxEpoch \in Nat
    /\ MaxInfo \in Nat \ {0}
\* The initial balance (10^36) is more than an account can spend, so
\* CanTransfer never fails, no block is rejected for it, and no account is
\* deleted because it is left with nothing.
ASSUME FundsAssumption ==
    InitBalance \in Nat /\ InitBalance > MapThenSumSet(LAMBDA t : Value[t], Tx)

\* A transaction on its way: RelayStage is Undetermined ("raw") until its
\* sender's shard packs it.
Copy == [tx : Tx, stage : {"raw", "relay1", "relay2"}]

\* CurModifiedMap: the new shard of every account that moves.
ModifiedMap == [Account -> Shard \cup {NoShard}]
NoMove      == [a \in Account |-> NoShard]

\* AccountStates: the balances of the accounts a shard reports.
NoState == -1
States  == [Account -> Nat \cup {NoState}]
Report  == [src : Shard, states : States]

NoBlock == [type |-> "none"]
Block   ==
         {NoBlock}
    \cup [type : {"tx"}, txs : SUBSET Copy]
    \cup [type : {"migration"}, modified : ModifiedMap, states : States]

Message ==
         [type : {"txs"}, to : Shard, txs : SUBSET Copy]
    \cup [type : {"start"}, to : Shard, epoch : Nat, modified : ModifiedMap]
    \cup [type : {"states"}, to : Shard, epoch : Nat, body : Report]
    \cup [type : {"info"}, shard : Shard, epoch : Nat, empty : BOOLEAN]

VARIABLES
    \* every shard: transaction pool, proposal in consensus, and the chain
    pool,
    proposal,
    location,           \* location[s][a]: the location trie of shard s
    balance,            \* balance[s][a]: the state trie of shard s
    committed,          \* committed[s]: transactions in the blocks of s
    chainEpoch,         \* the epoch of the last migration block
    \* AccMigrateMetadata of every leader
    epoch,
    curModified,
    collected,          \* MigratedAccountStates
    ready,              \* MigrationReady
    unhandled,          \* unhandledStateMsg
    \* the supervisor
    unsent,
    supLocation,        \* the partition map of CLPA
    supEpoch,
    shardEpoch,
    epochSynced,
    stopCnt,
    stopped,
    \* the network
    net

chainVars == <<location, balance, committed, chainEpoch>>
ammVars   == <<epoch, curModified, collected, ready, unhandled>>
supVars   == <<unsent, supLocation, supEpoch, shardEpoch, epochSynced, stopCnt, stopped>>
vars      == <<pool, proposal, chainVars, ammVars, supVars, net>>

TypeOK ==
    /\ pool        \in [Shard -> SUBSET Copy]
    /\ proposal    \in [Shard -> Block]
    /\ location    \in [Shard -> [Account -> Shard]]
    /\ balance     \in [Shard -> [Account -> Nat]]
    /\ committed   \in [Shard -> SUBSET Copy]
    /\ chainEpoch  \in [Shard -> Nat]
    /\ epoch       \in [Shard -> Nat]
    /\ curModified \in [Shard -> ModifiedMap]
    /\ collected   \in [Shard -> SUBSET Report]
    /\ ready       \in [Shard -> BOOLEAN]
    /\ unhandled   \in [Shard -> SUBSET Message]
    /\ unsent      \in SUBSET Tx
    /\ supLocation \in [Account -> Shard]
    /\ supEpoch    \in Nat
    /\ shardEpoch  \in [Shard -> Nat]
    /\ epochSynced \in BOOLEAN
    /\ stopCnt     \in Nat
    /\ stopped     \in BOOLEAN
    /\ net         \in SUBSET Message

Init ==
    /\ pool        = [s \in Shard |-> {}]
    /\ proposal    = [s \in Shard |-> NoBlock]
    /\ location    = [s \in Shard |-> DefaultAccountLoc]
    /\ balance     = [s \in Shard |-> [a \in Account |-> InitBalance]]
    /\ committed   = [s \in Shard |-> {}]
    /\ chainEpoch  = [s \in Shard |-> 0]
    /\ epoch       = [s \in Shard |-> 0]
    /\ curModified = [s \in Shard |-> NoMove]
    /\ collected   = [s \in Shard |-> {}]
    /\ ready       = [s \in Shard |-> FALSE]
    /\ unhandled   = [s \in Shard |-> {}]
    /\ unsent      = Tx
    /\ supLocation = DefaultAccountLoc
    /\ supEpoch    = 0
    /\ shardEpoch  = [s \in Shard |-> 0]
    /\ epochSynced = FALSE
    /\ stopCnt     = 0
    /\ stopped     = FALSE
    /\ net         = {}

-----------------------------------------------------------------------------
(***************************************************************************)
(* The supervisor                                                          *)
(***************************************************************************)

\* SendWrappedTxs2Shards: one message to every shard that gets something.
SendTxs(dest) ==
    {[type |-> "txs", to |-> s, txs |-> {c \in DOMAIN dest : dest[c] = s}] :
        s \in {dest[c] : c \in DOMAIN dest}}

\* Mutant of EpochsReached: one shard in the new epoch is enough.
EpochsReachedSomewhere == \E s \in Shard : shardEpoch[s] = supEpoch

\* CheckEpochSyncAndMark
EpochsReached == \A s \in Shard : shardEpoch[s] = supEpoch

ReadTxsAndSend ==
    /\ ~stopped
    /\ epochSynced \/ EpochsReached
    /\ epochSynced' = TRUE
    /\ \E txs \in SUBSET unsent :
         /\ Cardinality(txs) = Min({TxInjectionSpeed, Cardinality(unsent)})
         /\ unsent' = unsent \ txs
         /\ net' = net \cup SendTxs([c \in [tx : txs, stage : {"raw"}] |->
                                     supLocation[Sender[c.tx]]])
    /\ UNCHANGED <<pool, proposal, chainVars, ammVars, supLocation, supEpoch,
                   shardEpoch, stopCnt, stopped>>

Relocated(loc, modified) ==
    [a \in Account |-> IF modified[a] = NoShard THEN loc[a] ELSE modified[a]]

\* What CLPA may return: some accounts with a shard other than their own.
CLPAPartition ==
    {f \in ModifiedMap : \A a \in Account : f[a] # supLocation[a]}

\* The epoch duration has passed since the epochs were last found in sync.
Repartition ==
    /\ ~stopped
    /\ epochSynced
    /\ supEpoch < MaxEpoch
    /\ supEpoch' = supEpoch + 1
    /\ \E modified \in CLPAPartition :
         /\ supLocation' = Relocated(supLocation, modified)
         /\ net' = net \cup [type : {"start"}, to : Shard, epoch : {supEpoch + 1},
                             modified : {modified}]
    /\ epochSynced' = FALSE
    /\ stopCnt' = 0
    /\ UNCHANGED <<pool, proposal, chainVars, ammVars, unsent, shardEpoch, stopped>>

\* HandleMsg of the committee.  stopCnt counts no further than the threshold
\* it is compared with.
HandleBlockInfo(m) ==
    /\ ~stopped
    /\ m.type = "info"
    /\ net' = net \ {m}
    /\ shardEpoch' = [shardEpoch EXCEPT ![m.shard] = Max({@, m.epoch})]
    /\ stopCnt' = CASE unsent = {} /\ m.empty  -> Min({stopCnt + 1, StopThreshold})
                    [] unsent = {} /\ ~m.empty -> 0
                    [] OTHER -> stopCnt
    /\ UNCHANGED <<pool, proposal, chainVars, ammVars, unsent, supLocation, supEpoch,
                   epochSynced, stopped>>

\* ShouldStop ends the main loop of the supervisor.
Stop ==
    /\ ~stopped
    /\ stopCnt >= StopThreshold
    /\ stopped' = TRUE
    /\ UNCHANGED <<pool, proposal, chainVars, ammVars, unsent, supLocation, supEpoch,
                   shardEpoch, epochSynced, stopCnt, net>>

-----------------------------------------------------------------------------
(***************************************************************************)
(* Messages to a leader                                                    *)
(***************************************************************************)

HandleReceiveTxs(m) ==
    /\ m.type = "txs"
    /\ net' = net \ {m}
    /\ pool' = [pool EXCEPT ![m.to] = @ \cup m.txs]
    /\ UNCHANGED <<proposal, chainVars, ammVars, supVars>>

\* Mutant of Early: what came before the start of the epoch is forgotten.
EarlyForgotten(s, e) == {}

\* The states of epoch e that came before the start of the epoch.
Early(s, e) == {u \in unhandled[s] : u.epoch = e}

\* UpdateByRepartitionStartMsg, which also handles the states that came
\* before it.  A message of another epoch is refused.
HandleRepartitionStart(m) ==
    /\ m.type = "start"
    /\ net' = net \ {m}
    /\ LET s     == m.to
           early == Early(s, m.epoch)
       IN  IF m.epoch # epoch[s] + 1
           THEN UNCHANGED ammVars
           ELSE /\ epoch'       = [epoch EXCEPT ![s] = m.epoch]
                /\ curModified' = [curModified EXCEPT ![s] = m.modified]
                /\ ready'       = [ready EXCEPT ![s] = TRUE]
                /\ collected'   = [collected EXCEPT ![s] = @ \cup {u.body : u \in early}]
                /\ unhandled'   = [unhandled EXCEPT ![s] = @ \ early]
    /\ UNCHANGED <<pool, proposal, chainVars, supVars>>

\* CollectStatesByMsg: an old message is refused, an early one is kept.
HandleAccountMigration(m) ==
    /\ m.type = "states"
    /\ net' = net \ {m}
    /\ LET s == m.to
       IN  \/ /\ m.epoch < epoch[s]
              /\ UNCHANGED ammVars
           \/ /\ m.epoch > epoch[s]
              /\ unhandled' = [unhandled EXCEPT ![s] = @ \cup {m}]
              /\ UNCHANGED <<epoch, curModified, collected, ready>>
           \/ /\ m.epoch = epoch[s]
              /\ collected' = [collected EXCEPT ![s] = {r \in @ : r.src # m.body.src} \cup {m.body}]
              /\ UNCHANGED <<epoch, curModified, ready, unhandled>>
    /\ UNCHANGED <<pool, proposal, chainVars, supVars>>

-----------------------------------------------------------------------------
(***************************************************************************)
(* The blocks of a leader                                                  *)
(***************************************************************************)

\* The account that decides which shard handles a transaction.
KeyAcc(c) == IF c.stage = "relay2" THEN Recipient[c.tx] ELSE Sender[c.tx]

Local(s, txs) == {c \in txs : location[s][KeyAcc(c)] = s}

\* What packValidTxsInRelay takes from the pool: transactions until enough
\* of them belong here or the pool is empty.
PackedTxs(s) ==
    {txs \in SUBSET pool[s] :
        \/ Cardinality(Local(s, txs)) = BlockSizeLimit
        \/ txs = pool[s] /\ Cardinality(Local(s, txs)) < BlockSizeLimit}

ModifyTxRelayOpt(s, c) ==
    IF c.stage = "raw" /\ location[s][Recipient[c.tx]] # s
    THEN [c EXCEPT !.stage = "relay1"] ELSE c

\* buildBlockProposal: transactions that belong elsewhere are sent there.
BuildBlockProposal(s) ==
    /\ proposal[s] = NoBlock
    /\ ~ready[s]
    /\ \E txs \in PackedTxs(s) :
         /\ pool' = [pool EXCEPT ![s] = @ \ txs]
         /\ proposal' = [proposal EXCEPT ![s] =
               [type |-> "tx", txs |-> {ModifyTxRelayOpt(s, c) : c \in Local(s, txs)}]]
         /\ net' = net \cup SendTxs([c \in txs \ Local(s, txs) |-> location[s][KeyAcc(c)]])
    /\ UNCHANGED <<chainVars, ammVars, supVars>>

\* Mutant of MigratedStates: also of accounts that live elsewhere.
MigratedStatesOfAll(s, d) ==
    [a \in Account |-> IF curModified[s][a] = d THEN balance[s][a] ELSE NoState]

\* The states that shard s reports to shard d.
MigratedStates(s, d) ==
    [a \in Account |-> IF location[s][a] = s /\ curModified[s][a] = d
                       THEN balance[s][a] ELSE NoState]

Reporters(s) == {r.src : r \in collected[s]}

\* Mutant of AddBackTxs: the transactions that are sent away stay too.
AddBackAll(s) == pool[s]

\* migrateTxsInRelay keeps the transactions whose account does not move.
AddBackTxs(s) == {c \in pool[s] : curModified[s][KeyAcc(c)] = NoShard}

\* migrateAccounts and migrateTxs.  The message to the own shard lies in the
\* local buffer, which is drained before the next attempt to propose.
MigrateAccounts(s) ==
    /\ proposal[s] = NoBlock
    /\ ready[s]
    /\ s \notin Reporters(s)
    /\ \A m \in net : m.type = "states" => ~(m.body.src = s /\ m.to = s)
    /\ LET moved == {c \in pool[s] : curModified[s][KeyAcc(c)] # NoShard}
       IN  /\ pool' = [pool EXCEPT ![s] = AddBackTxs(s)]
           /\ net' = net
                \cup {[type |-> "states", to |-> d, epoch |-> epoch[s],
                       body |-> [src |-> s, states |-> MigratedStates(s, d)]] : d \in Shard}
                \cup SendTxs([c \in moved |-> curModified[s][KeyAcc(c)]])
    /\ UNCHANGED <<proposal, chainVars, ammVars, supVars>>

\* GetMigratedAddrStates: an account nobody reported gets a fresh state.
MigratedState(s, a) ==
    LET reports == {r \in collected[s] : r.states[a] # NoState}
    IN  IF reports = {} THEN InitBalance ELSE (CHOOSE r \in reports : TRUE).states[a]

\* Mutant of MigratedAddrs: only the accounts that move to this shard.
MigratedAddrsHere(s) == [a \in Account |-> IF curModified[s][a] = s THEN s ELSE NoShard]

\* Every shard's migration block records the new place of every account.
MigratedAddrs(s) == curModified[s]

BuildMigrationProposal(s) ==
    /\ proposal[s] = NoBlock
    /\ ready[s]
    /\ Reporters(s) = Shard
    /\ proposal' = [proposal EXCEPT ![s] =
          [type |-> "migration",
           modified |-> MigratedAddrs(s),
           states |-> [a \in Account |-> MigratedState(s, a)]]]
    /\ UNCHANGED <<pool, chainVars, ammVars, supVars, net>>

Sum(txs) == MapThenSumSet(LAMBDA c : Value[c.tx], txs)

\* What the transactions of a block take from and give to an account.  A
\* relay transaction is skipped when its account is not in this shard.
Debit(s, txs, a) ==
    Sum({c \in txs : /\ Sender[c.tx] = a
                     /\ c.stage = "raw" \/ (c.stage = "relay1" /\ location[s][a] = s)})

Credit(s, txs, a) ==
    Sum({c \in txs : /\ Recipient[c.tx] = a
                     /\ c.stage = "raw" \/ (c.stage = "relay2" /\ location[s][a] = s)})

Undelivered(s) == {m \in net : m.type = "info" /\ m.shard = s}

\* BlockCommitAndDeliver.  A stopped supervisor has closed its connection.
BlockCommitAndDeliver(s) ==
    /\ proposal[s].type = "tx"
    /\ LET txs    == proposal[s].txs
           info   == [type |-> "info", shard |-> s, epoch |-> chainEpoch[s],
                      empty |-> txs = {}]
           relay2 == {[c EXCEPT !.stage = "relay2"] : c \in {x \in txs : x.stage = "relay1"}}
       IN  /\ \/ stopped
              \/ info \notin net /\ Cardinality(Undelivered(s)) < MaxInfo
           /\ balance' = [balance EXCEPT ![s] =
                 [a \in Account |-> @[a] - Debit(s, txs, a) + Credit(s, txs, a)]]
           /\ committed' = [committed EXCEPT ![s] = @ \cup txs]
           /\ net' = net \cup (IF stopped THEN {} ELSE {info})
                         \cup SendTxs([c \in relay2 |-> location[s][Recipient[c.tx]]])
    /\ proposal' = [proposal EXCEPT ![s] = NoBlock]
    /\ UNCHANGED <<pool, location, chainEpoch, ammVars, supVars>>

\* MigrationBlockCommit with MigrationStatusReset.
MigrationBlockCommit(s) ==
    /\ proposal[s].type = "migration"
    /\ location' = [location EXCEPT ![s] = Relocated(@, proposal[s].modified)]
    /\ balance' = [balance EXCEPT ![s] =
          [a \in Account |-> IF proposal[s].modified[a] = s
                             THEN proposal[s].states[a] ELSE @[a]]]
    /\ chainEpoch'  = [chainEpoch EXCEPT ![s] = epoch[s]]
    /\ collected'   = [collected EXCEPT ![s] = {}]
    /\ curModified' = [curModified EXCEPT ![s] = NoMove]
    /\ ready'       = [ready EXCEPT ![s] = FALSE]
    /\ unhandled'   = [unhandled EXCEPT ![s] = {u \in @ : u.epoch # epoch[s]}]
    /\ proposal'    = [proposal EXCEPT ![s] = NoBlock]
    /\ UNCHANGED <<pool, committed, epoch, supVars, net>>

Supervisor ==
    \/ ReadTxsAndSend
    \/ Repartition
    \/ \E m \in net : HandleBlockInfo(m)
    \/ Stop

\* HandleMsgOutsideShard of the leader of shard s.
Receive(s) ==
    \E m \in {x \in net : x.type # "info"} :
        /\ m.to = s
        /\ \/ HandleReceiveTxs(m)
           \/ HandleRepartitionStart(m)
           \/ HandleAccountMigration(m)

Leader(s) ==
    \/ BuildBlockProposal(s)
    \/ MigrateAccounts(s)
    \/ BuildMigrationProposal(s)
    \/ BlockCommitAndDeliver(s)
    \/ MigrationBlockCommit(s)

Next ==
    \/ Supervisor
    \/ \E s \in Shard : Receive(s) \/ Leader(s)

Spec == Init /\ [][Next]_vars

\* The tickers of the leaders keep firing, every message is handled, and a
\* proposed block is committed.  Nothing is asked of the supervisor but that
\* it handles its messages: whether it still sends or stops is left open.
Fairness ==
    /\ WF_vars(\E m \in net : HandleBlockInfo(m))
    /\ \A s \in Shard : WF_vars(Receive(s)) /\ WF_vars(Leader(s))

FairSpec == Spec /\ Fairness

-----------------------------------------------------------------------------
(***************************************************************************)
(* Properties                                                              *)
(***************************************************************************)

Done(t) == \E s \in Shard : \/ [tx |-> t, stage |-> "raw"] \in committed[s]
                            \/ [tx |-> t, stage |-> "relay2"] \in committed[s]

Holds(txs, t) == \E c \in txs : c.tx = t

\* The number of copies of transaction t that wait to be handled.
Copies(t) ==
      (IF t \in unsent THEN 1 ELSE 0)
    + Cardinality({m \in net : m.type = "txs" /\ Holds(m.txs, t)})
    + Cardinality({s \in Shard : Holds(pool[s], t)})
    + Cardinality({s \in Shard : proposal[s].type = "tx" /\ Holds(proposal[s].txs, t)})

\* However transactions are packed, relayed, rerouted at packing time and
\* migrated with their accounts, an unfinished one exists exactly once.
NothingLostOrDoubled == \A t \in Tx : Copies(t) = IF Done(t) THEN 0 ELSE 1

\* What the committed blocks say account a owns.
LedgerBalance(a) ==
    LET all == UNION {committed[s] : s \in Shard}
    IN  InitBalance - Sum({c \in all : Sender[c.tx] = a /\ c.stage \in {"raw", "relay1"}})
                    + Sum({c \in all : Recipient[c.tx] = a /\ c.stage \in {"raw", "relay2"}})

Newest == CHOOSE s \in Shard : \A o \in Shard : chainEpoch[o] <= chainEpoch[s]

\* The shard whose state trie holds the money of a: its new home once that
\* shard has the migration block, its old home before.
Holder(a) ==
    LET home == location[Newest][a]
    IN  IF chainEpoch[home] = chainEpoch[Newest] THEN home ELSE location[home][a]

\* The balance of every account, at the shard that holds it, is what the
\* blocks of all shards add up to: no transfer is executed on a state that
\* was already handed over, none is skipped because its account has moved,
\* and a migration brings along the balance as it was.
BalancesMatchLedger == \A a \in Account : balance[Holder(a)][a] = LedgerBalance(a)

\* Shards that have the same migration blocks agree on where every account
\* is, and with the supervisor once they are in its epoch.
LocationsAgree ==
    \A s \in Shard :
        /\ chainEpoch[s] = supEpoch => location[s] = supLocation
        /\ \A o \in Shard : chainEpoch[s] = chainEpoch[o] => location[s] = location[o]

\* No message about a repartition is refused by its receiver: the gate of
\* CheckEpochSyncAndMark keeps the epochs of supervisor, leaders and chains
\* within one step of each other.
EpochsInStep ==
    /\ \A s \in Shard : chainEpoch[s] <= epoch[s] /\ epoch[s] <= supEpoch
                        /\ supEpoch <= chainEpoch[s] + 1
    /\ \A m \in net : /\ m.type = "start"  => m.epoch = epoch[m.to] + 1
                      /\ m.type = "states" => m.epoch >= epoch[m.to]

\* Every repartition is carried out by all shards, unless the experiment is
\* stopped: the leaders, who propose nothing but the migration block once
\* they know of it, never wait for each other for ever.
MigrationFinishes ==
    <>[](stopped \/ \A s \in Shard : chainEpoch[s] = supEpoch)
=============================================================================

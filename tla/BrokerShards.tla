----------------------------- MODULE BrokerShards -----------------------------
(***************************************************************************)
(* Cross-shard transfers through brokers (static_broker): the committee of *)
(* supervisor/committee/staticbroker.go with the broker manager of         *)
(* pkg/broker/broker.go, and the leaders that execute the two halves of a  *)
(* transfer (brokertxblockop.go, brokerTxExecute).  A broker has money in  *)
(* every shard: the first half moves the amount from the sender to the     *)
(* broker in the sender's shard, the second from the broker to the         *)
(* recipient in the recipient's shard.  When no broker can pay, the        *)
(* transfer falls back to a relay.                                         *)
(*                                                                         *)
(* Accounts never move in this mode.  As in RelayShards, a leader proposes *)
(* a block, messages keep arriving, and later the block commits.           *)
(***************************************************************************)
EXTENDS Integers, FiniteSets, FiniteSetsExt

CONSTANTS
    Shard,
    Account,
    Broker,
    NoBroker,           \* not a broker: the transfer is relayed
    Tx,                 \* 1 .. n: the transfers of the source, in its order
    Sender,             \* Sender[t], Recipient[t]: accounts of t
    Recipient,
    Value,              \* Value[t]: amount of t
    InitBalance,        \* NormalInitBalanceStr
    BrokerInitBalance,  \* BrokerInitBalanceStr
    DefaultAccountLoc,  \* DefaultAccountLoc[a]: the shard an address hashes to
    BlockSizeLimit,
    TxInjectionSpeed,
    StopThreshold,      \* ShardNum * stopThresholdPerShard
    MaxInfo             \* bound: undelivered block infos of a shard

ASSUME TxAssumption ==
    /\ IsFiniteSet(Shard) /\ IsFiniteSet(Account) /\ IsFiniteSet(Broker)
    /\ Tx \subseteq Nat /\ IsFiniteSet(Tx)
    /\ Sender \in [Tx -> Account]
    /\ Recipient \in [Tx -> Account]
    /\ Value \in [Tx -> Nat]
    /\ NoBroker \notin Broker
    /\ DefaultAccountLoc \in [Account -> Shard]
ASSUME SizeAssumption ==
    /\ BrokerInitBalance \in Nat
    /\ BlockSizeLimit \in Nat \ {0}
    /\ TxInjectionSpeed \in Nat \ {0}
    /\ StopThreshold \in Nat \ {0}
    /\ MaxInfo \in Nat \ {0}
\* Senders have more than they can spend (10^36), so CanTransfer never fails.
\* The transfers are between ordinary accounts: what a broker sends or gets
\* under its own name is not in the books of the committee.
ASSUME FundsAssumption ==
    /\ InitBalance \in Nat /\ InitBalance > MapThenSumSet(LAMBDA t : Value[t], Tx)
    /\ Account \cap Broker = {}

From(t) == DefaultAccountLoc[Sender[t]]
To(t)   == DefaultAccountLoc[Recipient[t]]

\* A transaction on its way: an inner transfer, a half of a broker transfer
\* (Sigma1BrokerStage, Sigma2BrokerStage), or a half of a relay.
Copy ==
         [tx : Tx, stage : {"inner", "relay1", "relay2"}, broker : {NoBroker}]
    \cup [tx : Tx, stage : {"broker1", "broker2"}, broker : Broker]

\* txInfoStage: a transfer the manager has a record of, and the half it
\* waits for (stageWaitConfirm1, stageWaitConfirm2).
TxInfoStage == [tx : Tx, broker : Broker, confirmStage : {1, 2}]

NoBlock == [txs |-> {}, built |-> FALSE]

Message ==
         [type : {"txs"}, to : Shard, txs : SUBSET Copy]
    \cup [type : {"info"}, shard : Shard, txs : SUBSET Copy]

VARIABLES
    \* the supervisor
    unsent,             \* what the source still holds
    unconfirmed,        \* unconfirmedTxInfo
    readyBroker2,       \* readyBroker2TxHashes
    brokerBalances,
    pendingDeductions,
    stopCnt,
    stopped,
    \* the leaders
    pool,
    proposal,
    balance,            \* balance[s]: the state trie of shard s (0: not there)
    committed,          \* committed[s]: the transactions in the blocks of s
    net

bookVars  == <<unconfirmed, readyBroker2, brokerBalances, pendingDeductions>>
chainVars == <<balance, committed>>
vars      == <<unsent, bookVars, stopCnt, stopped, pool, proposal, chainVars, net>>

TypeOK ==
    /\ unsent \subseteq Tx
    /\ unconfirmed \subseteq TxInfoStage
    /\ readyBroker2 \subseteq Tx
    /\ brokerBalances    \in [Broker -> [Shard -> Int]]
    /\ pendingDeductions \in [Broker -> [Shard -> Nat]]
    /\ stopCnt \in 0 .. StopThreshold
    /\ stopped \in BOOLEAN
    /\ pool      \in [Shard -> SUBSET Copy]
    /\ proposal  \in [Shard -> [txs : SUBSET Copy, built : BOOLEAN]]
    /\ balance   \in [Shard -> [Account \cup Broker -> Int]]
    /\ committed \in [Shard -> SUBSET Copy]
    /\ net \subseteq Message

\* The balance with which an account is created when a transaction first
\* needs it.
FirstBalance(x) == IF x \in Broker THEN BrokerInitBalance ELSE InitBalance

\* An account no transaction has needed counts with what it will begin with.
Init ==
    /\ unsent = Tx
    /\ unconfirmed = {}
    /\ readyBroker2 = {}
    /\ brokerBalances    = [b \in Broker |-> [s \in Shard |-> BrokerInitBalance]]
    /\ pendingDeductions = [b \in Broker |-> [s \in Shard |-> 0]]
    /\ stopCnt = 0
    /\ stopped = FALSE
    /\ pool      = [s \in Shard |-> {}]
    /\ proposal  = [s \in Shard |-> NoBlock]
    /\ balance   = [s \in Shard |-> [x \in Account \cup Broker |-> FirstBalance(x)]]
    /\ committed = [s \in Shard |-> {}]
    /\ net = {}

Total(txs) == MapThenSumSet(LAMBDA t : Value[t], txs)

-----------------------------------------------------------------------------
(***************************************************************************)
(* The supervisor                                                          *)
(***************************************************************************)

\* getTxLoc: the shard that handles a transaction.
TxLoc(c) == IF c.stage \in {"broker2", "relay2"} THEN To(c.tx) ELSE From(c.tx)

\* SendWrappedTxs2Shards: one message to every shard that gets something.
SendTxs(txs) ==
    {[type |-> "txs", to |-> s, txs |-> {c \in txs : TxLoc(c) = s}] :
        s \in {TxLoc(c) : c \in txs}}

\* ReadTxs: the next transfers of the source.
ReadTxs == {t \in unsent : Cardinality({u \in unsent : u < t}) < TxInjectionSpeed}

\* Mutant of Available: what is promised already is forgotten.
AvailableBalance(b, s) == brokerBalances[b][s]

\* What broker b can still promise to pay in shard s.
Available(b, s) == brokerBalances[b][s] - pendingDeductions[b][s]

\* The brokers the loop over the cross-shard transfers may end up with: each
\* transfer takes some broker that can pay it after what the transfers
\* before it took, and is relayed only when there is none.
BrokerChoices(cross) ==
    LET Taken(f, b, t) == {u \in cross : u < t /\ f[u] = b /\ To(u) = To(t)}
        CanPay(f, b, t) == Available(b, To(t)) - Total(Taken(f, b, t)) >= Value[t]
    IN  {f \in [cross -> Broker \cup {NoBroker}] :
            \A t \in cross : IF f[t] = NoBroker
                             THEN \A b \in Broker : ~CanPay(f, b, t)
                             ELSE CanPay(f, f[t], t)}

\* Mutant of CreateBroker2Txs: both halves are sent at once.
CreateBroker2TxsEarly ==
    {[tx |-> i.tx, stage |-> "broker2", broker |-> i.broker] : i \in unconfirmed}

\* createBroker2Tx for the transfers whose first half is confirmed.
CreateBroker2Txs ==
    {[tx |-> i.tx, stage |-> "broker2", broker |-> i.broker] :
        i \in {j \in unconfirmed : j.tx \in readyBroker2 /\ j.confirmStage = 2}}

\* readTxsAndSend.  CreateRawTx puts a transfer on the list of ready first
\* halves, and CreateBrokerTxs empties that list in the same call.
ReadTxsAndSend ==
    /\ ~stopped
    /\ LET cross == {t \in ReadTxs : From(t) # To(t)}
       IN  \E f \in BrokerChoices(cross) :
             LET Sent(t) == [tx |-> t,
                             stage |-> IF t \notin cross THEN "inner"
                                       ELSE IF f[t] = NoBroker THEN "relay1" ELSE "broker1",
                             broker |-> IF t \in cross THEN f[t] ELSE NoBroker]
                 Brokered(b, s) == {t \in cross : f[t] = b /\ To(t) = s}
             IN  /\ net' = net \cup SendTxs({Sent(t) : t \in ReadTxs} \cup CreateBroker2Txs)
                 /\ unconfirmed' = unconfirmed \cup
                      {[tx |-> t, broker |-> f[t], confirmStage |-> 1] :
                          t \in {u \in cross : f[u] # NoBroker}}
                 /\ pendingDeductions' = [b \in Broker |-> [s \in Shard |->
                      pendingDeductions[b][s] + Total(Brokered(b, s))]]
    /\ readyBroker2' = {}
    /\ unsent' = unsent \ ReadTxs
    /\ UNCHANGED <<brokerBalances, stopCnt, stopped, pool, proposal, chainVars>>

\* ConfirmBrokerTx: the records that a reported half finds waiting for it.
\* Any other report is refused.
Confirmable(records, txs, half) ==
    {i \in records : /\ i.confirmStage = half
                     /\ [tx |-> i.tx, broker |-> i.broker,
                         stage |-> IF half = 1 THEN "broker1" ELSE "broker2"] \in txs}

\* Mutant of Cleared: a deduction stays pending.
ClearedNever(pending, amount) == pending

Cleared(pending, amount) == Max({0, pending - amount})

\* Mutant of Settled: the second half is booked like the first.
SettledBothIn(b, first, second) ==
    Total({i.tx : i \in {j \in first \cup second : j.broker = b}})

\* What a block of broker halves does to the money of b in its shard.
Settled(b, first, second) ==
    Total({i.tx : i \in {j \in first : j.broker = b}})
        - Total({i.tx : i \in {j \in second : j.broker = b}})

\* HandleMsg.  stopCnt counts no further than the threshold it is compared
\* with.
HandleBlockInfo(m) ==
    /\ ~stopped
    /\ m.type = "info"
    /\ net' = net \ {m}
    /\ stopCnt' = CASE unsent = {} /\ m.txs = {} -> Min({stopCnt + 1, StopThreshold})
                    [] unsent = {} /\ m.txs # {} -> 0
                    [] OTHER -> stopCnt
    /\ LET first  == Confirmable(unconfirmed, m.txs, 1)
           after  == (unconfirmed \ first) \cup {[i EXCEPT !.confirmStage = 2] : i \in first}
           second == Confirmable(after, m.txs, 2)
           Paid(b) == Total({i.tx : i \in {j \in second : j.broker = b}})
       IN  /\ unconfirmed' = after \ second
           /\ readyBroker2' = readyBroker2 \cup {i.tx : i \in first}
           /\ brokerBalances' = [b \in Broker |->
                [brokerBalances[b] EXCEPT ![m.shard] = @ + Settled(b, first, second)]]
           /\ pendingDeductions' = [b \in Broker |->
                [pendingDeductions[b] EXCEPT ![m.shard] = Cleared(@, Paid(b))]]
    /\ UNCHANGED <<unsent, stopped, pool, proposal, chainVars>>

\* Mutant of IsFinished: as in the committee of clpa_broker.
IsFinishedAlways == TRUE

IsFinished == unconfirmed = {} /\ readyBroker2 = {}

\* ShouldStop ends the main loop of the supervisor.
Stop ==
    /\ ~stopped
    /\ stopCnt >= StopThreshold
    /\ IsFinished
    /\ stopped' = TRUE
    /\ UNCHANGED <<unsent, bookVars, stopCnt, pool, proposal, chainVars, net>>

-----------------------------------------------------------------------------
(***************************************************************************)
(* The leaders                                                             *)
(***************************************************************************)

HandleReceiveTxs(m) ==
    /\ m.type = "txs"
    /\ net' = net \ {m}
    /\ pool' = [pool EXCEPT ![m.to] = @ \cup m.txs]
    /\ UNCHANGED <<unsent, bookVars, stopCnt, stopped, proposal, chainVars>>

\* BuildProposal of StaticShardOp.
BuildProposal(s) ==
    /\ ~proposal[s].built
    /\ \E txs \in SUBSET pool[s] :
         /\ Cardinality(txs) = Min({BlockSizeLimit, Cardinality(pool[s])})
         /\ pool' = [pool EXCEPT ![s] = @ \ txs]
         /\ proposal' = [proposal EXCEPT ![s] = [txs |-> txs, built |-> TRUE]]
    /\ UNCHANGED <<unsent, bookVars, stopCnt, stopped, chainVars, net>>

\* Who pays and who is paid by a transaction in the shard that executes it.
Payer(c) == CASE c.stage \in {"inner", "broker1", "relay1"} -> Sender[c.tx]
              [] c.stage = "broker2" -> c.broker
              [] c.stage = "relay2"  -> NoBroker

Payee(c) == CASE c.stage \in {"inner", "broker2", "relay2"} -> Recipient[c.tx]
              [] c.stage = "broker1" -> c.broker
              [] c.stage = "relay1"  -> NoBroker

\* What the transactions of a block find in account x.  The commit of a block
\* deletes the accounts that are left with nothing, and the first transaction
\* of a later block that needs such an account creates it again, with all the
\* money an account begins with (setInitBalanceIfNotExist,
\* setBrokerInitBalanceIfNotExist).
Opening(x, txs, old) ==
    IF old[x] = 0 /\ (\E c \in txs : x \in {Payer(c), Payee(c)})
    THEN FirstBalance(x)
    ELSE old[x]

\* txExecute for the transactions of a block.
Executed(txs, old) ==
    [x \in Account \cup Broker |->
        Opening(x, txs, old) + Total({c.tx : c \in {d \in txs : Payee(d) = x}})
                             - Total({c.tx : c \in {d \in txs : Payer(d) = x}})]

\* Mutant of Relayed: the first half of a broker transfer is relayed too.
RelayedAll(txs) ==
    {[c EXCEPT !.stage = "relay2"] : c \in {d \in txs : d.stage \in {"relay1", "broker1"}}}

\* sendRelayedTxs
Relayed(txs) ==
    {[c EXCEPT !.stage = "relay2"] : c \in {d \in txs : d.stage = "relay1"}}

Undelivered(s) == {m \in net : m.type = "info" /\ m.shard = s}

\* BlockCommitAndDeliver.  A stopped supervisor has closed its connection.
BlockCommitAndDeliver(s) ==
    /\ proposal[s].built
    /\ LET txs  == proposal[s].txs
           info == [type |-> "info", shard |-> s, txs |-> txs]
       IN  /\ \/ stopped
              \/ info \notin net /\ Cardinality(Undelivered(s)) < MaxInfo
           /\ balance'   = [balance EXCEPT ![s] = Executed(txs, @)]
           /\ committed' = [committed EXCEPT ![s] = @ \cup txs]
           /\ net' = net \cup (IF stopped THEN {} ELSE {info}) \cup SendTxs(Relayed(txs))
    /\ proposal' = [proposal EXCEPT ![s] = NoBlock]
    /\ UNCHANGED <<unsent, bookVars, stopCnt, stopped, pool>>

Receive(s) == \E m \in net : m.type = "txs" /\ m.to = s /\ HandleReceiveTxs(m)

Leader(s) == BuildProposal(s) \/ BlockCommitAndDeliver(s)

Next ==
    \/ ReadTxsAndSend
    \/ \E m \in net : HandleBlockInfo(m)
    \/ Stop
    \/ \E s \in Shard : Receive(s) \/ Leader(s)

Spec == Init /\ [][Next]_vars

\* The tickers of supervisor and leaders keep firing, a tick drains the
\* message buffer, so that no shard's block infos wait behind another's for
\* ever, and a proposed block is committed.  That the supervisor stops is not
\* assumed.
Fairness ==
    /\ WF_vars(ReadTxsAndSend)
    /\ \A s \in Shard : WF_vars(\E m \in Undelivered(s) : HandleBlockInfo(m))
    /\ \A s \in Shard : WF_vars(Receive(s)) /\ WF_vars(Leader(s))

FairSpec == Spec /\ Fairness

-----------------------------------------------------------------------------
(***************************************************************************)
(* Properties                                                              *)
(***************************************************************************)

Committed(t, stage) == \E s \in Shard : \E c \in committed[s] : c.tx = t /\ c.stage = stage

Done(t) == \E stage \in {"inner", "broker2", "relay2"} : Committed(t, stage)

Holds(txs, t) == \E c \in txs : c.tx = t

\* The places where transfer t, or the half of it that comes next, waits.
Copies(t) ==
      (IF t \in unsent THEN 1 ELSE 0)
    + (IF t \in readyBroker2 THEN 1 ELSE 0)
    + Cardinality({m \in net : m.type = "txs" /\ Holds(m.txs, t)})
    + Cardinality({m \in net : m.type = "info" /\
                               \E c \in m.txs : c.tx = t /\ c.stage = "broker1"})
    + Cardinality({s \in Shard : Holds(pool[s], t)})
    + Cardinality({s \in Shard : Holds(proposal[s].txs, t)})

\* Between supervisor, pools, blocks and block infos, an unfinished transfer
\* is in exactly one place: no half is sent twice and none is forgotten.
NothingLostOrDoubled == \A t \in Tx : Copies(t) = IF Done(t) THEN 0 ELSE 1

\* The block infos of two shards overtake each other; still every half that
\* is reported finds the manager waiting for it.
ConfirmsInOrder ==
    \A m \in net : \A c \in (IF m.type = "info" THEN m.txs ELSE {}) :
        c.stage \in {"broker1", "broker2"} =>
            [tx |-> c.tx, broker |-> c.broker,
             confirmStage |-> IF c.stage = "broker1" THEN 1 ELSE 2] \in unconfirmed

\* The value of the halves of b at shard s that are on their way to the
\* supervisor.
Unreported(b, s, stage) ==
    LET reports == UNION {m.txs : m \in Undelivered(s)}
    IN  Total({c.tx : c \in {d \in reports : d.broker = b /\ d.stage = stage}})

\* An amount that is made up of initial balances of a broker only.
Refills(amount) == \E n \in 0 .. amount : amount = n * BrokerInitBalance

\* The balance the committee believes a broker to have in a shard is the one
\* in the state of that shard, up to the blocks it has not heard of and up to
\* the initial balances the shard has given it anew, of which the committee
\* never hears, each time the broker had paid out the last coin.  So it is
\* never too high, and off by nothing else.
BooksMatchChain ==
    \A b \in Broker, s \in Shard :
        Refills(balance[s][b] - Unreported(b, s, "broker1") + Unreported(b, s, "broker2")
                    - brokerBalances[b][s])

\* Second halves that broker b has promised in shard s and not yet paid.
Promised(b, s) ==
    {i.tx : i \in {j \in unconfirmed : /\ j.broker = b /\ To(j.tx) = s
                                       /\ ~Committed(j.tx, "broker2")}}

\* brokerTxExecute takes the second half from the broker without looking at
\* its balance; it is there whenever that happens, so it never wraps around.
PromisesCovered ==
    \A b \in Broker, s \in Shard : balance[s][b] >= Total(Promised(b, s))

\* A pending deduction stands for transfers that are not confirmed, and for
\* all of them: none stays behind to keep a broker from paying.
PendingIsUnconfirmed ==
    \A b \in Broker, s \in Shard :
        pendingDeductions[b][s] =
            Total({i.tx : i \in {j \in unconfirmed : j.broker = b /\ To(j.tx) = s}})

\* A sender who has paid a broker is not left alone: in the end every first
\* half has its second, whenever the supervisor stops.
HalvesComplete ==
    <>[] \A t \in Tx : Committed(t, "broker1") => Committed(t, "broker2")
=============================================================================

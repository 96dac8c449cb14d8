-------------------------- MODULE BrokerShardsProofs --------------------------
(***************************************************************************)
(* Proofs about BrokerShards for any shards, brokers, accounts, amounts    *)
(* and order of messages: no transfer is lost or doubled, every half that  *)
(* is reported finds its record, the books of the supervisor match the     *)
(* chain, and no broker pays what it has not got.                          *)
(***************************************************************************)
EXTENDS BrokerShards, TransferSums

\* What a message on its way holds of a transfer: a transaction to be packed,
\* or the report that makes the second half of a transfer ready.
Carries(m, c) == c \in m.txs /\ (m.type = "txs" \/ c.stage = "broker1")

\* The places where transfer t waits, each with the transaction found there,
\* given the variables that may hold it.
PlacesIn(t, source, readied, msgs, pools, blocks) ==
         {p \in {<<"source", t>>} : t \in source}
    \cup {p \in {<<"ready", t>>} : t \in readied}
    \cup {p \in {"net"}   \X msgs  \X Copy : p[3].tx = t /\ Carries(p[2], p[3])}
    \cup {p \in {"pool"}  \X Shard \X Copy : p[3].tx = t /\ p[3] \in pools[p[2]]}
    \cup {p \in {"block"} \X Shard \X Copy : p[3].tx = t /\ p[3] \in blocks[p[2]].txs}

Places(t) == PlacesIn(t, unsent, readyBroker2, net, pool, proposal)

\* An unfinished transfer waits in one place, as one transaction.
PlaceInv ==
    \A t \in Tx : /\ \A p, q \in Places(t) : p = q
                  /\ Places(t) = {} <=> Done(t)

\* The record a broker half belongs to.
Record(c) == [tx |-> c.tx, broker |-> c.broker,
              confirmStage |-> IF c.stage = "broker1" THEN 1 ELSE 2]

IsHalf(c) == c.stage \in {"broker1", "broker2"}

\* A transaction is where it is to be handled, and if it is a broker half the
\* manager waits for it.
Expected(s, c) == TxLoc(c) = s /\ (IsHalf(c) => Record(c) \in unconfirmed)

CopyInv ==
    /\ \A m \in net : \A c \in m.txs : Expected(IF m.type = "txs" THEN m.to ELSE m.shard, c)
    /\ \A s \in Shard : \A c \in pool[s] : Expected(s, c)
    /\ \A s \in Shard : \A c \in proposal[s].txs : Expected(s, c)
    /\ \A s \in Shard : ~proposal[s].built => proposal[s].txs = {}

\* What is reported is in the chain, and a second half is reported once.
ReportInv ==
    /\ \A m \in net : m.type = "info" => m.txs \subseteq committed[m.shard]
    /\ \A m, n \in net : \A c \in m.txs \cap n.txs :
          m.type = "info" /\ n.type = "info" /\ c.stage = "broker2" => m = n

\* A transfer has one record, from its first half on until its second half
\* is reported; the supervisor does not stop as long as it has one.
RecordInv ==
    /\ \A i, j \in unconfirmed : i.tx = j.tx => i = j
    /\ \A i \in unconfirmed : i.tx \notin unsent
    /\ \A t \in readyBroker2 : \E i \in unconfirmed : i.tx = t /\ i.confirmStage = 2
    /\ stopped => unconfirmed = {}

\* A broker never promises more than the supervisor believes it to have.
AvailableInv == \A b \in Broker, s \in Shard : brokerBalances[b][s] >= pendingDeductions[b][s]

-----------------------------------------------------------------------------
(***************************************************************************)
(* Amounts                                                                 *)
(***************************************************************************)

LEMMA TotalIsSum ==
  ASSUME NEW T \in SUBSET Tx
  PROVE  Total(T) = SumOf(Value, T)
BY DEF Total, SumOf

LEMMA TotalNat ==
  ASSUME NEW T \in SUBSET Tx
  PROVE  Total(T) \in Nat
<1>1. IsFiniteSet(Tx) /\ Value \in [Tx -> Nat]  BY TxAssumption
<1>2. SumOf(Value, T) \in Nat  BY <1>1, SumNat
<1> QED  BY <1>2, TotalIsSum

LEMMA TotalEmpty == Total({}) = 0
BY TxAssumption, TotalIsSum, SumEmpty

LEMMA TotalUnion ==
  ASSUME NEW T \in SUBSET Tx, NEW U \in SUBSET Tx, T \cap U = {}
  PROVE  Total(T \cup U) = Total(T) + Total(U)
<1>1. T \cup U \in SUBSET Tx  OBVIOUS
<1>2. IsFiniteSet(Tx) /\ Value \in [Tx -> Nat]  BY TxAssumption
<1>3. SumOf(Value, T \cup U) = SumOf(Value, T) + SumOf(Value, U)
  BY <1>2, SumUnion
<1> QED  BY <1>1, <1>3, TotalIsSum

LEMMA TotalDifference ==
  ASSUME NEW T \in SUBSET Tx, NEW U \in SUBSET T
  PROVE  Total(T \ U) = Total(T) - Total(U) /\ Total(U) <= Total(T)
<1>1. T = (T \ U) \cup U /\ (T \ U) \cap U = {}  OBVIOUS
<1>2. Total(T) = Total(T \ U) + Total(U)  BY <1>1, TotalUnion
<1>3. Total(T) \in Nat /\ Total(T \ U) \in Nat /\ Total(U) \in Nat  BY TotalNat
<1> QED  BY <1>2, <1>3

\* Paid money does not become negative.
LEMMA ClearedIs ==
  ASSUME NEW n \in Nat, NEW k \in Nat
  PROVE  Cleared(n, k) = IF k <= n THEN n - k ELSE 0
<1>1. CASE k <= n
  <2>1. \A y \in {0, n - k} : n - k >= y  BY <1>1
  <2>2. \A x \in {0, n - k} : (\A y \in {0, n - k} : x >= y) => x = n - k  BY <1>1
  <2> QED  BY <1>1, <2>1, <2>2 DEF Cleared, Max
<1>2. CASE ~(k <= n)
  <2>1. \A y \in {0, n - k} : 0 >= y  BY <1>2
  <2>2. \A x \in {0, n - k} : (\A y \in {0, n - k} : x >= y) => x = 0  BY <1>2
  <2> QED  BY <1>2, <2>1, <2>2 DEF Cleared, Max
<1> QED  BY <1>1, <1>2

LEMMA NextCount ==
  ASSUME NEW n \in 0 .. StopThreshold
  PROVE  Min({n + 1, StopThreshold}) \in 0 .. StopThreshold
<1>1. StopThreshold \in Nat  BY SizeAssumption
<1>2. \E x \in {n + 1, StopThreshold} : \A y \in {n + 1, StopThreshold} : x <= y
  BY <1>1
<1>3. PICK x \in {n + 1, StopThreshold} :
          /\ \A y \in {n + 1, StopThreshold} : x <= y
          /\ Min({n + 1, StopThreshold}) = x
  BY <1>2 DEF Min
<1> QED  BY <1>1, <1>3

-----------------------------------------------------------------------------
(***************************************************************************)
(* What the handlers do, in terms of transactions and records              *)
(***************************************************************************)

\* The transfers that need a broker, what is sent when the brokers are those
\* of f, and the records that are written.
Cross == {t \in ReadTxs : From(t) # To(t)}

SentCopy(f, t) ==
    [tx     |-> t,
     stage  |-> IF t \notin Cross THEN "inner"
                ELSE IF f[t] = NoBroker THEN "relay1" ELSE "broker1",
     broker |-> IF t \in Cross THEN f[t] ELSE NoBroker]

Outgoing(f) == {SentCopy(f, t) : t \in ReadTxs} \cup CreateBroker2Txs

Brokered(f) == {t \in Cross : f[t] # NoBroker}

NewRecord(f, t) == [tx |-> t, broker |-> f[t], confirmStage |-> 1]

Assigned(f, b, s) == {t \in Cross : f[t] = b /\ To(t) = s}

LEMMA ReadIs ==
  ASSUME ReadTxsAndSend
  PROVE  /\ ~stopped
         /\ \E f \in BrokerChoices(Cross) :
              /\ net' = net \cup SendTxs(Outgoing(f))
              /\ unconfirmed' = unconfirmed \cup {NewRecord(f, t) : t \in Brokered(f)}
              /\ pendingDeductions' = [b \in Broker |-> [s \in Shard |->
                    pendingDeductions[b][s] + Total(Assigned(f, b, s))]]
         /\ readyBroker2' = {}
         /\ unsent' = unsent \ ReadTxs
         /\ UNCHANGED <<brokerBalances, stopCnt, stopped, pool, proposal, chainVars>>
BY DEF ReadTxsAndSend, Cross, Outgoing, SentCopy, Brokered, NewRecord, Assigned

LEMMA ChoiceType ==
  ASSUME NEW f \in BrokerChoices(Cross)
  PROVE  f \in [Cross -> Broker \cup {NoBroker}]
BY DEF BrokerChoices

LEMMA TxLocType ==
  ASSUME NEW c \in Copy
  PROVE  /\ TxLoc(c) \in Shard
         /\ c.tx \in Tx
         /\ c.stage \in {"inner", "relay1", "relay2", "broker1", "broker2"}
         /\ c.stage \in {"broker1", "broker2"} => c.broker \in Broker
         /\ c = [tx |-> c.tx, stage |-> c.stage, broker |-> c.broker]
BY TxAssumption DEF TxLoc, From, To, Copy

\* A broker half is known by its transfer, its stage and its broker.
LEMMA HalfType ==
  ASSUME NEW t \in Tx, NEW b \in Broker, NEW st \in {"broker1", "broker2"}
  PROVE  [tx |-> t, stage |-> st, broker |-> b] \in Copy
BY DEF Copy

LEMMA SendTxsIs ==
  ASSUME NEW txs \in SUBSET Copy
  PROVE  /\ \A m \in SendTxs(txs) :
              /\ m \in Message
              /\ m.type = "txs"
              /\ m.txs = {c \in txs : TxLoc(c) = m.to}
         /\ \A c \in txs : \E m \in SendTxs(txs) : c \in m.txs
         /\ \A m, n \in SendTxs(txs) : m.to = n.to => m = n
<1>1. ASSUME NEW m \in SendTxs(txs)
      PROVE  \E s \in Shard : m = [type |-> "txs", to |-> s, txs |-> {c \in txs : TxLoc(c) = s}]
  BY <1>1, TxLocType DEF SendTxs
<1>2. ASSUME NEW m \in SendTxs(txs)
      PROVE  /\ m \in Message
             /\ m.type = "txs"
             /\ m.txs = {c \in txs : TxLoc(c) = m.to}
  BY <1>1, <1>2 DEF Message
<1>3. ASSUME NEW c \in txs
      PROVE  \E m \in SendTxs(txs) : c \in m.txs
  <2> DEFINE m == [type |-> "txs", to |-> TxLoc(c), txs |-> {d \in txs : TxLoc(d) = TxLoc(c)}]
  <2>1. m \in SendTxs(txs)  BY DEF SendTxs
  <2>2. c \in m.txs  OBVIOUS
  <2> QED  BY <2>1, <2>2
<1>4. ASSUME NEW m \in SendTxs(txs), NEW n \in SendTxs(txs), m.to = n.to
      PROVE  m = n
  BY <1>1, <1>4
<1> QED  BY <1>2, <1>3, <1>4

\* What the supervisor sends: the transfers it has read, and the second
\* halves whose record waits for them.
LEMMA OutgoingIs ==
  ASSUME TypeOK, NEW f \in BrokerChoices(Cross)
  PROVE  /\ Outgoing(f) \in SUBSET Copy
         /\ \A c \in Outgoing(f) :
              \/ /\ c.tx \in ReadTxs /\ c = SentCopy(f, c.tx)
                 /\ c.stage \in {"inner", "relay1", "broker1"}
                 /\ c.stage = "broker1" => c.tx \in Brokered(f) /\ Record(c) = NewRecord(f, c.tx)
              \/ /\ c.stage = "broker2" /\ c.tx \in readyBroker2
                 /\ Record(c) \in unconfirmed
         /\ \A t \in ReadTxs : \E c \in Outgoing(f) : c.tx = t
         /\ \A i \in unconfirmed : i.tx \in readyBroker2 /\ i.confirmStage = 2 =>
              \E c \in Outgoing(f) : c.tx = i.tx
<1>1. f \in [Cross -> Broker \cup {NoBroker}]  BY ChoiceType
<1>2. ReadTxs \subseteq Tx  BY DEF ReadTxs, TypeOK
<1>3. ASSUME NEW t \in ReadTxs
      PROVE  /\ SentCopy(f, t) \in Copy
             /\ SentCopy(f, t).tx = t
             /\ SentCopy(f, t).stage \in {"inner", "relay1", "broker1"}
             /\ SentCopy(f, t).stage = "broker1" =>
                   t \in Brokered(f) /\ Record(SentCopy(f, t)) = NewRecord(f, t)
  <2>1. CASE t \notin Cross
    <3>1. SentCopy(f, t) = [tx |-> t, stage |-> "inner", broker |-> NoBroker]
      BY <2>1 DEF SentCopy
    <3> QED  BY <1>2, <3>1 DEF Copy
  <2>2. CASE t \in Cross /\ f[t] = NoBroker
    <3>1. SentCopy(f, t) = [tx |-> t, stage |-> "relay1", broker |-> NoBroker]
      BY <2>2 DEF SentCopy
    <3> QED  BY <1>2, <3>1 DEF Copy
  <2>3. CASE t \in Cross /\ f[t] # NoBroker
    <3>1. SentCopy(f, t) = [tx |-> t, stage |-> "broker1", broker |-> f[t]]
      BY <2>3 DEF SentCopy
    <3>2. f[t] \in Broker  BY <1>1, <2>3
    <3> QED  BY <1>2, <2>3, <3>1, <3>2 DEF Copy, Brokered, Record, NewRecord
  <2> QED  BY <2>1, <2>2, <2>3
<1>4. ASSUME NEW c \in CreateBroker2Txs
      PROVE  /\ c \in Copy /\ c.stage = "broker2" /\ c.tx \in readyBroker2
             /\ Record(c) \in unconfirmed
  <2>1. PICK i \in unconfirmed : /\ i.tx \in readyBroker2 /\ i.confirmStage = 2
                                 /\ c = [tx |-> i.tx, stage |-> "broker2", broker |-> i.broker]
    BY <1>4 DEF CreateBroker2Txs
  <2>2. i \in TxInfoStage  BY DEF TypeOK
  <2>3. i = [tx |-> i.tx, broker |-> i.broker, confirmStage |-> 2]  BY <2>1, <2>2 DEF TxInfoStage
  <2>4. i.tx \in Tx /\ i.broker \in Broker  BY <2>2 DEF TxInfoStage
  <2>5. Record(c) = i  BY <2>1, <2>3 DEF Record
  <2> QED  BY <2>1, <2>4, <2>5 DEF Copy
<1>5. ASSUME NEW i \in unconfirmed, i.tx \in readyBroker2, i.confirmStage = 2
      PROVE  \E c \in CreateBroker2Txs : c.tx = i.tx
  <2>1. [tx |-> i.tx, stage |-> "broker2", broker |-> i.broker] \in CreateBroker2Txs
    BY <1>5 DEF CreateBroker2Txs
  <2> QED  BY <2>1
<1>6. Outgoing(f) \in SUBSET Copy  BY <1>3, <1>4 DEF Outgoing
<1>7. ASSUME NEW c \in Outgoing(f)
      PROVE  \/ /\ c.tx \in ReadTxs /\ c = SentCopy(f, c.tx)
                /\ c.stage \in {"inner", "relay1", "broker1"}
                /\ c.stage = "broker1" => c.tx \in Brokered(f) /\ Record(c) = NewRecord(f, c.tx)
             \/ /\ c.stage = "broker2" /\ c.tx \in readyBroker2
                /\ Record(c) \in unconfirmed
  <2>1. CASE c \in CreateBroker2Txs  BY <2>1, <1>4
  <2>2. CASE \E t \in ReadTxs : c = SentCopy(f, t)  BY <2>2, <1>3
  <2> QED  BY <1>7, <2>1, <2>2 DEF Outgoing
<1>8. \A t \in ReadTxs : \E c \in Outgoing(f) : c.tx = t  BY <1>3 DEF Outgoing
<1> QED  BY <1>5, <1>6, <1>7, <1>8 DEF Outgoing

\* The records that wait for the first halves in a block info, and the
\* records whose second half it then reports.
First(m)  == Confirmable(unconfirmed, m.txs, 1)
After(m)  == (unconfirmed \ First(m)) \cup {[i EXCEPT !.confirmStage = 2] : i \in First(m)}
Second(m) == Confirmable(After(m), m.txs, 2)

TxsOf(records, b) == {i.tx : i \in {j \in records : j.broker = b}}

LEMMA InfoIs ==
  ASSUME NEW m \in net, HandleBlockInfo(m)
  PROVE  /\ ~stopped
         /\ m.type = "info"
         /\ net' = net \ {m}
         /\ unconfirmed' = After(m) \ Second(m)
         /\ readyBroker2' = readyBroker2 \cup {i.tx : i \in First(m)}
         /\ brokerBalances' = [b \in Broker |->
              [brokerBalances[b] EXCEPT ![m.shard] =
                 @ + (Total(TxsOf(First(m), b)) - Total(TxsOf(Second(m), b)))]]
         /\ pendingDeductions' = [b \in Broker |->
              [pendingDeductions[b] EXCEPT ![m.shard] = Cleared(@, Total(TxsOf(Second(m), b)))]]
         /\ stopCnt' \in {stopCnt, 0, Min({stopCnt + 1, StopThreshold})}
         /\ UNCHANGED <<unsent, stopped, pool, proposal, chainVars>>
<1>1. stopCnt' \in {stopCnt, 0, Min({stopCnt + 1, StopThreshold})}
  BY DEF HandleBlockInfo
<1> QED  BY <1>1 DEF HandleBlockInfo, First, After, Second, TxsOf, Settled

LEMMA Advanced ==
  ASSUME NEW i \in TxInfoStage
  PROVE  [i EXCEPT !.confirmStage = 2] = [tx |-> i.tx, broker |-> i.broker, confirmStage |-> 2]
BY DEF TxInfoStage

LEMMA MessageType ==
  ASSUME NEW m \in Message
  PROVE  /\ m.txs \in SUBSET Copy
         /\ m.type = "txs" => m.to \in Shard
         /\ m.type = "info" => m.shard \in Shard
         /\ m.type \in {"txs", "info"}
BY DEF Message

LEMMA RecordsType ==
  ASSUME TypeOK, NEW m \in net
  PROVE  /\ First(m) = {i \in unconfirmed : /\ i.confirmStage = 1
                                            /\ [tx |-> i.tx, stage |-> "broker1", broker |-> i.broker] \in m.txs}
         /\ After(m) = (unconfirmed \ First(m))
                         \cup {[tx |-> i.tx, broker |-> i.broker, confirmStage |-> 2] : i \in First(m)}
         /\ Second(m) = {i \in After(m) : /\ i.confirmStage = 2
                                          /\ [tx |-> i.tx, stage |-> "broker2", broker |-> i.broker] \in m.txs}
         /\ First(m) \subseteq TxInfoStage
         /\ After(m) \subseteq TxInfoStage
<1>1. First(m) = {i \in unconfirmed : /\ i.confirmStage = 1
                                      /\ [tx |-> i.tx, stage |-> "broker1", broker |-> i.broker] \in m.txs}
  BY DEF First, Confirmable
<1>2. First(m) \subseteq TxInfoStage  BY <1>1 DEF TypeOK
<1>3. ASSUME NEW i \in First(m)
      PROVE  [i EXCEPT !.confirmStage = 2] = [tx |-> i.tx, broker |-> i.broker, confirmStage |-> 2]
  BY <1>2, Advanced
<1>4. After(m) = (unconfirmed \ First(m))
                   \cup {[tx |-> i.tx, broker |-> i.broker, confirmStage |-> 2] : i \in First(m)}
  <2> DEFINE advanced(i) == [i EXCEPT !.confirmStage = 2]
             recorded(i) == [tx |-> i.tx, broker |-> i.broker, confirmStage |-> 2]
  <2>1. After(m) = (unconfirmed \ First(m)) \cup {advanced(i) : i \in First(m)}
    BY DEF After
  <2>2. \A i \in First(m) : advanced(i) = recorded(i)  BY <1>3
  <2> HIDE DEF advanced, recorded
  <2>3. After(m) = (unconfirmed \ First(m)) \cup {recorded(i) : i \in First(m)}
    BY <2>1, <2>2
  <2> QED  BY <2>3 DEF recorded
<1>5. Second(m) = {i \in After(m) : /\ i.confirmStage = 2
                                    /\ [tx |-> i.tx, stage |-> "broker2", broker |-> i.broker] \in m.txs}
  BY DEF Second, Confirmable
<1>6. After(m) \subseteq TxInfoStage  BY <1>2, <1>4 DEF TypeOK, TxInfoStage
<1> QED  BY <1>1, <1>2, <1>4, <1>5, <1>6

LEMMA TxsOfType ==
  ASSUME NEW R \in SUBSET TxInfoStage, NEW b
  PROVE  TxsOf(R, b) \in SUBSET Tx
BY DEF TxsOf, TxInfoStage

LEMMA ExecutedType ==
  ASSUME NEW txs \in SUBSET Copy, NEW old \in [Account \cup Broker -> Int]
  PROVE  Executed(txs, old) \in [Account \cup Broker -> Int]
<1> SUFFICES ASSUME NEW x \in Account \cup Broker
             PROVE  Opening(x, txs, old) + Total({c.tx : c \in {d \in txs : Payee(d) = x}})
                       - Total({c.tx : c \in {d \in txs : Payer(d) = x}}) \in Int
  BY DEF Executed
<1>0. Opening(x, txs, old) \in Int
  BY FundsAssumption, SizeAssumption DEF Opening, FirstBalance
<1> DEFINE P == {c.tx : c \in {d \in txs : Payee(d) = x}}
           Q == {c.tx : c \in {d \in txs : Payer(d) = x}}
<1>1. P \in SUBSET Tx /\ Q \in SUBSET Tx  BY DEF Copy
<1>2. Total(P) \in Nat /\ Total(Q) \in Nat  BY <1>1, TotalNat
<1> HIDE DEF P, Q
<1>3. Opening(x, txs, old) + Total(P) - Total(Q) \in Int  BY <1>0, <1>2
<1> QED  BY <1>3 DEF P, Q

LEMMA RelayedCopy ==
  ASSUME NEW c \in [tx : Tx, stage : {"inner", "relay1", "relay2"}, broker : {NoBroker}]
  PROVE  [c EXCEPT !.stage = "relay2"] = [tx |-> c.tx, stage |-> "relay2", broker |-> NoBroker]
OBVIOUS

\* What a relay makes of the first half of a relayed transfer.
LEMMA RelayedIs ==
  ASSUME NEW txs \in SUBSET Copy
  PROVE  Relayed(txs) = {[tx |-> c.tx, stage |-> "relay2", broker |-> NoBroker] :
                           c \in {d \in txs : d.stage = "relay1"}}
<1> DEFINE R == {d \in txs : d.stage = "relay1"}
           F(c) == [c EXCEPT !.stage = "relay2"]
           G(c) == [tx |-> c.tx, stage |-> "relay2", broker |-> NoBroker]
<1>1. ASSUME NEW c \in R
      PROVE  F(c) = G(c)
  <2>1. c \in [tx : Tx, stage : {"inner", "relay1", "relay2"}, broker : {NoBroker}]
    BY <1>1 DEF Copy
  <2> QED  BY <2>1, RelayedCopy
<1>2. Relayed(txs) = {F(c) : c \in R}  BY DEF Relayed
<1> HIDE DEF R, F, G
<1>3. {F(c) : c \in R} = {G(c) : c \in R}  BY <1>1
<1> QED  BY <1>2, <1>3 DEF R, G

LEMMA RelayedType ==
  ASSUME NEW txs \in SUBSET Copy
  PROVE  Relayed(txs) \in SUBSET Copy
BY RelayedIs DEF Copy

BlockInfo(s) == [type |-> "info", shard |-> s, txs |-> proposal[s].txs]

LEMMA CommitIs ==
  ASSUME NEW s \in Shard, BlockCommitAndDeliver(s)
  PROVE  /\ proposal[s].built
         /\ stopped \/ BlockInfo(s) \notin net
         /\ balance'   = [balance EXCEPT ![s] = Executed(proposal[s].txs, @)]
         /\ committed' = [committed EXCEPT ![s] = @ \cup proposal[s].txs]
         /\ net' = net \cup (IF stopped THEN {} ELSE {BlockInfo(s)})
                       \cup SendTxs(Relayed(proposal[s].txs))
         /\ proposal' = [proposal EXCEPT ![s] = NoBlock]
         /\ UNCHANGED <<unsent, bookVars, stopCnt, stopped, pool>>
BY DEF BlockCommitAndDeliver, BlockInfo

-----------------------------------------------------------------------------
(***************************************************************************)
(* Types                                                                   *)
(***************************************************************************)

LEMMA TypeInit == Init => TypeOK
<1> SUFFICES ASSUME Init PROVE TypeOK  OBVIOUS
<1>1. InitBalance \in Int /\ BrokerInitBalance \in Nat /\ StopThreshold \in Nat
  BY FundsAssumption, SizeAssumption
<1>2. balance \in [Shard -> [Account \cup Broker -> Int]]  BY <1>1 DEF Init, FirstBalance
<1>3. proposal \in [Shard -> [txs : SUBSET Copy, built : BOOLEAN]]  BY DEF Init, NoBlock
<1>4. stopCnt \in 0 .. StopThreshold  BY <1>1 DEF Init
<1>5. /\ brokerBalances \in [Broker -> [Shard -> Int]]
      /\ pendingDeductions \in [Broker -> [Shard -> Nat]]
  BY <1>1 DEF Init
<1>6. pool \in [Shard -> SUBSET Copy] /\ committed \in [Shard -> SUBSET Copy]
  BY DEF Init
<1> QED  BY <1>2, <1>3, <1>4, <1>5, <1>6 DEF Init, TypeOK

LEMMA TypeRead ==
  ASSUME TypeOK, ReadTxsAndSend
  PROVE  TypeOK'
<1>1. PICK f \in BrokerChoices(Cross) :
              /\ net' = net \cup SendTxs(Outgoing(f))
              /\ unconfirmed' = unconfirmed \cup {NewRecord(f, t) : t \in Brokered(f)}
              /\ pendingDeductions' = [b \in Broker |-> [s \in Shard |->
                    pendingDeductions[b][s] + Total(Assigned(f, b, s))]]
  BY ReadIs
<1>2. Outgoing(f) \in SUBSET Copy  BY OutgoingIs
<1>3. net' \subseteq Message  BY <1>1, <1>2, SendTxsIs DEF TypeOK
<1>4. Cross \subseteq Tx  BY DEF Cross, ReadTxs, TypeOK
<1>5. f \in [Cross -> Broker \cup {NoBroker}]  BY ChoiceType
<1>6. unconfirmed' \subseteq TxInfoStage
  BY <1>1, <1>4, <1>5 DEF TypeOK, Brokered, NewRecord, TxInfoStage
<1>7. \A b \in Broker, s \in Shard : Total(Assigned(f, b, s)) \in Nat
  BY <1>4, TotalNat DEF Assigned
<1>8. \A b \in Broker, s \in Shard : pendingDeductions[b][s] \in Nat  BY DEF TypeOK
<1>9. pendingDeductions' \in [Broker -> [Shard -> Nat]]  BY <1>1, <1>7, <1>8
<1>10. readyBroker2' \subseteq Tx /\ unsent' \subseteq Tx  BY ReadIs DEF TypeOK
<1>11. UNCHANGED <<brokerBalances, stopCnt, stopped, pool, proposal, balance, committed>>
  BY ReadIs DEF chainVars
<1> QED  BY <1>3, <1>6, <1>9, <1>10, <1>11 DEF TypeOK

LEMMA TypeInfo ==
  ASSUME TypeOK, NEW m \in net, HandleBlockInfo(m)
  PROVE  TypeOK'
<1>1. m \in Message /\ m.type = "info"  BY InfoIs DEF TypeOK
<1>2. m.shard \in Shard  BY <1>1, MessageType
<1>3. net' \subseteq Message  BY InfoIs DEF TypeOK
<1>4. First(m) \subseteq TxInfoStage /\ After(m) \subseteq TxInfoStage /\ Second(m) \subseteq After(m)
  BY RecordsType
<1>5. unconfirmed' \subseteq TxInfoStage  BY <1>4, InfoIs
<1>6. readyBroker2' \subseteq Tx  BY <1>4, InfoIs DEF TypeOK, TxInfoStage
<1>7. \A b \in Broker : Total(TxsOf(First(m), b)) \in Nat /\ Total(TxsOf(Second(m), b)) \in Nat
  BY <1>4, TxsOfType, TotalNat
<1>8. \A b \in Broker : \A n \in Nat : Cleared(n, Total(TxsOf(Second(m), b))) \in Nat
  BY <1>7, ClearedIs
<1>9. brokerBalances' \in [Broker -> [Shard -> Int]]
  <2>1. \A b \in Broker : \A n \in Int :
            n + (Total(TxsOf(First(m), b)) - Total(TxsOf(Second(m), b))) \in Int
    BY <1>7
  <2> QED  BY <1>2, <2>1, InfoIs DEF TypeOK
<1>10. pendingDeductions' \in [Broker -> [Shard -> Nat]]
  BY <1>2, <1>8, InfoIs DEF TypeOK
<1>11. stopCnt' \in 0 .. StopThreshold
  <2>1. stopCnt \in 0 .. StopThreshold /\ 0 \in 0 .. StopThreshold  BY SizeAssumption DEF TypeOK
  <2> QED  BY <2>1, NextCount, InfoIs
<1>12. UNCHANGED <<unsent, stopped, pool, proposal, balance, committed>>
  BY InfoIs DEF chainVars
<1> QED  BY <1>3, <1>5, <1>6, <1>9, <1>10, <1>11, <1>12 DEF TypeOK

LEMMA TypeCommit ==
  ASSUME TypeOK, NEW s \in Shard, BlockCommitAndDeliver(s)
  PROVE  TypeOK'
<1>1. proposal[s].txs \in SUBSET Copy  BY DEF TypeOK
<1>2. Relayed(proposal[s].txs) \in SUBSET Copy  BY <1>1, RelayedType
<1>3. BlockInfo(s) \in Message  BY <1>1 DEF BlockInfo, Message
<1>4. net' \subseteq Message
  <2>1. SendTxs(Relayed(proposal[s].txs)) \subseteq Message  BY <1>2, SendTxsIs
  <2>2. net \subseteq Message  BY DEF TypeOK
  <2> QED  BY <1>3, <2>1, <2>2, CommitIs
<1>5. balance' \in [Shard -> [Account \cup Broker -> Int]]
  <2>1. Executed(proposal[s].txs, balance[s]) \in [Account \cup Broker -> Int]
    BY <1>1, ExecutedType DEF TypeOK
  <2> QED  BY <2>1, CommitIs DEF TypeOK
<1>6. committed' \in [Shard -> SUBSET Copy]
  <2>1. committed[s] \cup proposal[s].txs \in SUBSET Copy  BY <1>1 DEF TypeOK
  <2>2. committed' = [committed EXCEPT ![s] = committed[s] \cup proposal[s].txs]  BY CommitIs
  <2> QED  BY <2>1, <2>2 DEF TypeOK
<1>7. proposal' \in [Shard -> [txs : SUBSET Copy, built : BOOLEAN]]
  <2>1. NoBlock \in [txs : SUBSET Copy, built : BOOLEAN]  BY DEF NoBlock
  <2>2. proposal' = [proposal EXCEPT ![s] = NoBlock]  BY CommitIs
  <2> QED  BY <2>1, <2>2 DEF TypeOK
<1>8. UNCHANGED <<unsent, unconfirmed, readyBroker2, brokerBalances, pendingDeductions,
                  stopCnt, stopped, pool>>
  BY CommitIs DEF bookVars
<1> QED  BY <1>4, <1>5, <1>6, <1>7, <1>8 DEF TypeOK

LEMMA TypeNext == TypeOK /\ [Next]_vars => TypeOK'
<1> SUFFICES ASSUME TypeOK, [Next]_vars PROVE TypeOK'  OBVIOUS
<1>1. CASE ReadTxsAndSend  BY <1>1, TypeRead
<1>2. ASSUME NEW m \in net, HandleBlockInfo(m) PROVE TypeOK'  BY <1>2, TypeInfo
<1>3. CASE Stop  BY <1>3 DEF Stop, TypeOK, bookVars, chainVars
<1>4. ASSUME NEW m \in net, HandleReceiveTxs(m) PROVE TypeOK'
  <2>1. m.to \in Shard /\ m.txs \in SUBSET Copy  BY <1>4, MessageType DEF TypeOK, HandleReceiveTxs
  <2> QED  BY <1>4, <2>1 DEF HandleReceiveTxs, TypeOK, bookVars, chainVars
<1>5. ASSUME NEW s \in Shard, BuildProposal(s) PROVE TypeOK'
  <2>1. PICK txs \in SUBSET pool[s] :
            /\ pool' = [pool EXCEPT ![s] = pool[s] \ txs]
            /\ proposal' = [proposal EXCEPT ![s] = [txs |-> txs, built |-> TRUE]]
    BY <1>5 DEF BuildProposal
  <2>2. pool[s] \ txs \in SUBSET Copy /\ txs \in SUBSET Copy  BY DEF TypeOK
  <2>3. [txs |-> txs, built |-> TRUE] \in [txs : SUBSET Copy, built : BOOLEAN]  BY <2>2
  <2>4. pool' \in [Shard -> SUBSET Copy]  BY <2>1, <2>2 DEF TypeOK
  <2>5. proposal' \in [Shard -> [txs : SUBSET Copy, built : BOOLEAN]]  BY <2>1, <2>3 DEF TypeOK
  <2> QED  BY <1>5, <2>4, <2>5 DEF BuildProposal, TypeOK, bookVars, chainVars
<1>6. ASSUME NEW s \in Shard, BlockCommitAndDeliver(s) PROVE TypeOK'  BY <1>6, TypeCommit
<1>7. CASE UNCHANGED vars  BY <1>7 DEF vars, bookVars, chainVars, TypeOK
<1> QED  BY <1>1, <1>2, <1>3, <1>4, <1>5, <1>6, <1>7 DEF Next, Receive, Leader

\* Every variable keeps its type: no pending deduction becomes negative, and
\* nothing is sent that is not a transfer or a half of one.
THEOREM TypeCorrect == Spec => []TypeOK
<1>1. Init => TypeOK  BY TypeInit
<1>2. TypeOK /\ [Next]_vars => TypeOK'  BY TypeNext
<1> QED  BY <1>1, <1>2, PTL DEF Spec

-----------------------------------------------------------------------------
(***************************************************************************)
(* One place for every transfer                                            *)
(***************************************************************************)

LEMMA PlacesAre ==
  ASSUME NEW t, NEW source, NEW readied, NEW msgs, NEW pools, NEW blocks, NEW p
  PROVE  p \in PlacesIn(t, source, readied, msgs, pools, blocks) <=>
           \/ p = <<"source", t>> /\ t \in source
           \/ p = <<"ready", t>> /\ t \in readied
           \/ \E m \in msgs, c \in Copy :
                 p = <<"net", m, c>> /\ c.tx = t /\ Carries(m, c)
           \/ \E s \in Shard, c \in Copy :
                 p = <<"pool", s, c>> /\ c.tx = t /\ c \in pools[s]
           \/ \E s \in Shard, c \in Copy :
                 p = <<"block", s, c>> /\ c.tx = t /\ c \in blocks[s].txs
BY DEF PlacesIn

\* The shapes of a place do not mix.
LEMMA PlaceShapes ==
  ASSUME NEW t, NEW u, NEW c, NEW k \in {"net", "pool", "block"}
  PROVE  /\ <<"source", t>> # <<k, u, c>>
         /\ <<"ready", t>> # <<k, u, c>>
         /\ <<"source", t>> # <<"ready", t>>
         /\ <<"source", t>>[1] = "source" /\ <<"ready", t>>[1] = "ready"
         /\ <<k, u, c>>[1] = k /\ <<k, u, c>>[2] = u /\ <<k, u, c>>[3] = c
OBVIOUS

LEMMA PlaceReceive ==
  ASSUME TypeOK, PlaceInv, NEW m \in net, HandleReceiveTxs(m)
  PROVE  PlaceInv'
<1> SUFFICES ASSUME NEW t \in Tx
             PROVE  /\ \A p, q \in Places(t)' : p = q
                    /\ Places(t)' = {} <=> Done(t)'
  BY DEF PlaceInv
<1> DEFINE Mv(p) == IF p[1] = "net" /\ p[2] = m THEN <<"pool", m.to, p[3]>> ELSE p
<1>1. /\ m.type = "txs" /\ m.to \in Shard /\ m.txs \in SUBSET Copy
      /\ net' = net \ {m}
      /\ pool' = [pool EXCEPT ![m.to] = pool[m.to] \cup m.txs]
      /\ UNCHANGED <<unsent, readyBroker2, proposal, committed>>
  BY MessageType DEF HandleReceiveTxs, TypeOK, bookVars, chainVars
<1>2. \A s \in Shard : pool'[s] = IF s = m.to THEN pool[s] \cup m.txs ELSE pool[s]
  BY <1>1 DEF TypeOK
<1>3. Done(t)' <=> Done(t)  BY <1>1 DEF Done, Committed
<1>4. ASSUME NEW q
      PROVE  q \in Places(t)' <=>
               \/ q \in Places(t) /\ ~\E c \in Copy : q = <<"net", m, c>>
               \/ \E c \in Copy : q = <<"pool", m.to, c>> /\ c.tx = t /\ c \in m.txs
  <2>1. q \in Places(t)' <=> q \in PlacesIn(t, unsent, readyBroker2, net \ {m}, pool', proposal)
    BY <1>1 DEF Places
  <2>2. q \in Places(t)' <=>
           \/ q = <<"source", t>> /\ t \in unsent
           \/ q = <<"ready", t>> /\ t \in readyBroker2
           \/ \E n \in net \ {m}, c \in Copy :
                 q = <<"net", n, c>> /\ c.tx = t /\ Carries(n, c)
           \/ \E s \in Shard, c \in Copy :
                 q = <<"pool", s, c>> /\ c.tx = t /\ c \in pool'[s]
           \/ \E s \in Shard, c \in Copy :
                 q = <<"block", s, c>> /\ c.tx = t /\ c \in proposal[s].txs
    BY <2>1, PlacesAre
  <2>3. q \in Places(t) <=>
           \/ q = <<"source", t>> /\ t \in unsent
           \/ q = <<"ready", t>> /\ t \in readyBroker2
           \/ \E n \in net, c \in Copy :
                 q = <<"net", n, c>> /\ c.tx = t /\ Carries(n, c)
           \/ \E s \in Shard, c \in Copy :
                 q = <<"pool", s, c>> /\ c.tx = t /\ c \in pool[s]
           \/ \E s \in Shard, c \in Copy :
                 q = <<"block", s, c>> /\ c.tx = t /\ c \in proposal[s].txs
    BY PlacesAre DEF Places
  <2> QED  BY <2>2, <2>3, <1>1, <1>2
<1>5. \A c \in Copy : <<"net", m, c>> \in Places(t) <=> c.tx = t /\ c \in m.txs
  BY <1>1, PlacesAre DEF Places, Carries
<1>6. \A p, q \in Places(t) : p = q  BY DEF PlaceInv
<1>7. ASSUME NEW p \in Places(t)', NEW q \in Places(t)'
      PROVE  p = q
  <2>1. \A r \in Places(t)' :
          \/ r \in Places(t) /\ ~\E c \in Copy : r = <<"net", m, c>>
          \/ \E c \in Copy : r = <<"pool", m.to, c>> /\ <<"net", m, c>> \in Places(t)
    BY <1>4, <1>5
  <2>2. \A c, d \in Copy : <<"net", m, c>> = <<"net", m, d>> => c = d  OBVIOUS
  <2> QED  BY <1>6, <1>7, <2>1, <2>2
<1>8. Places(t) # {} => Places(t)' # {}
  BY <1>4, <1>5
<1>9. Places(t) = {} => Places(t)' = {}
  BY <1>4, <1>5
<1> QED  BY <1>3, <1>7, <1>8, <1>9 DEF PlaceInv

LEMMA PlaceBuild ==
  ASSUME TypeOK, PlaceInv, CopyInv, NEW s \in Shard, BuildProposal(s)
  PROVE  PlaceInv'
<1> SUFFICES ASSUME NEW t \in Tx
             PROVE  /\ \A p, q \in Places(t)' : p = q
                    /\ Places(t)' = {} <=> Done(t)'
  BY DEF PlaceInv
<1>1. PICK txs \in SUBSET pool[s] :
         /\ pool' = [pool EXCEPT ![s] = pool[s] \ txs]
         /\ proposal' = [proposal EXCEPT ![s] = [txs |-> txs, built |-> TRUE]]
  BY DEF BuildProposal
<1>2. /\ proposal[s].txs = {}
      /\ UNCHANGED <<unsent, readyBroker2, net, committed>>
  BY DEF BuildProposal, CopyInv, bookVars, chainVars
<1>3. /\ \A o \in Shard : pool'[o] = IF o = s THEN pool[s] \ txs ELSE pool[o]
      /\ \A o \in Shard : proposal'[o].txs = IF o = s THEN txs ELSE proposal[o].txs
  BY <1>1 DEF TypeOK
<1>4. Done(t)' <=> Done(t)  BY <1>2 DEF Done, Committed
<1>5. ASSUME NEW q
      PROVE  q \in Places(t)' <=>
               \/ q \in Places(t) /\ ~\E c \in txs : q = <<"pool", s, c>>
               \/ \E c \in Copy : q = <<"block", s, c>> /\ c.tx = t /\ c \in txs
  <2>1. q \in Places(t)' <=> q \in PlacesIn(t, unsent, readyBroker2, net, pool', proposal')
    BY <1>2 DEF Places
  <2>2. q \in Places(t)' <=>
           \/ q = <<"source", t>> /\ t \in unsent
           \/ q = <<"ready", t>> /\ t \in readyBroker2
           \/ \E n \in net, c \in Copy :
                 q = <<"net", n, c>> /\ c.tx = t /\ Carries(n, c)
           \/ \E o \in Shard, c \in Copy :
                 q = <<"pool", o, c>> /\ c.tx = t /\ c \in pool'[o]
           \/ \E o \in Shard, c \in Copy :
                 q = <<"block", o, c>> /\ c.tx = t /\ c \in proposal'[o].txs
    BY <2>1, PlacesAre
  <2>3. q \in Places(t) <=>
           \/ q = <<"source", t>> /\ t \in unsent
           \/ q = <<"ready", t>> /\ t \in readyBroker2
           \/ \E n \in net, c \in Copy :
                 q = <<"net", n, c>> /\ c.tx = t /\ Carries(n, c)
           \/ \E o \in Shard, c \in Copy :
                 q = <<"pool", o, c>> /\ c.tx = t /\ c \in pool[o]
           \/ \E o \in Shard, c \in Copy :
                 q = <<"block", o, c>> /\ c.tx = t /\ c \in proposal[o].txs
    BY PlacesAre DEF Places
  <2> QED  BY <2>2, <2>3, <1>2, <1>3
<1>6. \A c \in Copy : c \in txs => (<<"pool", s, c>> \in Places(t) <=> c.tx = t)
  BY PlacesAre DEF Places
<1>7. \A p, q \in Places(t) : p = q  BY DEF PlaceInv
<1>8. txs \in SUBSET Copy  BY DEF TypeOK
<1>9. ASSUME NEW p \in Places(t)', NEW q \in Places(t)'
      PROVE  p = q
  <2>1. \A r \in Places(t)' :
          \/ r \in Places(t) /\ ~\E c \in txs : r = <<"pool", s, c>>
          \/ \E c \in txs : r = <<"block", s, c>> /\ <<"pool", s, c>> \in Places(t)
    BY <1>5, <1>6, <1>8
  <2>2. \A c, d \in Copy : <<"pool", s, c>> = <<"pool", s, d>> => c = d  OBVIOUS
  <2> QED  BY <1>7, <1>8, <1>9, <2>1, <2>2
<1>10. Places(t) # {} => Places(t)' # {}
  BY <1>5, <1>6, <1>8
<1>11. Places(t) = {} => Places(t)' = {}
  BY <1>5, <1>6, <1>8
<1> QED  BY <1>4, <1>9, <1>10, <1>11 DEF PlaceInv

LEMMA PlaceInfo ==
  ASSUME TypeOK, PlaceInv, CopyInv, NEW m \in net, HandleBlockInfo(m)
  PROVE  PlaceInv'
<1> SUFFICES ASSUME NEW t \in Tx
             PROVE  /\ \A p, q \in Places(t)' : p = q
                    /\ Places(t)' = {} <=> Done(t)'
  BY DEF PlaceInv
<1>1. /\ m.type = "info" /\ m.txs \in SUBSET Copy
      /\ net' = net \ {m}
      /\ readyBroker2' = readyBroker2 \cup {i.tx : i \in First(m)}
      /\ UNCHANGED <<unsent, pool, proposal, committed>>
  BY InfoIs, MessageType DEF TypeOK, chainVars
<1>2. Done(t)' <=> Done(t)  BY <1>1 DEF Done, Committed
<1>3. \A c \in Copy : <<"net", m, c>> \in Places(t) <=>
                        c.tx = t /\ c \in m.txs /\ c.stage = "broker1"
  BY <1>1, PlacesAre DEF Places, Carries
\* A first half in the report makes the transfer ready.
<1>4. t \in readyBroker2' <=> t \in readyBroker2 \/ \E c \in Copy : <<"net", m, c>> \in Places(t)
  <2>1. ASSUME NEW i \in First(m), i.tx = t
        PROVE  \E c \in Copy : <<"net", m, c>> \in Places(t)
    <3> DEFINE c == [tx |-> i.tx, stage |-> "broker1", broker |-> i.broker]
    <3>1. c \in m.txs /\ i \in TxInfoStage  BY <2>1, RecordsType
    <3>2. c \in Copy  BY <3>1, <1>1
    <3> QED  BY <2>1, <3>1, <3>2, <1>3
  <2>2. ASSUME NEW c \in Copy, <<"net", m, c>> \in Places(t)
        PROVE  \E i \in First(m) : i.tx = t
    <3>1. c.tx = t /\ c \in m.txs /\ c.stage = "broker1"  BY <2>2, <1>3
    <3>2. Record(c) \in unconfirmed  BY <3>1, <1>1 DEF CopyInv, Expected, IsHalf
    <3>3. Record(c) = [tx |-> t, broker |-> c.broker, confirmStage |-> 1]  BY <3>1 DEF Record
    <3>4. c = [tx |-> t, stage |-> "broker1", broker |-> c.broker]  BY <3>1, TxLocType
    <3>5. Record(c) \in First(m)  BY <3>1, <3>2, <3>3, <3>4, RecordsType
    <3> QED  BY <3>3, <3>5
  <2> QED  BY <2>1, <2>2, <1>1
<1>5. ASSUME NEW q
      PROVE  q \in Places(t)' <=>
               \/ q \in Places(t) /\ ~\E c \in Copy : q = <<"net", m, c>>
               \/ q = <<"ready", t>> /\ \E c \in Copy : <<"net", m, c>> \in Places(t)
  <2>1. q \in Places(t)' <=> q \in PlacesIn(t, unsent, readyBroker2', net \ {m}, pool, proposal)
    BY <1>1 DEF Places
  <2>2. q \in Places(t)' <=>
           \/ q = <<"source", t>> /\ t \in unsent
           \/ q = <<"ready", t>> /\ t \in readyBroker2'
           \/ \E n \in net \ {m}, c \in Copy :
                 q = <<"net", n, c>> /\ c.tx = t /\ Carries(n, c)
           \/ \E o \in Shard, c \in Copy :
                 q = <<"pool", o, c>> /\ c.tx = t /\ c \in pool[o]
           \/ \E o \in Shard, c \in Copy :
                 q = <<"block", o, c>> /\ c.tx = t /\ c \in proposal[o].txs
    BY <2>1, PlacesAre
  <2>3. q \in Places(t) <=>
           \/ q = <<"source", t>> /\ t \in unsent
           \/ q = <<"ready", t>> /\ t \in readyBroker2
           \/ \E n \in net, c \in Copy :
                 q = <<"net", n, c>> /\ c.tx = t /\ Carries(n, c)
           \/ \E o \in Shard, c \in Copy :
                 q = <<"pool", o, c>> /\ c.tx = t /\ c \in pool[o]
           \/ \E o \in Shard, c \in Copy :
                 q = <<"block", o, c>> /\ c.tx = t /\ c \in proposal[o].txs
    BY PlacesAre DEF Places
  <2> QED  BY <2>2, <2>3, <1>4
<1>6. \A p, q \in Places(t) : p = q  BY DEF PlaceInv
<1>7. ASSUME NEW p \in Places(t)', NEW q \in Places(t)'
      PROVE  p = q
  <2>1. CASE \E c \in Copy : <<"net", m, c>> \in Places(t)
    <3>1. \A r \in Places(t) : \E c \in Copy : r = <<"net", m, c>>  BY <2>1, <1>6
    <3>2. \A r \in Places(t)' : r = <<"ready", t>>  BY <3>1, <1>5
    <3> QED  BY <1>7, <3>2
  <2>2. CASE ~\E c \in Copy : <<"net", m, c>> \in Places(t)
    <3>1. p \in Places(t) /\ q \in Places(t)  BY <2>2, <1>5, <1>7
    <3> QED  BY <3>1, <1>6
  <2> QED  BY <2>1, <2>2
<1>8. Places(t) # {} => Places(t)' # {}
  <2>1. ASSUME NEW p \in Places(t) PROVE Places(t)' # {}
    <3>1. CASE \E c \in Copy : p = <<"net", m, c>>
      <4>1. <<"ready", t>> \in Places(t)'  BY <3>1, <2>1, <1>5
      <4> QED  BY <4>1
    <3>2. CASE ~\E c \in Copy : p = <<"net", m, c>>
      <4>1. p \in Places(t)'  BY <3>2, <2>1, <1>5
      <4> QED  BY <4>1
    <3> QED  BY <3>1, <3>2
  <2> QED  BY <2>1
<1>9. Places(t) = {} => Places(t)' = {}
  BY <1>5
<1> QED  BY <1>2, <1>7, <1>8, <1>9 DEF PlaceInv

LEMMA PlaceRead ==
  ASSUME TypeOK, PlaceInv, RecordInv, ReadTxsAndSend
  PROVE  PlaceInv'
<1> SUFFICES ASSUME NEW t \in Tx
             PROVE  /\ \A p, q \in Places(t)' : p = q
                    /\ Places(t)' = {} <=> Done(t)'
  BY DEF PlaceInv
<1>1. PICK f \in BrokerChoices(Cross) : net' = net \cup SendTxs(Outgoing(f))
  BY ReadIs
<1>2. /\ readyBroker2' = {}
      /\ unsent' = unsent \ ReadTxs
      /\ UNCHANGED <<pool, proposal, committed>>
  BY ReadIs DEF chainVars
<1>3. Done(t)' <=> Done(t)  BY <1>2 DEF Done, Committed
<1>4. Outgoing(f) \in SUBSET Copy  BY OutgoingIs
<1>5. \A m \in SendTxs(Outgoing(f)) :
         m.type = "txs" /\ m.txs = {c \in Outgoing(f) : TxLoc(c) = m.to}
  BY <1>4, SendTxsIs
<1>6. \A p, q \in Places(t) : p = q  BY DEF PlaceInv
<1>7. ASSUME NEW q
      PROVE  q \in Places(t)' <=>
               \/ q = <<"source", t>> /\ t \in unsent \ ReadTxs
               \/ q \in Places(t) /\ q # <<"source", t>> /\ q # <<"ready", t>>
               \/ \E n \in SendTxs(Outgoing(f)), c \in Copy :
                     q = <<"net", n, c>> /\ c.tx = t /\ c \in n.txs
  <2>1. q \in Places(t)' <=> q \in PlacesIn(t, unsent \ ReadTxs, {}, net', pool, proposal)
    BY <1>2 DEF Places
  <2>2. q \in Places(t)' <=>
           \/ q = <<"source", t>> /\ t \in unsent \ ReadTxs
           \/ q = <<"ready", t>> /\ t \in {}
           \/ \E n \in net', c \in Copy :
                 q = <<"net", n, c>> /\ c.tx = t /\ Carries(n, c)
           \/ \E o \in Shard, c \in Copy :
                 q = <<"pool", o, c>> /\ c.tx = t /\ c \in pool[o]
           \/ \E o \in Shard, c \in Copy :
                 q = <<"block", o, c>> /\ c.tx = t /\ c \in proposal[o].txs
    BY <2>1, PlacesAre
  <2>3. q \in Places(t) <=>
           \/ q = <<"source", t>> /\ t \in unsent
           \/ q = <<"ready", t>> /\ t \in readyBroker2
           \/ \E n \in net, c \in Copy :
                 q = <<"net", n, c>> /\ c.tx = t /\ Carries(n, c)
           \/ \E o \in Shard, c \in Copy :
                 q = <<"pool", o, c>> /\ c.tx = t /\ c \in pool[o]
           \/ \E o \in Shard, c \in Copy :
                 q = <<"block", o, c>> /\ c.tx = t /\ c \in proposal[o].txs
    BY PlacesAre DEF Places
  <2>4. \A n \in SendTxs(Outgoing(f)), c \in Copy : Carries(n, c) <=> c \in n.txs
    BY <1>5 DEF Carries
  <2> QED  BY <2>2, <2>3, <2>4, <1>1
<1>8. <<"source", t>> \in Places(t) <=> t \in unsent
  BY PlacesAre DEF Places
<1>9. <<"ready", t>> \in Places(t) <=> t \in readyBroker2
  BY PlacesAre DEF Places
<1>10. CASE \A c \in Outgoing(f) : c.tx # t
  <2>1. t \notin ReadTxs  BY <1>10, OutgoingIs
  <2>2. t \notin readyBroker2  BY <1>10, OutgoingIs DEF RecordInv
  <2>3. \A q : q \in Places(t)' <=> q \in Places(t)
    BY <1>5, <1>7, <1>8, <1>9, <1>10, <2>1, <2>2
  <2> QED  BY <1>3, <2>3 DEF PlaceInv
<1>11. ASSUME NEW c \in Outgoing(f), c.tx = t
       PROVE  /\ \A p, q \in Places(t)' : p = q
              /\ Places(t)' = {} <=> Done(t)'
  <2>1. PICK m \in SendTxs(Outgoing(f)) : c \in m.txs  BY <1>4, SendTxsIs
  <2>2. \/ t \in ReadTxs /\ t \in unsent /\ t \notin readyBroker2
        \/ t \in readyBroker2 /\ t \notin unsent
    <3>1. t \in ReadTxs \/ t \in readyBroker2  BY <1>11, OutgoingIs
    <3>2. ReadTxs \subseteq unsent  BY DEF ReadTxs
    <3>3. <<"source", t>> # <<"ready", t>>  OBVIOUS
    <3> QED  BY <3>1, <3>2, <3>3, <1>6, <1>8, <1>9
  \* There is only one such transaction.
  <2>3. ASSUME NEW d \in Outgoing(f), d.tx = t PROVE d = c
    <3>1. CASE t \in ReadTxs /\ t \notin readyBroker2
      BY <3>1, <1>11, <2>3, OutgoingIs
    <3>2. CASE t \in readyBroker2 /\ t \notin unsent
      <4>1. t \notin ReadTxs  BY <3>2 DEF ReadTxs
      <4>2. /\ c.stage = "broker2" /\ Record(c) \in unconfirmed
            /\ d.stage = "broker2" /\ Record(d) \in unconfirmed
        BY <4>1, <1>11, <2>3, OutgoingIs
      <4>3. /\ Record(c) = [tx |-> t, broker |-> c.broker, confirmStage |-> 2]
            /\ Record(d) = [tx |-> t, broker |-> d.broker, confirmStage |-> 2]
        BY <4>2, <1>11, <2>3 DEF Record
      <4>4. Record(c) = Record(d)  BY <4>2, <4>3 DEF RecordInv
      <4>5. c.broker = d.broker  BY <4>3, <4>4
      <4>6. /\ c = [tx |-> c.tx, stage |-> c.stage, broker |-> c.broker]
            /\ d = [tx |-> d.tx, stage |-> d.stage, broker |-> d.broker]
        BY <1>4, TxLocType
      <4> QED  BY <4>2, <4>5, <4>6, <1>11, <2>3
    <3> QED  BY <2>2, <3>1, <3>2
  <2>4. \A q \in Places(t) : q = <<"source", t>> \/ q = <<"ready", t>>
    BY <2>2, <1>6, <1>8, <1>9
  <2>5. ~(t \in unsent \ ReadTxs)  BY <2>2
  <2>6. ASSUME NEW n \in SendTxs(Outgoing(f)), c \in n.txs PROVE n = m
    BY <2>1, <2>6, <1>4, <1>5, SendTxsIs
  <2>7. ASSUME NEW q \in Places(t)' PROVE q = <<"net", m, c>>
    <3>1. PICK n \in SendTxs(Outgoing(f)), d \in Copy :
             q = <<"net", n, d>> /\ d.tx = t /\ d \in n.txs
      BY <2>4, <2>5, <2>7, <1>7
    <3>2. d = c  BY <3>1, <2>3, <1>5
    <3> QED  BY <3>1, <3>2, <2>6
  <2>8. <<"net", m, c>> \in Places(t)'
    <3>1. c \in Copy  BY <1>4
    <3> QED  BY <3>1, <1>7, <1>11, <2>1
  <2>9. Places(t) # {}  BY <2>2, <1>8, <1>9
  <2> QED  BY <2>7, <2>8, <2>9, <1>3 DEF PlaceInv
<1> QED  BY <1>10, <1>11

LEMMA PlaceCommit ==
  ASSUME TypeOK, PlaceInv, CopyInv, RecordInv, NEW s \in Shard, BlockCommitAndDeliver(s)
  PROVE  PlaceInv'
<1> SUFFICES ASSUME NEW t \in Tx
             PROVE  /\ \A p, q \in Places(t)' : p = q
                    /\ Places(t)' = {} <=> Done(t)'
  BY DEF PlaceInv
<1> DEFINE txs == proposal[s].txs
           sent == (IF stopped THEN {} ELSE {BlockInfo(s)}) \cup SendTxs(Relayed(txs))
<1>1. txs \in SUBSET Copy  BY DEF TypeOK
<1>2. /\ net' = net \cup sent
      /\ UNCHANGED <<unsent, readyBroker2, pool>>
  BY CommitIs DEF bookVars
<1>3. \A o \in Shard : proposal'[o].txs = IF o = s THEN {} ELSE proposal[o].txs
  <2>1. proposal' = [proposal EXCEPT ![s] = NoBlock] /\ NoBlock.txs = {}  BY CommitIs DEF NoBlock
  <2> QED  BY <2>1 DEF TypeOK
<1>4. \A o \in Shard : committed'[o] = IF o = s THEN committed[s] \cup txs ELSE committed[o]
  BY CommitIs DEF TypeOK
<1>5. Relayed(txs) \in SUBSET Copy  BY <1>1, RelayedType
<1>6. \A m \in SendTxs(Relayed(txs)) :
         m.type = "txs" /\ m.txs = {c \in Relayed(txs) : TxLoc(c) = m.to}
  BY <1>5, SendTxsIs
<1>7. /\ BlockInfo(s).txs = txs /\ BlockInfo(s).type = "info"  BY DEF BlockInfo
<1>8. Relayed(txs) = {[tx |-> c.tx, stage |-> "relay2", broker |-> NoBroker] :
                        c \in {d \in txs : d.stage = "relay1"}}
  BY <1>1, RelayedIs
<1>9. \A p, q \in Places(t) : p = q  BY DEF PlaceInv
<1> HIDE DEF txs, sent
<1>10. ASSUME NEW q
       PROVE  q \in Places(t)' <=>
                \/ q \in Places(t) /\ ~\E c \in txs : q = <<"block", s, c>>
                \/ \E n \in sent, c \in Copy : q = <<"net", n, c>> /\ c.tx = t /\ Carries(n, c)
  <2>1. q \in Places(t)' <=> q \in PlacesIn(t, unsent, readyBroker2, net', pool, proposal')
    BY <1>2 DEF Places
  <2>2. q \in Places(t)' <=>
           \/ q = <<"source", t>> /\ t \in unsent
           \/ q = <<"ready", t>> /\ t \in readyBroker2
           \/ \E n \in net', c \in Copy :
                 q = <<"net", n, c>> /\ c.tx = t /\ Carries(n, c)
           \/ \E o \in Shard, c \in Copy :
                 q = <<"pool", o, c>> /\ c.tx = t /\ c \in pool[o]
           \/ \E o \in Shard, c \in Copy :
                 q = <<"block", o, c>> /\ c.tx = t /\ c \in proposal'[o].txs
    BY <2>1, PlacesAre
  <2>3. q \in Places(t) <=>
           \/ q = <<"source", t>> /\ t \in unsent
           \/ q = <<"ready", t>> /\ t \in readyBroker2
           \/ \E n \in net, c \in Copy :
                 q = <<"net", n, c>> /\ c.tx = t /\ Carries(n, c)
           \/ \E o \in Shard, c \in Copy :
                 q = <<"pool", o, c>> /\ c.tx = t /\ c \in pool[o]
           \/ \E o \in Shard, c \in Copy :
                 q = <<"block", o, c>> /\ c.tx = t /\ c \in proposal[o].txs
    BY PlacesAre DEF Places
  <2> QED  BY <2>2, <2>3, <1>2, <1>3 DEF txs
<1>11. \A c \in txs : <<"block", s, c>> \in Places(t) <=> c.tx = t
  BY <1>1, PlacesAre DEF Places, txs
<1>12. Done(t) => Done(t)'
  BY <1>4 DEF Done, Committed
\* A transfer that is not in the block stays where it is.
<1>13. CASE \A c \in txs : c.tx # t
  <2>1. ~\E n \in sent, c \in Copy : c.tx = t /\ Carries(n, c)
    <3>1. \A c \in Relayed(txs) : c.tx # t  BY <1>8, <1>13
    <3> QED  BY <3>1, <1>6, <1>7, <1>13 DEF sent, Carries
  <2>2. \A q : q \in Places(t)' <=> q \in Places(t)
    BY <2>1, <1>10, <1>11, <1>13
  <2>3. Done(t)' => Done(t)
    BY <1>4, <1>13 DEF Done, Committed
  <2> QED  BY <2>2, <2>3, <1>12 DEF PlaceInv
<1>14. ASSUME NEW c \in txs, c.tx = t
       PROVE  /\ \A p, q \in Places(t)' : p = q
              /\ Places(t)' = {} <=> Done(t)'
  <2>1. c \in Copy /\ <<"block", s, c>> \in Places(t)  BY <1>1, <1>11, <1>14
  <2>2. ~Done(t)  BY <2>1 DEF PlaceInv
  <2>3. \A d \in txs : d.tx = t => d = c
    <3>1. \A d \in Copy : <<"block", s, d>> = <<"block", s, c>> => d = c  OBVIOUS
    <3> QED  BY <3>1, <2>1, <1>1, <1>9, <1>11
  <2>4. \A q : q \in Places(t)' <=>
                  \E n \in sent, d \in Copy : q = <<"net", n, d>> /\ d.tx = t /\ Carries(n, d)
    BY <2>1, <1>9, <1>10, <1>14
  <2>5. Done(t)' <=> c.stage \in {"inner", "broker2", "relay2"}
    BY <2>2, <2>3, <1>4, <1>14 DEF Done, Committed
  <2>6. CASE c.stage \in {"inner", "broker2", "relay2"}
    <3>1. \A d \in Relayed(txs) : d.tx # t  BY <2>3, <2>6, <1>8
    <3>2. ~\E n \in sent, d \in Copy : d.tx = t /\ Carries(n, d)
      BY <3>1, <2>3, <2>6, <1>6, <1>7 DEF sent, Carries
    <3>3. Places(t)' = {}  BY <3>2, <2>4
    <3> QED  BY <3>3, <2>5, <2>6
  <2>7. CASE c.stage = "broker1"
    <3>1. ~stopped
      BY <2>7 DEF CopyInv, Expected, IsHalf, RecordInv, txs
    <3>2. \A d \in Relayed(txs) : d.tx # t  BY <2>3, <2>7, <1>8
    <3>3. BlockInfo(s) \in sent /\ Carries(BlockInfo(s), c)
      BY <3>1, <2>7, <1>7 DEF sent, Carries
    <3>4. \A n \in sent, d \in Copy : d.tx = t /\ Carries(n, d) => n = BlockInfo(s) /\ d = c
      BY <3>2, <2>3, <1>6, <1>7 DEF sent, Carries
    <3>5. <<"net", BlockInfo(s), c>> \in Places(t)'  BY <3>3, <2>1, <2>4, <1>14
    <3>6. \A q \in Places(t)' : q = <<"net", BlockInfo(s), c>>  BY <3>4, <2>4
    <3> QED  BY <3>5, <3>6, <2>5, <2>7
  <2>8. CASE c.stage = "relay1"
    <3> DEFINE r == [tx |-> t, stage |-> "relay2", broker |-> NoBroker]
    <3>1. r \in Relayed(txs)  BY <2>8, <1>8, <1>14
    <3>2. \A d \in Relayed(txs) : d.tx = t => d = r  BY <2>3, <1>8
    <3>3. PICK m \in SendTxs(Relayed(txs)) : r \in m.txs  BY <3>1, <1>5, SendTxsIs
    <3>4. \A n \in SendTxs(Relayed(txs)) : r \in n.txs => n = m
      BY <3>3, <1>5, <1>6, SendTxsIs
    <3>5. m \in sent /\ Carries(m, r) /\ r.tx = t /\ r \in Copy
      BY <3>1, <3>3, <1>5, <1>6 DEF sent, Carries
    <3> HIDE DEF r
    <3>6. \A n \in sent, d \in Copy : d.tx = t /\ Carries(n, d) => n = m /\ d = r
      <4>1. SUFFICES ASSUME NEW n \in sent, NEW d \in Copy, d.tx = t, Carries(n, d)
                     PROVE  n = m /\ d = r
        OBVIOUS
      <4>2. n \in SendTxs(Relayed(txs))
        BY <4>1, <2>3, <2>8, <1>7 DEF sent, Carries
      <4>3. d \in n.txs /\ d \in Relayed(txs)  BY <4>1, <4>2, <1>6 DEF Carries
      <4> QED  BY <4>1, <4>2, <4>3, <3>2, <3>4
    <3>7. <<"net", m, r>> \in Places(t)'  BY <3>5, <2>4
    <3>8. \A q \in Places(t)' : q = <<"net", m, r>>  BY <3>6, <2>4
    <3> QED  BY <3>7, <3>8, <2>5, <2>8
  <2> QED  BY <2>1, <2>6, <2>7, <2>8, TxLocType
<1> QED  BY <1>13, <1>14

-----------------------------------------------------------------------------
(***************************************************************************)
(* Records and reports                                                     *)
(***************************************************************************)

FlowInv == TypeOK /\ PlaceInv /\ CopyInv /\ ReportInv /\ RecordInv

\* Where a transaction is found, its transfer is not finished.
LEMMA WaitingIs ==
  ASSUME PlaceInv, NEW c \in Copy
  PROVE  /\ \A m \in net : Carries(m, c) => <<"net", m, c>> \in Places(c.tx)
         /\ \A s \in Shard : c \in pool[s] => <<"pool", s, c>> \in Places(c.tx)
         /\ \A s \in Shard : c \in proposal[s].txs => <<"block", s, c>> \in Places(c.tx)
         /\ c.tx \in unsent => <<"source", c.tx>> \in Places(c.tx)
         /\ c.tx \in readyBroker2 => <<"ready", c.tx>> \in Places(c.tx)
         /\ (\E s \in Shard : c \in committed[s]) /\ c.stage \in {"inner", "broker2", "relay2"}
              => Places(c.tx) = {}
<1>1. c.tx \in Tx  BY TxLocType
<1>2. (\E s \in Shard : c \in committed[s]) /\ c.stage \in {"inner", "broker2", "relay2"} => Done(c.tx)
  BY DEF Done, Committed
<1> QED  BY <1>1, <1>2, PlacesAre DEF Places, PlaceInv

\* The record of a half that a block info does not report stays.
LEMMA RecordStays ==
  ASSUME TypeOK, NEW m \in net, NEW c \in Copy, IsHalf(c), Record(c) \in unconfirmed, c \notin m.txs
  PROVE  Record(c) \in After(m) \ Second(m)
<1>1. /\ c = [tx |-> c.tx, stage |-> c.stage, broker |-> c.broker]
      /\ c.stage \in {"broker1", "broker2"}
  BY TxLocType DEF IsHalf
<1>2. \A i \in First(m) : /\ i.confirmStage = 1
                         /\ [tx |-> i.tx, stage |-> "broker1", broker |-> i.broker] \in m.txs
  BY RecordsType
<1>3. unconfirmed \ First(m) \subseteq After(m)
  BY RecordsType
<1>4. \A i \in Second(m) : /\ i.confirmStage = 2
                          /\ [tx |-> i.tx, stage |-> "broker2", broker |-> i.broker] \in m.txs
  BY RecordsType
<1>5. CASE c.stage = "broker1"
  <2>1. Record(c) = [tx |-> c.tx, broker |-> c.broker, confirmStage |-> 1]  BY <1>5 DEF Record
  <2>2. c = [tx |-> c.tx, stage |-> "broker1", broker |-> c.broker]  BY <1>1, <1>5
  <2>3. Record(c) \notin First(m)  BY <2>1, <2>2, <1>2
  <2>4. Record(c) \notin Second(m)
    <3>1. Record(c).confirmStage = 1  BY <2>1
    <3>2. \A i \in Second(m) : i.confirmStage = 2  BY <1>4
    <3> QED  BY <3>1, <3>2
  <2> QED  BY <2>3, <2>4, <1>3
<1>6. CASE c.stage = "broker2"
  <2>1. Record(c) = [tx |-> c.tx, broker |-> c.broker, confirmStage |-> 2]  BY <1>6 DEF Record
  <2>2. c = [tx |-> c.tx, stage |-> "broker2", broker |-> c.broker]  BY <1>1, <1>6
  <2>3. Record(c) \notin First(m)
    <3>1. Record(c).confirmStage = 2  BY <2>1
    <3>2. \A i \in First(m) : i.confirmStage = 1  BY <1>2
    <3> QED  BY <3>1, <3>2
  <2>4. Record(c) \notin Second(m)  BY <2>1, <2>2, <1>4
  <2> QED  BY <2>3, <2>4, <1>3
<1> QED  BY <1>1, <1>5, <1>6

\* Where the records after a block info come from.
LEMMA RecordsAfter ==
  ASSUME TypeOK, NEW m \in net, NEW i \in After(m) \ Second(m)
  PROVE  /\ i \in TxInfoStage
         /\ \/ i \in unconfirmed \ First(m)
            \/ \E j \in First(m) : i = [tx |-> j.tx, broker |-> j.broker, confirmStage |-> 2]
         /\ \E j \in unconfirmed : j.tx = i.tx /\ j.broker = i.broker
<1>1. First(m) \subseteq unconfirmed /\ i \in TxInfoStage
  BY RecordsType
<1>2. \/ i \in unconfirmed \ First(m)
      \/ \E j \in First(m) : i = [tx |-> j.tx, broker |-> j.broker, confirmStage |-> 2]
  <2>1. After(m) = (unconfirmed \ First(m))
                     \cup {[tx |-> j.tx, broker |-> j.broker, confirmStage |-> 2] : j \in First(m)}
    BY RecordsType
  <2> QED  BY <2>1
<1>3. \E j \in unconfirmed : j.tx = i.tx /\ j.broker = i.broker
  BY <1>1, <1>2
<1> QED  BY <1>1, <1>2, <1>3

LEMMA FlowReceive ==
  ASSUME FlowInv, NEW m \in net, HandleReceiveTxs(m)
  PROVE  CopyInv' /\ ReportInv' /\ RecordInv'
<1> USE DEF FlowInv
<1>1. /\ m.type = "txs" /\ m.to \in Shard
      /\ net' = net \ {m}
      /\ pool' = [pool EXCEPT ![m.to] = pool[m.to] \cup m.txs]
      /\ UNCHANGED <<unsent, unconfirmed, readyBroker2, stopped, proposal, committed>>
  BY MessageType DEF HandleReceiveTxs, TypeOK, bookVars, chainVars
<1>2. \A s \in Shard : pool'[s] = IF s = m.to THEN pool[s] \cup m.txs ELSE pool[s]
  BY <1>1 DEF TypeOK
<1>3. CopyInv'  BY <1>1, <1>2 DEF CopyInv, Expected
<1>4. ReportInv'  BY <1>1 DEF ReportInv
<1>5. RecordInv'  BY <1>1 DEF RecordInv
<1> QED  BY <1>3, <1>4, <1>5

LEMMA FlowBuild ==
  ASSUME FlowInv, NEW s \in Shard, BuildProposal(s)
  PROVE  CopyInv' /\ ReportInv' /\ RecordInv'
<1> USE DEF FlowInv
<1>1. PICK txs \in SUBSET pool[s] :
         /\ pool' = [pool EXCEPT ![s] = pool[s] \ txs]
         /\ proposal' = [proposal EXCEPT ![s] = [txs |-> txs, built |-> TRUE]]
  BY DEF BuildProposal
<1>2. UNCHANGED <<unsent, unconfirmed, readyBroker2, stopped, net, committed>>
  BY DEF BuildProposal, bookVars, chainVars
<1>3. /\ \A o \in Shard : pool'[o] = IF o = s THEN pool[s] \ txs ELSE pool[o]
      /\ \A o \in Shard : proposal'[o].txs = IF o = s THEN txs ELSE proposal[o].txs
      /\ \A o \in Shard : proposal'[o].built = IF o = s THEN TRUE ELSE proposal[o].built
  BY <1>1 DEF TypeOK
<1>4. CopyInv'  BY <1>2, <1>3 DEF CopyInv, Expected
<1>5. ReportInv'  BY <1>2 DEF ReportInv
<1>6. RecordInv'  BY <1>2 DEF RecordInv
<1> QED  BY <1>4, <1>5, <1>6

LEMMA FlowRead ==
  ASSUME FlowInv, ReadTxsAndSend
  PROVE  CopyInv' /\ ReportInv' /\ RecordInv'
<1> USE DEF FlowInv
<1>1. PICK f \in BrokerChoices(Cross) :
         /\ net' = net \cup SendTxs(Outgoing(f))
         /\ unconfirmed' = unconfirmed \cup {NewRecord(f, t) : t \in Brokered(f)}
  BY ReadIs
<1>2. /\ readyBroker2' = {} /\ ~stopped
      /\ unsent' = unsent \ ReadTxs
      /\ UNCHANGED <<stopped, pool, proposal, committed>>
  BY ReadIs DEF chainVars
<1>3. Outgoing(f) \in SUBSET Copy  BY OutgoingIs
<1>4. \A m \in SendTxs(Outgoing(f)) :
         m.type = "txs" /\ m.txs = {c \in Outgoing(f) : TxLoc(c) = m.to}
  BY <1>3, SendTxsIs
<1>5. Brokered(f) \subseteq ReadTxs /\ ReadTxs \subseteq unsent
  BY DEF Brokered, Cross, ReadTxs
<1>6. \A t \in Brokered(f) : NewRecord(f, t).tx = t  BY DEF NewRecord
<1>7. CopyInv'
  <2>1. ASSUME NEW c \in Outgoing(f), IsHalf(c) PROVE Record(c) \in unconfirmed'
    <3>1. \/ c.stage = "broker1" /\ c.tx \in Brokered(f) /\ Record(c) = NewRecord(f, c.tx)
          \/ Record(c) \in unconfirmed
      BY <2>1, OutgoingIs DEF IsHalf
    <3> QED  BY <3>1, <1>1
  <2>2. ASSUME NEW m \in net', NEW c \in m.txs
        PROVE  Expected(IF m.type = "txs" THEN m.to ELSE m.shard, c)'
    <3>1. CASE m \in net
      BY <3>1, <1>1 DEF CopyInv, Expected
    <3>2. CASE m \in SendTxs(Outgoing(f))
      BY <3>2, <2>1, <2>2, <1>4 DEF Expected
    <3> QED  BY <3>1, <3>2, <2>2, <1>1
  <2>3. \A s \in Shard : \A c \in pool'[s] : Expected(s, c)'
    BY <1>1, <1>2 DEF CopyInv, Expected
  <2>4. \A s \in Shard : \A c \in proposal'[s].txs : Expected(s, c)'
    BY <1>1, <1>2 DEF CopyInv, Expected
  <2> QED  BY <2>2, <2>3, <2>4, <1>2 DEF CopyInv
<1>8. ReportInv'  BY <1>1, <1>2, <1>4 DEF ReportInv
<1>9. RecordInv'
  <2>1. ASSUME NEW i \in unconfirmed', NEW j \in unconfirmed', i.tx = j.tx
        PROVE  i = j
    <3>1. CASE i \in unconfirmed /\ j \in unconfirmed  BY <3>1, <2>1 DEF RecordInv
    <3>2. CASE i \in unconfirmed /\ \E t \in Brokered(f) : j = NewRecord(f, t)
      BY <3>2, <2>1, <1>5, <1>6 DEF RecordInv
    <3>3. CASE j \in unconfirmed /\ \E t \in Brokered(f) : i = NewRecord(f, t)
      BY <3>3, <2>1, <1>5, <1>6 DEF RecordInv
    <3>4. CASE (\E t \in Brokered(f) : i = NewRecord(f, t)) /\ (\E t \in Brokered(f) : j = NewRecord(f, t))
      BY <3>4, <2>1, <1>6
    <3> QED  BY <3>1, <3>2, <3>3, <3>4, <1>1, <2>1
  <2>2. \A i \in unconfirmed' : i.tx \notin unsent'
    BY <1>1, <1>2, <1>5, <1>6 DEF RecordInv
  <2> QED  BY <2>1, <2>2, <1>2 DEF RecordInv
<1> QED  BY <1>7, <1>8, <1>9

LEMMA FlowInfo ==
  ASSUME FlowInv, NEW m \in net, HandleBlockInfo(m)
  PROVE  CopyInv' /\ ReportInv' /\ RecordInv'
<1> USE DEF FlowInv
<1>1. /\ m.type = "info" /\ ~stopped
      /\ net' = net \ {m}
      /\ unconfirmed' = After(m) \ Second(m)
      /\ readyBroker2' = readyBroker2 \cup {i.tx : i \in First(m)}
      /\ UNCHANGED <<unsent, stopped, pool, proposal, committed>>
  BY InfoIs DEF chainVars
<1>2. m.txs \in SUBSET Copy /\ m.shard \in Shard  BY <1>1, MessageType DEF TypeOK
\* A second half that is reported is in the chain.
<1>3. \A c \in m.txs : c.stage = "broker2" => Places(c.tx) = {}
  BY <1>1, <1>2, WaitingIs DEF ReportInv
<1>4. \A c \in m.txs : c.stage = "broker1" => <<"net", m, c>> \in Places(c.tx)
  BY <1>2, WaitingIs DEF Carries
<1>5. \A c \in Copy : \A p, q \in Places(c.tx) : p = q  BY TxLocType DEF PlaceInv
<1>6. ASSUME NEW c \in Copy, IsHalf(c), Record(c) \in unconfirmed,
             NEW p \in Places(c.tx), p # <<"net", m, c>>
      PROVE  Record(c) \in unconfirmed'
  <2>1. c \notin m.txs  BY <1>3, <1>4, <1>5, <1>6 DEF IsHalf
  <2> QED  BY <2>1, <1>1, <1>6, RecordStays
<1>7. CopyInv'
  <2>1. ASSUME NEW n \in net', NEW c \in n.txs
        PROVE  Expected(IF n.type = "txs" THEN n.to ELSE n.shard, c)'
    <3>1. n \in net /\ n # m /\ c \in Copy  BY <1>1, MessageType DEF TypeOK
    <3>2. Expected(IF n.type = "txs" THEN n.to ELSE n.shard, c)  BY <3>1 DEF CopyInv
    <3>3. CASE ~IsHalf(c)  BY <3>2, <3>3 DEF Expected
    <3>4. CASE IsHalf(c) /\ Carries(n, c)
      <4>1. <<"net", n, c>> \in Places(c.tx) /\ <<"net", n, c>> # <<"net", m, c>>
        BY <3>1, <3>4, WaitingIs
      <4> QED  BY <4>1, <3>1, <3>2, <3>4, <1>6 DEF Expected
    <3>5. CASE IsHalf(c) /\ ~Carries(n, c)
      <4>1. n.type = "info" /\ c.stage = "broker2"
        BY <3>1, <3>5, MessageType DEF Carries, IsHalf, TypeOK
      <4>2. c \notin m.txs  BY <4>1, <3>1, <1>1 DEF ReportInv
      <4> QED  BY <4>2, <3>1, <3>2, <3>5, <1>1, RecordStays DEF Expected
    <3> QED  BY <3>3, <3>4, <3>5
  <2>2. ASSUME NEW s \in Shard, NEW c \in pool[s]
        PROVE  Expected(s, c)'
    <3>1. c \in Copy /\ Expected(s, c)  BY DEF TypeOK, CopyInv
    <3>2. <<"pool", s, c>> \in Places(c.tx) /\ <<"pool", s, c>> # <<"net", m, c>>
      BY <3>1, WaitingIs
    <3> QED  BY <3>1, <3>2, <1>6 DEF Expected
  <2>3. ASSUME NEW s \in Shard, NEW c \in proposal[s].txs
        PROVE  Expected(s, c)'
    <3>1. c \in Copy /\ Expected(s, c)  BY DEF TypeOK, CopyInv
    <3>2. <<"block", s, c>> \in Places(c.tx) /\ <<"block", s, c>> # <<"net", m, c>>
      BY <3>1, WaitingIs
    <3> QED  BY <3>1, <3>2, <1>6 DEF Expected
  <2> QED  BY <2>1, <2>2, <2>3, <1>1 DEF CopyInv
<1>8. ReportInv'  BY <1>1 DEF ReportInv
<1>9. RecordInv'
  <2>1. \A i \in First(m) : i \in unconfirmed /\ i.confirmStage = 1  BY RecordsType
  <2>2. \A i \in unconfirmed' :
           /\ \/ i \in unconfirmed \ First(m)
              \/ \E j \in First(m) : i = [tx |-> j.tx, broker |-> j.broker, confirmStage |-> 2]
           /\ \E j \in unconfirmed : j.tx = i.tx /\ j.broker = i.broker
    BY <1>1, RecordsAfter
  <2>3. ASSUME NEW i \in unconfirmed', NEW j \in unconfirmed', i.tx = j.tx
        PROVE  i = j
    <3>1. \A k \in unconfirmed : k.tx = i.tx =>
             i = IF k \in First(m) THEN [tx |-> k.tx, broker |-> k.broker, confirmStage |-> 2] ELSE k
      BY <2>1, <2>2 DEF RecordInv
    <3>2. \A k \in unconfirmed : k.tx = i.tx =>
             j = IF k \in First(m) THEN [tx |-> k.tx, broker |-> k.broker, confirmStage |-> 2] ELSE k
      BY <2>1, <2>2, <2>3 DEF RecordInv
    <3> QED  BY <3>1, <3>2, <2>2
  <2>4. \A i \in unconfirmed' : i.tx \notin unsent'
    BY <2>2, <1>1 DEF RecordInv
  \* The record of what is reported, which waits for it.
  <2>5. \A c \in m.txs : IsHalf(c) => Record(c) \in unconfirmed
    BY <1>1 DEF CopyInv, Expected
  <2>6. ASSUME NEW t \in readyBroker2'
        PROVE  \E i \in unconfirmed' : i.tx = t /\ i.confirmStage = 2
    <3>1. CASE t \in readyBroker2
      <4>1. PICK i \in unconfirmed : i.tx = t /\ i.confirmStage = 2  BY <3>1 DEF RecordInv
      <4> DEFINE c == [tx |-> i.tx, stage |-> "broker2", broker |-> i.broker]
      <4>2. i \in TxInfoStage /\ i = [tx |-> i.tx, broker |-> i.broker, confirmStage |-> 2]
        BY <4>1 DEF TypeOK, TxInfoStage
      <4>3. c \in Copy /\ IsHalf(c)  BY <4>2, HalfType DEF TxInfoStage, IsHalf
      <4>4. Record(c) = i  BY <4>2 DEF Record
      <4>5. <<"ready", t>> \in Places(t) /\ <<"ready", t>> # <<"net", m, c>>
        BY <3>1, <4>1, <4>3, WaitingIs
      <4>6. i \in unconfirmed'  BY <4>1, <4>3, <4>4, <4>5, <1>6
      <4> QED  BY <4>1, <4>6
    <3>2. ASSUME NEW i \in First(m), t = i.tx
          PROVE  \E k \in unconfirmed' : k.tx = t /\ k.confirmStage = 2
      <4> DEFINE k == [tx |-> i.tx, broker |-> i.broker, confirmStage |-> 2]
                 c == [tx |-> i.tx, stage |-> "broker2", broker |-> i.broker]
      <4>1. k \in After(m)  BY RecordsType
      <4>2. ASSUME k \in Second(m) PROVE FALSE
        <5>1. c \in m.txs  BY <4>2, RecordsType
        <5>2. IsHalf(c) /\ Record(c) = k  BY DEF IsHalf, Record
        <5>3. k \in unconfirmed  BY <5>1, <5>2, <2>5
        <5>4. k = i  BY <5>3, <2>1 DEF RecordInv
        <5>5. i.confirmStage = 2  BY <5>4
        <5>6. i.confirmStage = 1  BY <2>1
        <5> QED  BY <5>5, <5>6
      <4>3. k \in unconfirmed'  BY <4>1, <4>2, <1>1
      <4> QED  BY <4>3, <3>2
    <3> QED  BY <3>1, <3>2, <2>6, <1>1
  <2> QED  BY <2>3, <2>4, <2>6, <1>1 DEF RecordInv
<1> QED  BY <1>7, <1>8, <1>9

LEMMA FlowCommit ==
  ASSUME FlowInv, NEW s \in Shard, BlockCommitAndDeliver(s)
  PROVE  CopyInv' /\ ReportInv' /\ RecordInv'
<1> USE DEF FlowInv
<1> DEFINE txs == proposal[s].txs
<1>1. txs \in SUBSET Copy  BY DEF TypeOK
<1>2. /\ net' = net \cup (IF stopped THEN {} ELSE {BlockInfo(s)}) \cup SendTxs(Relayed(txs))
      /\ UNCHANGED <<unsent, unconfirmed, readyBroker2, stopped, pool>>
  BY CommitIs DEF bookVars
<1>3. \A o \in Shard : proposal'[o] = IF o = s THEN NoBlock ELSE proposal[o]
  BY CommitIs DEF TypeOK
<1>4. \A o \in Shard : committed'[o] = IF o = s THEN committed[s] \cup txs ELSE committed[o]
  BY CommitIs DEF TypeOK
<1>5. Relayed(txs) \in SUBSET Copy  BY <1>1, RelayedType
<1>6. \A m \in SendTxs(Relayed(txs)) :
         m.type = "txs" /\ m.txs = {c \in Relayed(txs) : TxLoc(c) = m.to}
  BY <1>5, SendTxsIs
<1>7. /\ BlockInfo(s).txs = txs /\ BlockInfo(s).type = "info" /\ BlockInfo(s).shard = s
  BY DEF BlockInfo
<1>8. \A c \in Relayed(txs) : ~IsHalf(c)  BY <1>1, RelayedIs DEF IsHalf
<1>9. \A c \in txs : Expected(s, c)  BY DEF CopyInv
<1> HIDE DEF txs
<1>10. \A m \in net' : m \in net \/ m = BlockInfo(s) \/ m \in SendTxs(Relayed(txs))  BY <1>2
<1>11. CopyInv'
  <2>1. ASSUME NEW n \in net', NEW c \in n.txs
        PROVE  Expected(IF n.type = "txs" THEN n.to ELSE n.shard, c)'
    <3>1. CASE n \in net  BY <3>1, <1>2 DEF CopyInv, Expected
    <3>2. CASE n = BlockInfo(s)  BY <3>2, <2>1, <1>2, <1>7, <1>9 DEF Expected
    <3>3. CASE n \in SendTxs(Relayed(txs))
      <4>1. n.type = "txs" /\ c \in Relayed(txs) /\ TxLoc(c) = n.to  BY <3>3, <2>1, <1>6
      <4> QED  BY <4>1, <1>8 DEF Expected
    <3> QED  BY <3>1, <3>2, <3>3, <1>10
  <2>2. \A o \in Shard : \A c \in pool'[o] : Expected(o, c)'
    BY <1>2 DEF CopyInv, Expected
  <2>3. \A o \in Shard : \A c \in proposal'[o].txs : Expected(o, c)'
    BY <1>2, <1>3 DEF CopyInv, Expected, NoBlock
  <2>4. \A o \in Shard : ~proposal'[o].built => proposal'[o].txs = {}
    BY <1>3 DEF CopyInv, NoBlock
  <2> QED  BY <2>1, <2>2, <2>3, <2>4 DEF CopyInv
\* What is in the block has not been reported yet.
<1>12. ASSUME NEW c \in txs, c.stage = "broker2", NEW n \in net, n.type = "info"
       PROVE  c \notin n.txs
  <2>1. c \in Copy /\ <<"block", s, c>> \in Places(c.tx)  BY <1>1, WaitingIs DEF txs
  <2>2. c \in n.txs => Places(c.tx) = {}
    <3>1. n.shard \in Shard  BY <1>12, MessageType DEF TypeOK
    <3> QED  BY <3>1, <2>1, <1>12, WaitingIs DEF ReportInv
  <2> QED  BY <2>1, <2>2
<1>13. ReportInv'
  <2>1. ASSUME NEW m \in net', m.type = "info" PROVE m.txs \subseteq committed'[m.shard]
    <3>1. CASE m \in net
      <4>1. m.shard \in Shard /\ m.txs \subseteq committed[m.shard]
        BY <3>1, <2>1, MessageType DEF TypeOK, ReportInv
      <4> QED  BY <4>1, <1>4
    <3>2. CASE m = BlockInfo(s)  BY <3>2, <1>4, <1>7
    <3> QED  BY <3>1, <3>2, <2>1, <1>6, <1>10
  <2>2. ASSUME NEW m \in net', NEW n \in net', NEW c \in m.txs \cap n.txs,
               m.type = "info", n.type = "info", c.stage = "broker2"
        PROVE  m = n
    <3>1. (m \in net \/ m = BlockInfo(s)) /\ (n \in net \/ n = BlockInfo(s))
      BY <2>2, <1>6, <1>10
    <3>2. CASE m \in net /\ n \in net  BY <3>2, <2>2 DEF ReportInv
    <3>3. CASE m \in net /\ n = BlockInfo(s)  BY <3>3, <2>2, <1>7, <1>12
    <3>4. CASE n \in net /\ m = BlockInfo(s)  BY <3>4, <2>2, <1>7, <1>12
    <3> QED  BY <3>1, <3>2, <3>3, <3>4
  <2> QED  BY <2>1, <2>2 DEF ReportInv
<1>14. RecordInv'  BY <1>2 DEF RecordInv
<1> QED  BY <1>11, <1>13, <1>14

LEMMA FlowInit == Init => FlowInv
<1> SUFFICES ASSUME Init PROVE FlowInv  OBVIOUS
<1>1. TypeOK  BY TypeInit
<1>2. /\ net = {} /\ unsent = Tx /\ readyBroker2 = {} /\ unconfirmed = {} /\ stopped = FALSE
      /\ \A s \in Shard : pool[s] = {} /\ proposal[s].txs = {} /\ committed[s] = {}
  BY DEF Init, NoBlock
<1>3. PlaceInv
  <2>1. ASSUME NEW t \in Tx PROVE Places(t) = {<<"source", t>>}
    <3>1. \A p : p \in Places(t) <=> p = <<"source", t>>
      BY <1>2, PlacesAre DEF Places
    <3> QED  BY <3>1
  <2>2. ASSUME NEW t \in Tx PROVE ~Done(t)  BY <1>2 DEF Done, Committed
  <2> QED  BY <2>1, <2>2 DEF PlaceInv
<1>4. CopyInv /\ ReportInv /\ RecordInv  BY <1>2 DEF CopyInv, ReportInv, RecordInv
<1> QED  BY <1>1, <1>3, <1>4 DEF FlowInv

LEMMA FlowNext == FlowInv /\ [Next]_vars => FlowInv'
<1> SUFFICES ASSUME FlowInv, [Next]_vars PROVE FlowInv'  OBVIOUS
<1> USE DEF FlowInv
<1>1. TypeOK'  BY TypeNext
<1>2. CASE ReadTxsAndSend  BY <1>1, <1>2, PlaceRead, FlowRead
<1>3. ASSUME NEW m \in net, HandleBlockInfo(m) PROVE FlowInv'
  BY <1>1, <1>3, PlaceInfo, FlowInfo
<1>4. CASE Stop
  <2>1. UNCHANGED <<unsent, unconfirmed, readyBroker2, net, pool, proposal, committed>> /\ unconfirmed = {}
    BY <1>4 DEF Stop, IsFinished, bookVars, chainVars
  <2>2. PlaceInv'  BY <2>1 DEF PlaceInv, Places, Done, Committed
  <2>3. CopyInv' /\ ReportInv'  BY <2>1 DEF CopyInv, Expected, ReportInv
  <2>4. RecordInv'  BY <2>1 DEF RecordInv
  <2> QED  BY <1>1, <2>2, <2>3, <2>4
<1>5. ASSUME NEW m \in net, HandleReceiveTxs(m) PROVE FlowInv'
  BY <1>1, <1>5, PlaceReceive, FlowReceive
<1>6. ASSUME NEW s \in Shard, BuildProposal(s) PROVE FlowInv'
  BY <1>1, <1>6, PlaceBuild, FlowBuild
<1>7. ASSUME NEW s \in Shard, BlockCommitAndDeliver(s) PROVE FlowInv'
  BY <1>1, <1>7, PlaceCommit, FlowCommit
<1>8. CASE UNCHANGED vars
  <2>1. UNCHANGED <<unsent, unconfirmed, readyBroker2, stopped, net, pool, proposal, committed>>
    BY <1>8 DEF vars, bookVars, chainVars
  <2>2. PlaceInv'  BY <2>1 DEF PlaceInv, Places, Done, Committed
  <2>3. CopyInv' /\ ReportInv'  BY <2>1 DEF CopyInv, Expected, ReportInv
  <2>4. RecordInv'  BY <2>1 DEF RecordInv
  <2> QED  BY <1>1, <2>2, <2>3, <2>4
<1> QED  BY <1>2, <1>3, <1>4, <1>5, <1>6, <1>7, <1>8 DEF Next, Receive, Leader

LEMMA FlowCorrect == Spec => []FlowInv
<1>1. Init => FlowInv  BY FlowInit
<1>2. FlowInv /\ [Next]_vars => FlowInv'  BY FlowNext
<1> QED  BY <1>1, <1>2, PTL DEF Spec

LEMMA CopiesCounted ==
  ASSUME TypeOK, PlaceInv, NEW t \in Tx
  PROVE  Copies(t) = IF Done(t) THEN 0 ELSE 1
<1> DEFINE A == {m \in net : m.type = "txs" /\ Holds(m.txs, t)}
           B == {m \in net : m.type = "info" /\ \E c \in m.txs : c.tx = t /\ c.stage = "broker1"}
           C == {s \in Shard : Holds(pool[s], t)}
           D == {s \in Shard : Holds(proposal[s].txs, t)}
           src == IF t \in unsent THEN 1 ELSE 0
           rdy == IF t \in readyBroker2 THEN 1 ELSE 0
<1>1. Copies(t) = src + rdy + Cardinality(A) + Cardinality(B) + Cardinality(C) + Cardinality(D)
  BY DEF Copies
<1>2. \A p, q \in Places(t) : p = q  BY DEF PlaceInv
<1>3. Places(t) = {} <=> Done(t)  BY DEF PlaceInv
\* Each place, seen as an element of one of the six sets.
<1>4. t \in unsent <=> <<"source", t>> \in Places(t)  BY PlacesAre DEF Places
<1>5. t \in readyBroker2 <=> <<"ready", t>> \in Places(t)  BY PlacesAre DEF Places
<1>6. \A m \in A : m.type = "txs" /\ \E c \in Copy : c \in m.txs /\ <<"net", m, c>> \in Places(t)
  BY MessageType, PlacesAre DEF Places, Holds, Carries, TypeOK
<1>7. \A m \in B : m.type = "info" /\ \E c \in Copy : c \in m.txs /\ <<"net", m, c>> \in Places(t)
  BY MessageType, PlacesAre DEF Places, Carries, TypeOK
<1>8. \A s \in C : \E c \in Copy : <<"pool", s, c>> \in Places(t)
  BY PlacesAre DEF Places, Holds, TypeOK
<1>9. \A s \in D : \E c \in Copy : <<"block", s, c>> \in Places(t)
  BY PlacesAre DEF Places, Holds, TypeOK
<1>10. \A p \in Places(t) : t \in unsent \/ t \in readyBroker2 \/ A # {} \/ B # {} \/ C # {} \/ D # {}
  <2>1. ASSUME NEW m \in net, NEW c \in Copy, c.tx = t, Carries(m, c)
        PROVE  m \in A \cup B
    BY <2>1, MessageType DEF Carries, Holds, TypeOK
  <2>2. ASSUME NEW s \in Shard, NEW c \in Copy, c.tx = t, c \in pool[s] PROVE s \in C
    BY <2>2 DEF Holds
  <2>3. ASSUME NEW s \in Shard, NEW c \in Copy, c.tx = t, c \in proposal[s].txs PROVE s \in D
    BY <2>3 DEF Holds
  <2> HIDE DEF A, B, C, D
  <2>4. ASSUME NEW p \in Places(t)
        PROVE  t \in unsent \/ t \in readyBroker2 \/ A # {} \/ B # {} \/ C # {} \/ D # {}
    <3>1. \/ t \in unsent
          \/ t \in readyBroker2
          \/ \E m \in net, c \in Copy : c.tx = t /\ Carries(m, c)
          \/ \E s \in Shard, c \in Copy : c.tx = t /\ c \in pool[s]
          \/ \E s \in Shard, c \in Copy : c.tx = t /\ c \in proposal[s].txs
      BY <2>4, PlacesAre DEF Places
    <3> QED  BY <3>1, <2>1, <2>2, <2>3
  <2> QED  BY <2>4
<1> HIDE DEF A, B, C, D, src, rdy
<1>11. \A x, y \in A : x = y  BY <1>2, <1>6
<1>12. \A x, y \in B : x = y  BY <1>2, <1>7
<1>13. \A x, y \in C : x = y  BY <1>2, <1>8
<1>14. \A x, y \in D : x = y  BY <1>2, <1>9
<1>15. \A m \in A : B = {} /\ C = {} /\ D = {} /\ t \notin unsent /\ t \notin readyBroker2
  <2> TAKE m \in A
  <2>1. PICK c \in Copy : <<"net", m, c>> \in Places(t) /\ m.type = "txs"  BY <1>6
  <2>2. B = {}
    <3>1. ASSUME NEW n \in B PROVE FALSE
      <4>1. PICK d \in Copy : <<"net", n, d>> \in Places(t) /\ n.type = "info"  BY <1>7
      <4>2. <<"net", m, c>> = <<"net", n, d>>  BY <2>1, <4>1, <1>2
      <4> QED  BY <4>1, <4>2, <2>1
    <3> QED  BY <3>1
  <2> QED  BY <2>1, <2>2, <1>2, <1>4, <1>5, <1>8, <1>9
<1>16. \A m \in B : C = {} /\ D = {} /\ t \notin unsent /\ t \notin readyBroker2
  BY <1>2, <1>4, <1>5, <1>7, <1>8, <1>9
<1>17. \A s \in C : D = {} /\ t \notin unsent /\ t \notin readyBroker2
  BY <1>2, <1>4, <1>5, <1>8, <1>9
<1>18. \A s \in D : t \notin unsent /\ t \notin readyBroker2
  BY <1>2, <1>4, <1>5, <1>9
<1>19. ~(t \in unsent /\ t \in readyBroker2)
  BY <1>2, <1>4, <1>5
<1>20. /\ Cardinality(A) = IF A = {} THEN 0 ELSE 1
       /\ Cardinality(B) = IF B = {} THEN 0 ELSE 1
       /\ Cardinality(C) = IF C = {} THEN 0 ELSE 1
       /\ Cardinality(D) = IF D = {} THEN 0 ELSE 1
  BY <1>11, <1>12, <1>13, <1>14, AtMostOne
<1>21. CASE Done(t)
  <2>1. A = {} /\ B = {} /\ C = {} /\ D = {} /\ t \notin unsent /\ t \notin readyBroker2
    BY <1>21, <1>3, <1>4, <1>5, <1>6, <1>7, <1>8, <1>9
  <2> QED  BY <1>21, <2>1, <1>1, <1>20 DEF src, rdy
<1>22. CASE ~Done(t)
  <2>1. t \in unsent \/ t \in readyBroker2 \/ A # {} \/ B # {} \/ C # {} \/ D # {}
    BY <1>22, <1>3, <1>10
  <2> QED
    BY <1>22, <2>1, <1>1, <1>15, <1>16, <1>17, <1>18, <1>19, <1>20 DEF src, rdy
<1> QED  BY <1>21, <1>22

\* An unfinished transfer, or the half of it that comes next, is in exactly
\* one place between source, messages, pools, blocks, reports and the list of
\* ready second halves, a finished one nowhere: whatever is packed when, and
\* in whatever order messages and reports arrive.
THEOREM NeverLostOrDoubled == Spec => []NothingLostOrDoubled
<1>1. FlowInv => NothingLostOrDoubled  BY CopiesCounted DEF FlowInv, NothingLostOrDoubled
<1> QED  BY <1>1, FlowCorrect, PTL

\* ConfirmBrokerTx never refuses a half that a shard reports: its record is
\* there and waits for that half, in whatever order the reports arrive.
THEOREM AlwaysConfirmsInOrder == Spec => []ConfirmsInOrder
<1>1. FlowInv => ConfirmsInOrder
  <2> SUFFICES ASSUME FlowInv, NEW m \in net, m.type = "info", NEW c \in m.txs, IsHalf(c)
               PROVE  Record(c) \in unconfirmed
    BY DEF ConfirmsInOrder, Record, IsHalf
  <2> QED  BY DEF FlowInv, CopyInv, Expected
<1> QED  BY <1>1, FlowCorrect, PTL

-----------------------------------------------------------------------------
(***************************************************************************)
(* The books of the supervisor                                             *)
(***************************************************************************)

HalfTxs(txs, b, stage) == {c.tx : c \in {d \in txs : d.broker = b /\ d.stage = stage}}

LEMMA HalfTxsType ==
  ASSUME NEW txs \in SUBSET Copy, NEW b, NEW stage
  PROVE  HalfTxs(txs, b, stage) \in SUBSET Tx
BY DEF HalfTxs, Copy

\* In the books of a shard a broker only appears through its halves.
LEMMA BrokerPays ==
  ASSUME NEW c \in Copy, NEW b \in Broker
  PROVE  /\ Payee(c) = b <=> c.broker = b /\ c.stage = "broker1"
         /\ Payer(c) = b <=> c.broker = b /\ c.stage = "broker2"
<1>1. /\ c.tx \in Tx
      /\ c.stage \in {"inner", "relay1", "relay2", "broker1", "broker2"}
  BY TxLocType
<1>2. Sender[c.tx] # b /\ Recipient[c.tx] # b /\ NoBroker # b
  <2>1. Sender[c.tx] \in Account /\ Recipient[c.tx] \in Account  BY <1>1, TxAssumption
  <2>2. Account \cap Broker = {}  BY FundsAssumption, Zenon
  <2> QED  BY <2>1, <2>2, TxAssumption
<1>3. CASE c.stage = "inner"
  <2>1. Payee(c) = Recipient[c.tx] /\ Payer(c) = Sender[c.tx]  BY <1>3 DEF Payee, Payer
  <2> QED  BY <2>1, <1>2, <1>3
<1>4. CASE c.stage = "relay1"
  <2>1. Payee(c) = NoBroker /\ Payer(c) = Sender[c.tx]  BY <1>4 DEF Payee, Payer
  <2> QED  BY <2>1, <1>2, <1>4
<1>5. CASE c.stage = "relay2"
  <2>1. Payee(c) = Recipient[c.tx] /\ Payer(c) = NoBroker  BY <1>5 DEF Payee, Payer
  <2> QED  BY <2>1, <1>2, <1>5
<1>6. CASE c.stage = "broker1"
  <2>1. Payee(c) = c.broker /\ Payer(c) = Sender[c.tx]  BY <1>6 DEF Payee, Payer
  <2> QED  BY <2>1, <1>2, <1>6
<1>7. CASE c.stage = "broker2"
  <2>1. Payee(c) = Recipient[c.tx] /\ Payer(c) = c.broker  BY <1>7 DEF Payee, Payer
  <2> QED  BY <2>1, <1>2, <1>7
<1> QED  BY <1>1, <1>3, <1>4, <1>5, <1>6, <1>7

\* A block info and the records it confirms belong together.
LEMMA SecondIs ==
  ASSUME FlowInv, NEW m \in net, HandleBlockInfo(m), NEW k \in Second(m)
  PROVE  /\ k \in unconfirmed \ First(m)
         /\ [tx |-> k.tx, stage |-> "broker2", broker |-> k.broker] \in m.txs
         /\ To(k.tx) = m.shard
         /\ k.tx \in Tx /\ k.broker \in Broker
<1> USE DEF FlowInv
<1> DEFINE c == [tx |-> k.tx, stage |-> "broker2", broker |-> k.broker]
<1>1. m.type = "info"  BY InfoIs
<1>2. c \in m.txs /\ k \in After(m)  BY RecordsType
<1>3. k \in TxInfoStage  BY <1>2, RecordsType
<1>4. k.tx \in Tx /\ k.broker \in Broker  BY <1>3 DEF TxInfoStage
<1>5. k.confirmStage = 2  BY RecordsType
<1>6. k = [tx |-> k.tx, broker |-> k.broker, confirmStage |-> 2]  BY <1>3, <1>5 DEF TxInfoStage
<1>7. Expected(m.shard, c)  BY <1>1, <1>2 DEF CopyInv
<1>8. Record(c) = k /\ IsHalf(c)  BY <1>6 DEF Record, IsHalf
<1>9. k \in unconfirmed  BY <1>7, <1>8 DEF Expected
<1>10. \A i \in First(m) : i.confirmStage = 1  BY RecordsType
<1>11. k \notin First(m)  BY <1>5, <1>10
<1>12. To(k.tx) = m.shard  BY <1>7 DEF Expected, TxLoc
<1> QED  BY <1>2, <1>4, <1>9, <1>11, <1>12

LEMMA ConfirmedTxs ==
  ASSUME FlowInv, NEW m \in net, HandleBlockInfo(m), NEW b
  PROVE  /\ TxsOf(First(m), b) = HalfTxs(m.txs, b, "broker1")
         /\ TxsOf(Second(m), b) = HalfTxs(m.txs, b, "broker2")
<1> USE DEF FlowInv
<1>1. m.type = "info" /\ m.txs \in SUBSET Copy  BY InfoIs, MessageType DEF TypeOK
<1>2. \A c \in m.txs : IsHalf(c) => Record(c) \in unconfirmed  BY <1>1 DEF CopyInv, Expected
<1>3. ASSUME NEW i \in First(m), i.broker = b PROVE i.tx \in HalfTxs(m.txs, b, "broker1")
  <2> DEFINE c == [tx |-> i.tx, stage |-> "broker1", broker |-> i.broker]
  <2>1. c \in m.txs  BY RecordsType
  <2>2. c.tx = i.tx /\ c.stage = "broker1" /\ c.broker = b  BY <1>3
  <2> HIDE DEF c
  <2> QED  BY <2>1, <2>2 DEF HalfTxs
<1>4. ASSUME NEW k \in Second(m), k.broker = b PROVE k.tx \in HalfTxs(m.txs, b, "broker2")
  <2> DEFINE c == [tx |-> k.tx, stage |-> "broker2", broker |-> k.broker]
  <2>1. c \in m.txs  BY SecondIs
  <2>2. c.tx = k.tx /\ c.stage = "broker2" /\ c.broker = b  BY <1>4
  <2> HIDE DEF c
  <2> QED  BY <2>1, <2>2 DEF HalfTxs
<1>5. ASSUME NEW c \in m.txs, c.broker = b, c.stage = "broker1" PROVE c.tx \in TxsOf(First(m), b)
  <2>1. Record(c) \in unconfirmed  BY <1>2, <1>5 DEF IsHalf
  <2>2. Record(c) = [tx |-> c.tx, broker |-> b, confirmStage |-> 1]  BY <1>5 DEF Record
  <2>3. c = [tx |-> c.tx, stage |-> "broker1", broker |-> b]  BY <1>1, <1>5, TxLocType
  <2>4. Record(c) \in First(m)  BY <2>1, <2>2, <2>3, RecordsType
  <2>5. Record(c).tx = c.tx /\ Record(c).broker = b  BY <2>2
  <2> QED  BY <2>4, <2>5 DEF TxsOf
<1>6. ASSUME NEW c \in m.txs, c.broker = b, c.stage = "broker2" PROVE c.tx \in TxsOf(Second(m), b)
  <2>1. Record(c) \in unconfirmed  BY <1>2, <1>6 DEF IsHalf
  <2>2. Record(c) = [tx |-> c.tx, broker |-> b, confirmStage |-> 2]  BY <1>6 DEF Record
  <2>3. c = [tx |-> c.tx, stage |-> "broker2", broker |-> b]  BY <1>1, <1>6, TxLocType
  <2>4. Record(c).confirmStage = 2 /\ Record(c).tx = c.tx /\ Record(c).broker = b  BY <2>2
  <2>5. \A i \in First(m) : i.confirmStage = 1  BY RecordsType
  <2>6. Record(c) \in After(m)  BY <2>1, <2>4, <2>5, RecordsType
  <2>7. Record(c) \in Second(m)  BY <2>2, <2>3, <2>6, RecordsType
  <2> QED  BY <2>4, <2>7 DEF TxsOf
<1>7. TxsOf(First(m), b) = HalfTxs(m.txs, b, "broker1")  BY <1>3, <1>5 DEF TxsOf, HalfTxs
<1>8. TxsOf(Second(m), b) = HalfTxs(m.txs, b, "broker2")  BY <1>4, <1>6 DEF TxsOf, HalfTxs
<1> QED  BY <1>7, <1>8

\* The transfers that broker b has been given for shard s.
OpenTxs(records, b, s) == {i.tx : i \in {j \in records : j.broker = b /\ To(j.tx) = s}}

LEMMA OpenTxsType ==
  ASSUME NEW R \in SUBSET TxInfoStage, NEW b, NEW s
  PROVE  OpenTxs(R, b, s) \in SUBSET Tx
BY DEF OpenTxs, TxInfoStage

LEMMA OpenAfterInfo ==
  ASSUME FlowInv, NEW m \in net, HandleBlockInfo(m), NEW b \in Broker, NEW s \in Shard
  PROVE  /\ OpenTxs(unconfirmed', b, s) =
              IF s = m.shard THEN OpenTxs(unconfirmed, b, s) \ TxsOf(Second(m), b)
                             ELSE OpenTxs(unconfirmed, b, s)
         /\ TxsOf(Second(m), b) \subseteq OpenTxs(unconfirmed, b, m.shard)
<1> USE DEF FlowInv
<1>1. unconfirmed' = After(m) \ Second(m)  BY InfoIs
<1>2. \A k \in Second(m) : k \in unconfirmed \ First(m) /\ To(k.tx) = m.shard  BY SecondIs
<1>3. \A i \in unconfirmed' :
         /\ \/ i \in unconfirmed \ First(m)
            \/ \E j \in First(m) : i = [tx |-> j.tx, broker |-> j.broker, confirmStage |-> 2]
         /\ \E j \in unconfirmed : j.tx = i.tx /\ j.broker = i.broker
  BY <1>1, RecordsAfter
<1>4. First(m) \subseteq unconfirmed  BY RecordsType
\* A confirmed second half leaves no other record of its transfer.
<1>5. ASSUME NEW i \in unconfirmed', NEW k \in Second(m) PROVE i.tx # k.tx
  <2>1. SUFFICES ASSUME i.tx = k.tx PROVE FALSE  OBVIOUS
  <2>2. CASE i \in unconfirmed \ First(m)
    <3>1. i = k  BY <2>1, <2>2, <1>2 DEF RecordInv
    <3> QED  BY <3>1, <1>1
  <2>3. ASSUME NEW j \in First(m), i = [tx |-> j.tx, broker |-> j.broker, confirmStage |-> 2]
        PROVE  FALSE
    <3>1. j.tx = k.tx  BY <2>1, <2>3
    <3>2. j = k  BY <3>1, <1>2, <1>4 DEF RecordInv
    <3> QED  BY <3>2, <1>2
  <2> QED  BY <2>2, <2>3, <1>3
<1>6. ASSUME NEW t \in OpenTxs(unconfirmed', b, s)
      PROVE  t \in OpenTxs(unconfirmed, b, s) /\ t \notin TxsOf(Second(m), b)
  <2>1. PICK i \in unconfirmed' : i.tx = t /\ i.broker = b /\ To(i.tx) = s  BY DEF OpenTxs
  <2>2. PICK j \in unconfirmed : j.tx = i.tx /\ j.broker = i.broker  BY <1>3
  <2>3. t \in OpenTxs(unconfirmed, b, s)  BY <2>1, <2>2 DEF OpenTxs
  <2>4. t \notin TxsOf(Second(m), b)  BY <2>1, <1>5 DEF TxsOf
  <2> QED  BY <2>3, <2>4
<1>7. ASSUME NEW t \in OpenTxs(unconfirmed, b, s), t \notin TxsOf(Second(m), b)
      PROVE  t \in OpenTxs(unconfirmed', b, s)
  <2>1. PICK i \in unconfirmed : i.tx = t /\ i.broker = b /\ To(i.tx) = s  BY DEF OpenTxs
  <2>2. CASE i \notin First(m)
    <3>1. i \in After(m)  BY <2>2, RecordsType
    <3>2. i \notin Second(m)  BY <2>1, <1>7 DEF TxsOf
    <3> QED  BY <3>1, <3>2, <2>1, <1>1 DEF OpenTxs
  <2>3. CASE i \in First(m)
    <3> DEFINE k == [tx |-> i.tx, broker |-> i.broker, confirmStage |-> 2]
    <3>1. k \in After(m)  BY <2>3, RecordsType
    <3>2. k.tx = t /\ k.broker = b  BY <2>1
    <3> HIDE DEF k
    <3>3. k \notin Second(m)  BY <3>2, <1>7 DEF TxsOf
    <3> QED  BY <3>1, <3>2, <3>3, <2>1, <1>1 DEF OpenTxs
  <2> QED  BY <2>2, <2>3
<1>8. TxsOf(Second(m), b) \subseteq OpenTxs(unconfirmed, b, m.shard)
  BY <1>2 DEF TxsOf, OpenTxs
<1>9. s # m.shard => \A t \in OpenTxs(unconfirmed, b, s) : t \notin TxsOf(Second(m), b)
  BY <1>2 DEF TxsOf, OpenTxs
<1> QED  BY <1>6, <1>7, <1>8, <1>9

\* What the supervisor believes of a broker: its pending deductions are the
\* transfers it has been given, its balance is the one in the chain up to the
\* blocks not heard of, and it has not promised more than that.
BooksInv == PendingIsUnconfirmed /\ BooksMatchChain /\ AvailableInv

LEMMA PendingIs ==
  PendingIsUnconfirmed <=>
    \A b \in Broker, s \in Shard : pendingDeductions[b][s] = Total(OpenTxs(unconfirmed, b, s))
BY DEF PendingIsUnconfirmed, OpenTxs

\* What shard s has reported and the supervisor has not handled.
Reports(msgs, s) == UNION {m.txs : m \in {n \in msgs : n.type = "info" /\ n.shard = s}}

\* What a broker has in shard s, by the blocks the supervisor has heard of,
\* beyond an amount that it believes in.
Excess(money, b, s, msgs, believed) ==
  money - Total(HalfTxs(Reports(msgs, s), b, "broker1"))
        + Total(HalfTxs(Reports(msgs, s), b, "broker2")) - believed

LEMMA BooksAre ==
  BooksMatchChain <=>
    \A b \in Broker, s \in Shard : Refills(Excess(balance[s][b], b, s, net, brokerBalances[b][s]))
BY DEF BooksMatchChain, Unreported, Undelivered, Reports, HalfTxs, Excess

LEMMA BooksAreNext ==
  BooksMatchChain' <=>
    \A b \in Broker, s \in Shard :
      Refills(Excess(balance'[s][b], b, s, net', brokerBalances'[b][s]))
BY DEF BooksMatchChain, Unreported, Undelivered, Reports, HalfTxs, Excess

\* Nothing is no initial balance, one more is one more.
LEMMA RefillsMore ==
  /\ Refills(0)
  /\ \A d \in Int : Refills(d) => d >= 0 /\ Refills(d + BrokerInitBalance)
<1>1. BrokerInitBalance \in Nat  BY SizeAssumption
<1>2. Refills(0)
  <2>1. 0 \in 0 .. 0 /\ 0 = 0 * BrokerInitBalance  BY <1>1
  <2> QED  BY <2>1 DEF Refills
<1>3. ASSUME NEW d \in Int, Refills(d)
      PROVE  d >= 0 /\ Refills(d + BrokerInitBalance)
  <2>1. PICK n \in 0 .. d : d = n * BrokerInitBalance  BY <1>3 DEF Refills
  <2>2. n \in Nat /\ n <= d /\ d >= 0  BY <2>1
  <2>3. CASE BrokerInitBalance = 0
    <3>1. d + BrokerInitBalance = d  BY <2>3
    <3> QED  BY <3>1, <2>2, <1>3
  <2>4. CASE BrokerInitBalance # 0
    <3>1. n + 1 \in 0 .. (d + BrokerInitBalance)  BY <2>2, <2>4, <1>1
    <3>2. (n + 1) * BrokerInitBalance = n * BrokerInitBalance + BrokerInitBalance  BY <2>2, <1>1
    <3> QED  BY <3>1, <3>2, <2>1, <2>2 DEF Refills
  <2> QED  BY <2>3, <2>4
<1> QED  BY <1>2, <1>3

LEMMA ReportsType ==
  ASSUME NEW msgs \in SUBSET Message, NEW s
  PROVE  Reports(msgs, s) \in SUBSET Copy
BY MessageType DEF Reports

\* New transfers come on top of the open ones.
LEMMA OpenAfterRead ==
  ASSUME FlowInv, NEW f \in BrokerChoices(Cross),
         unconfirmed' = unconfirmed \cup {NewRecord(f, t) : t \in Brokered(f)},
         NEW b \in Broker, NEW s \in Shard
  PROVE  /\ OpenTxs(unconfirmed', b, s) = OpenTxs(unconfirmed, b, s) \cup Assigned(f, b, s)
         /\ OpenTxs(unconfirmed, b, s) \cap Assigned(f, b, s) = {}
         /\ Assigned(f, b, s) \in SUBSET Tx
<1> USE DEF FlowInv
<1>1. Cross \subseteq unsent /\ unsent \subseteq Tx  BY DEF Cross, ReadTxs, TypeOK
<1>2. \A t \in Brokered(f) : NewRecord(f, t).tx = t /\ NewRecord(f, t).broker = f[t]
  BY DEF NewRecord
<1>3. \A t : t \in Assigned(f, b, s) <=> t \in Brokered(f) /\ f[t] = b /\ To(t) = s
  BY TxAssumption DEF Assigned, Brokered
<1>4. \A t \in OpenTxs(unconfirmed, b, s) : t \notin unsent  BY DEF OpenTxs, RecordInv
<1>5. OpenTxs(unconfirmed', b, s) = OpenTxs(unconfirmed, b, s) \cup Assigned(f, b, s)
  <2>1. ASSUME NEW t \in OpenTxs(unconfirmed', b, s)
        PROVE  t \in OpenTxs(unconfirmed, b, s) \cup Assigned(f, b, s)
    <3>1. PICK i \in unconfirmed' : i.tx = t /\ i.broker = b /\ To(i.tx) = s  BY DEF OpenTxs
    <3>2. CASE i \in unconfirmed  BY <3>1, <3>2 DEF OpenTxs
    <3>3. ASSUME NEW u \in Brokered(f), i = NewRecord(f, u)
          PROVE  t \in Assigned(f, b, s)
      BY <3>1, <3>3, <1>2, <1>3
    <3> QED  BY <3>2, <3>3
  <2>2. OpenTxs(unconfirmed, b, s) \subseteq OpenTxs(unconfirmed', b, s)  BY DEF OpenTxs
  <2>3. ASSUME NEW t \in Assigned(f, b, s)
        PROVE  t \in OpenTxs(unconfirmed', b, s)
    <3>1. t \in Brokered(f) /\ f[t] = b /\ To(t) = s  BY <1>3
    <3>2. NewRecord(f, t) \in unconfirmed'  BY <3>1
    <3> QED  BY <3>1, <3>2, <1>2 DEF OpenTxs
  <2> QED  BY <2>1, <2>2, <2>3
<1>6. OpenTxs(unconfirmed, b, s) \cap Assigned(f, b, s) = {}  BY <1>1, <1>4 DEF Assigned
<1> QED  BY <1>1, <1>5, <1>6 DEF Assigned

\* The last transfer that broker b is given for shard s is covered, and with
\* it those before.
LEMMA AssignedCovered ==
  ASSUME TypeOK, AvailableInv, NEW f \in BrokerChoices(Cross), NEW b \in Broker, NEW s \in Shard
  PROVE  Total(Assigned(f, b, s)) <= Available(b, s)
<1> DEFINE A == Assigned(f, b, s)
<1>1. Cross \subseteq Tx /\ Tx \subseteq Nat /\ IsFiniteSet(Tx) /\ Value \in [Tx -> Nat] /\ NoBroker # b
  BY TxAssumption DEF Cross, ReadTxs, TypeOK
<1>2. A \in SUBSET Tx /\ A \in SUBSET Nat  BY <1>1 DEF Assigned
<1>3. IsFiniteSet(A)  BY <1>1, <1>2, FS_Subset
<1>4. brokerBalances[b][s] \in Int /\ pendingDeductions[b][s] \in Nat
  BY DEF TypeOK
<1>5. CASE A = {}
  <2>1. Total(A) = 0  BY <1>5, TotalEmpty
  <2> QED  BY <2>1, <1>4 DEF AvailableInv, Available
<1>6. CASE A # {}
  <2>1. PICK u \in A : \A y \in A : y <= u  BY <1>2, <1>3, <1>6, GreatestElement
  <2> DEFINE Taken == {v \in Cross : v < u /\ f[v] = b /\ To(v) = To(u)}
  <2>2. u \in Cross /\ f[u] = b /\ To(u) = s /\ u \in Tx  BY <1>1 DEF Assigned
  <2>3. Available(b, s) - Total(Taken) >= Value[u]
    <3>1. f[u] # NoBroker  BY <2>2, <1>1
    <3>2. Available(f[u], To(u)) - Total({v \in Cross : v < u /\ f[v] = f[u] /\ To(v) = To(u)}) >= Value[u]
      BY <2>2, <3>1 DEF BrokerChoices
    <3> QED  BY <2>2, <3>2
  <2>4. A = Taken \cup {u} /\ Taken \cap {u} = {}
    <3>1. \A v \in A : v < u \/ v = u  BY <2>1, <1>2
    <3>2. ~(u < u)  BY <1>2
    <3> QED  BY <2>2, <3>1, <3>2 DEF Assigned
  <2>5. Taken \in SUBSET Tx /\ {u} \in SUBSET Tx  BY <1>1, <2>2
  <2> HIDE DEF A, Taken
  <2>6. Total(A) = Total(Taken) + Total({u})  BY <2>4, <2>5, TotalUnion
  <2>7. Total({u}) = Value[u]
    <3>1. SumOf(Value, {u}) = Value[u]  BY <1>1, <2>2, SumSingleton
    <3> QED  BY <3>1, <2>5, TotalIsSum
  <2>8. Total(Taken) \in Nat /\ Value[u] \in Nat  BY <1>1, <2>2, <2>5, TotalNat
  <2>9. Available(b, s) \in Int  BY <1>4 DEF Available
  <2> QED  BY <2>3, <2>6, <2>7, <2>8, <2>9 DEF A
<1> QED  BY <1>5, <1>6

\* The amounts in the books are numbers.
LEMMA BooksType ==
  ASSUME TypeOK, NEW b \in Broker, NEW s \in Shard
  PROVE  /\ brokerBalances[b][s] \in Int
         /\ pendingDeductions[b][s] \in Nat
         /\ balance[s][b] \in Int
         /\ \A stage : Total(HalfTxs(Reports(net, s), b, stage)) \in Nat
<1>1. net \in SUBSET Message  BY DEF TypeOK
<1>2. Reports(net, s) \in SUBSET Copy  BY <1>1, ReportsType
<1>3. \A stage : Total(HalfTxs(Reports(net, s), b, stage)) \in Nat
  BY <1>2, HalfTxsType, TotalNat
<1>4. brokerBalances[b][s] \in Int /\ pendingDeductions[b][s] \in Nat /\ balance[s][b] \in Int
  BY DEF TypeOK
<1> QED  BY <1>3, <1>4

LEMMA BooksRead ==
  ASSUME FlowInv, BooksInv, ReadTxsAndSend
  PROVE  BooksInv'
<1> USE DEF FlowInv
<1>1. PICK f \in BrokerChoices(Cross) :
         /\ net' = net \cup SendTxs(Outgoing(f))
         /\ unconfirmed' = unconfirmed \cup {NewRecord(f, t) : t \in Brokered(f)}
         /\ pendingDeductions' = [b \in Broker |-> [s \in Shard |->
               pendingDeductions[b][s] + Total(Assigned(f, b, s))]]
  BY ReadIs
<1>2. brokerBalances' = brokerBalances /\ balance' = balance
  BY ReadIs DEF chainVars
<1>3. \A b \in Broker, s \in Shard :
         pendingDeductions'[b][s] = pendingDeductions[b][s] + Total(Assigned(f, b, s))
  BY <1>1
<1>4. ASSUME NEW b \in Broker, NEW s \in Shard
      PROVE  pendingDeductions'[b][s] = Total(OpenTxs(unconfirmed', b, s))
  <2>1. /\ OpenTxs(unconfirmed', b, s) = OpenTxs(unconfirmed, b, s) \cup Assigned(f, b, s)
        /\ OpenTxs(unconfirmed, b, s) \cap Assigned(f, b, s) = {}
        /\ Assigned(f, b, s) \in SUBSET Tx
    BY <1>1, OpenAfterRead
  <2>2. OpenTxs(unconfirmed, b, s) \in SUBSET Tx  BY OpenTxsType DEF TypeOK
  <2>3. Total(OpenTxs(unconfirmed', b, s)) = Total(OpenTxs(unconfirmed, b, s)) + Total(Assigned(f, b, s))
    BY <2>1, <2>2, TotalUnion
  <2> QED  BY <2>3, <1>3, PendingIs DEF BooksInv
<1>5. \A s \in Shard : Reports(net', s) = Reports(net, s)
  <2>1. Outgoing(f) \in SUBSET Copy  BY OutgoingIs
  <2>2. \A m \in SendTxs(Outgoing(f)) : m.type = "txs"  BY <2>1, SendTxsIs
  <2> QED  BY <2>2, <1>1 DEF Reports
<1>6. ASSUME NEW b \in Broker, NEW s \in Shard
      PROVE  brokerBalances'[b][s] >= pendingDeductions'[b][s]
  <2>1. Total(Assigned(f, b, s)) <= Available(b, s)  BY AssignedCovered DEF BooksInv
  <2>2. Total(Assigned(f, b, s)) \in Nat
    <3>1. Assigned(f, b, s) \in SUBSET Tx  BY <1>1, OpenAfterRead
    <3> QED  BY <3>1, TotalNat
  <2>3. brokerBalances[b][s] \in Int /\ pendingDeductions[b][s] \in Nat  BY BooksType
  <2> QED  BY <2>1, <2>2, <2>3, <1>2, <1>3 DEF Available
<1>7. PendingIsUnconfirmed'  BY <1>4 DEF PendingIsUnconfirmed, OpenTxs
<1>8. BooksMatchChain'
  <2>1. \A b \in Broker, s \in Shard :
      Refills(Excess(balance'[s][b], b, s, net', brokerBalances'[b][s]))
    BY <1>2, <1>5, BooksAre DEF BooksInv, Excess
  <2> QED  BY <2>1, BooksAreNext
<1>9. AvailableInv'  BY <1>6 DEF AvailableInv
<1> QED  BY <1>7, <1>8, <1>9 DEF BooksInv

\* Two reports have no half in common.
LEMMA ReportedOnce ==
  ASSUME FlowInv, NEW m \in net, NEW n \in net, m.type = "info", n.type = "info",
         NEW b, NEW stage \in {"broker1", "broker2"},
         HalfTxs(m.txs, b, stage) \cap HalfTxs(n.txs, b, stage) # {}
  PROVE  m = n
<1> USE DEF FlowInv
<1>1. PICK c \in m.txs, d \in n.txs :
         c.tx = d.tx /\ c.broker = b /\ d.broker = b /\ c.stage = stage /\ d.stage = stage
  BY DEF HalfTxs
<1>2. c \in Copy /\ d \in Copy  BY MessageType DEF TypeOK
<1>3. c = d
  <2>1. c = [tx |-> c.tx, stage |-> c.stage, broker |-> c.broker]  BY <1>2, TxLocType
  <2>2. d = [tx |-> d.tx, stage |-> d.stage, broker |-> d.broker]  BY <1>2, TxLocType
  <2> QED  BY <2>1, <2>2, <1>1
<1>4. CASE stage = "broker1"
  <2>1. <<"net", m, c>> \in Places(c.tx) /\ <<"net", n, c>> \in Places(c.tx)
    BY <1>1, <1>2, <1>3, <1>4, WaitingIs DEF Carries
  <2>2. <<"net", m, c>> = <<"net", n, c>>  BY <2>1, <1>2, TxLocType DEF PlaceInv
  <2> QED  BY <2>2
<1>5. CASE stage = "broker2"
  BY <1>1, <1>3, <1>5 DEF ReportInv
<1> QED  BY <1>4, <1>5

\* A handled report is none any more.
LEMMA ReportsAfterInfo ==
  ASSUME FlowInv, NEW m \in net, HandleBlockInfo(m), NEW b \in Broker, NEW s \in Shard,
         NEW stage \in {"broker1", "broker2"}
  PROVE  /\ HalfTxs(Reports(net', s), b, stage) =
              IF s = m.shard THEN HalfTxs(Reports(net, s), b, stage) \ HalfTxs(m.txs, b, stage)
                             ELSE HalfTxs(Reports(net, s), b, stage)
         /\ HalfTxs(m.txs, b, stage) \subseteq HalfTxs(Reports(net, m.shard), b, stage)
<1>1. net' = net \ {m} /\ m.type = "info"  BY InfoIs
<1>2. \A o : \A t : t \in HalfTxs(Reports(net, o), b, stage) <=>
         \E n \in net : n.type = "info" /\ n.shard = o /\ t \in HalfTxs(n.txs, b, stage)
  BY DEF HalfTxs, Reports
<1>3. \A t : t \in HalfTxs(Reports(net', s), b, stage) <=>
         \E n \in net' : n.type = "info" /\ n.shard = s /\ t \in HalfTxs(n.txs, b, stage)
  BY DEF HalfTxs, Reports
<1>4. \A n \in net' : n.type = "info" =>
         n \in net /\ n # m /\ \A t \in HalfTxs(n.txs, b, stage) : t \notin HalfTxs(m.txs, b, stage)
  BY <1>1, ReportedOnce
<1> DEFINE H(n) == HalfTxs(n.txs, b, stage)
           Old  == HalfTxs(Reports(net, s), b, stage)
           New  == HalfTxs(Reports(net', s), b, stage)
<1>5. ASSUME s = m.shard PROVE New = Old \ H(m)
  <2>1. \A t \in Old : t \notin H(m) => t \in New
    <3>1. ASSUME NEW n \in net, n.type = "info", n.shard = s, NEW t \in H(n), t \notin H(m)
          PROVE  n \in net'
      BY <3>1, <1>1
    <3> QED  BY <3>1, <1>2, <1>3
  <2>2. \A t \in New : t \in Old /\ t \notin H(m)  BY <1>2, <1>3, <1>4
  <2> QED  BY <2>1, <2>2
<1>6. ASSUME s # m.shard PROVE New = Old
  <2>1. \A n \in net : n.shard = s => n \in net'  BY <1>1, <1>6
  <2> QED  BY <2>1, <1>2, <1>3, <1>4
<1>7. H(m) \subseteq HalfTxs(Reports(net, m.shard), b, stage)  BY <1>1, <1>2
<1> QED  BY <1>5, <1>6, <1>7

LEMMA BooksInfo ==
  ASSUME FlowInv, BooksInv, NEW m \in net, HandleBlockInfo(m)
  PROVE  BooksInv'
<1> USE DEF FlowInv
<1>1. m.type = "info" /\ m.shard \in Shard /\ m.txs \in SUBSET Copy
  BY InfoIs, MessageType DEF TypeOK
<1>2. balance' = balance  BY InfoIs DEF chainVars
<1> DEFINE F(b) == Total(TxsOf(First(m), b))
           S(b) == Total(TxsOf(Second(m), b))
<1>3. /\ brokerBalances' = [b \in Broker |->
              [brokerBalances[b] EXCEPT ![m.shard] = @ + (F(b) - S(b))]]
      /\ pendingDeductions' = [b \in Broker |->
              [pendingDeductions[b] EXCEPT ![m.shard] = Cleared(@, S(b))]]
  BY InfoIs
<1>4. \A b \in Broker : /\ TxsOf(First(m), b) = HalfTxs(m.txs, b, "broker1")
                        /\ TxsOf(Second(m), b) = HalfTxs(m.txs, b, "broker2")
  BY ConfirmedTxs
<1>5. \A b \in Broker : F(b) \in Nat /\ S(b) \in Nat
  BY <1>1, <1>4, HalfTxsType, TotalNat
<1>6. ASSUME NEW b \in Broker, NEW s \in Shard
      PROVE  /\ pendingDeductions'[b][s] = Total(OpenTxs(unconfirmed', b, s))
             /\ pendingDeductions'[b][s] =
                   IF s = m.shard THEN pendingDeductions[b][s] - S(b) ELSE pendingDeductions[b][s]
  <2>1. pendingDeductions[b][s] = Total(OpenTxs(unconfirmed, b, s))  BY PendingIs DEF BooksInv
  <2>2. CASE s = m.shard
    <3>1. /\ OpenTxs(unconfirmed', b, s) = OpenTxs(unconfirmed, b, s) \ TxsOf(Second(m), b)
          /\ TxsOf(Second(m), b) \subseteq OpenTxs(unconfirmed, b, s)
      BY <2>2, OpenAfterInfo
    <3>2. OpenTxs(unconfirmed, b, s) \in SUBSET Tx  BY OpenTxsType DEF TypeOK
    <3>3. /\ Total(OpenTxs(unconfirmed', b, s)) = Total(OpenTxs(unconfirmed, b, s)) - S(b)
          /\ S(b) <= Total(OpenTxs(unconfirmed, b, s))
      BY <3>1, <3>2, TotalDifference
    <3>4. pendingDeductions'[b][s] = Cleared(pendingDeductions[b][s], S(b))
      BY <2>2, <1>1, <1>3 DEF TypeOK
    <3>5. pendingDeductions[b][s] \in Nat  BY BooksType
    <3> HIDE DEF S
    <3>6. pendingDeductions'[b][s] = pendingDeductions[b][s] - S(b)
      BY <3>3, <3>4, <3>5, <2>1, <1>5, ClearedIs
    <3> QED  BY <3>3, <3>6, <2>1, <2>2
  <2>3. CASE s # m.shard
    <3>1. OpenTxs(unconfirmed', b, s) = OpenTxs(unconfirmed, b, s)  BY <2>3, OpenAfterInfo
    <3>2. pendingDeductions'[b][s] = pendingDeductions[b][s]
      BY <2>3, <1>3 DEF TypeOK
    <3> QED  BY <2>1, <2>3, <3>1, <3>2
  <2> QED  BY <2>2, <2>3
<1>7. ASSUME NEW b \in Broker, NEW s \in Shard
      PROVE  brokerBalances'[b][s] =
                IF s = m.shard THEN brokerBalances[b][s] + (F(b) - S(b)) ELSE brokerBalances[b][s]
  BY <1>1, <1>3 DEF TypeOK
<1>8. ASSUME NEW b \in Broker, NEW s \in Shard
      PROVE  /\ Total(HalfTxs(Reports(net', s), b, "broker1")) =
                  IF s = m.shard THEN Total(HalfTxs(Reports(net, s), b, "broker1")) - F(b)
                                 ELSE Total(HalfTxs(Reports(net, s), b, "broker1"))
             /\ Total(HalfTxs(Reports(net', s), b, "broker2")) =
                  IF s = m.shard THEN Total(HalfTxs(Reports(net, s), b, "broker2")) - S(b)
                                 ELSE Total(HalfTxs(Reports(net, s), b, "broker2"))
  <2>1. net \in SUBSET Message  BY DEF TypeOK
  <2>2. Reports(net, s) \in SUBSET Copy  BY <2>1, ReportsType
  <2>3. /\ HalfTxs(Reports(net, s), b, "broker1") \in SUBSET Tx
        /\ HalfTxs(Reports(net, s), b, "broker2") \in SUBSET Tx
    BY <2>2, HalfTxsType
  <2>4. /\ HalfTxs(Reports(net', s), b, "broker1") =
              IF s = m.shard THEN HalfTxs(Reports(net, s), b, "broker1") \ HalfTxs(m.txs, b, "broker1")
                             ELSE HalfTxs(Reports(net, s), b, "broker1")
        /\ HalfTxs(m.txs, b, "broker1") \subseteq HalfTxs(Reports(net, m.shard), b, "broker1")
    BY ReportsAfterInfo
  <2>5. /\ HalfTxs(Reports(net', s), b, "broker2") =
              IF s = m.shard THEN HalfTxs(Reports(net, s), b, "broker2") \ HalfTxs(m.txs, b, "broker2")
                             ELSE HalfTxs(Reports(net, s), b, "broker2")
        /\ HalfTxs(m.txs, b, "broker2") \subseteq HalfTxs(Reports(net, m.shard), b, "broker2")
    BY ReportsAfterInfo
  <2>6. CASE s = m.shard
    <3>1. Total(HalfTxs(Reports(net, s), b, "broker1") \ HalfTxs(m.txs, b, "broker1"))
            = Total(HalfTxs(Reports(net, s), b, "broker1")) - Total(HalfTxs(m.txs, b, "broker1"))
      BY <2>3, <2>4, <2>6, TotalDifference
    <3>2. Total(HalfTxs(Reports(net, s), b, "broker2") \ HalfTxs(m.txs, b, "broker2"))
            = Total(HalfTxs(Reports(net, s), b, "broker2")) - Total(HalfTxs(m.txs, b, "broker2"))
      BY <2>3, <2>5, <2>6, TotalDifference
    <3>3. F(b) = Total(HalfTxs(m.txs, b, "broker1")) /\ S(b) = Total(HalfTxs(m.txs, b, "broker2"))
      BY <1>4
    <3> QED  BY <3>1, <3>2, <3>3, <2>4, <2>5, <2>6
  <2>7. CASE s # m.shard  BY <2>4, <2>5, <2>7
  <2> QED  BY <2>6, <2>7
<1> HIDE DEF F, S
<1>9. PendingIsUnconfirmed'  BY <1>6 DEF PendingIsUnconfirmed, OpenTxs
<1>10. AvailableInv'
  <2>1. ASSUME NEW b \in Broker, NEW s \in Shard
        PROVE  brokerBalances'[b][s] >= pendingDeductions'[b][s]
    <3>1. brokerBalances[b][s] \in Int /\ pendingDeductions[b][s] \in Nat
      BY BooksType
    <3>2. brokerBalances[b][s] >= pendingDeductions[b][s]
      BY DEF BooksInv, AvailableInv
    <3>3. F(b) \in Nat /\ S(b) \in Nat  BY <1>5
    <3> QED  BY <3>1, <3>2, <3>3, <1>6, <1>7
  <2> QED  BY <2>1 DEF AvailableInv
<1>11. BooksMatchChain'
  <2>1. ASSUME NEW b \in Broker, NEW s \in Shard
        PROVE  Refills(Excess(balance'[s][b], b, s, net', brokerBalances'[b][s]))
    <3>1. /\ brokerBalances[b][s] \in Int /\ balance[s][b] \in Int
          /\ Total(HalfTxs(Reports(net, s), b, "broker1")) \in Nat
          /\ Total(HalfTxs(Reports(net, s), b, "broker2")) \in Nat
      BY BooksType
    <3>2. Refills(Excess(balance[s][b], b, s, net, brokerBalances[b][s]))
      BY BooksAre DEF BooksInv
    <3>3. F(b) \in Nat /\ S(b) \in Nat  BY <1>5
    <3>4. balance'[s][b] = balance[s][b]  BY <1>2
    <3>5. Excess(balance'[s][b], b, s, net', brokerBalances'[b][s])
            = Excess(balance[s][b], b, s, net, brokerBalances[b][s])
      BY <3>1, <3>3, <3>4, <1>7, <1>8 DEF Excess
    <3> QED  BY <3>2, <3>5
  <2> QED  BY <2>1, BooksAreNext
<1> QED  BY <1>9, <1>10, <1>11 DEF BooksInv

\* A half in a block has not been reported.
LEMMA BlockNotReported ==
  ASSUME FlowInv, NEW s \in Shard, NEW b, NEW stage \in {"broker1", "broker2"}
  PROVE  HalfTxs(proposal[s].txs, b, stage) \cap HalfTxs(Reports(net, s), b, stage) = {}
<1> USE DEF FlowInv
<1>1. SUFFICES ASSUME NEW c \in proposal[s].txs, NEW m \in net, m.type = "info", NEW d \in m.txs,
                      c.tx = d.tx, c.broker = b, d.broker = b, c.stage = stage, d.stage = stage
               PROVE  FALSE
  BY DEF HalfTxs, Reports
<1>2. c \in Copy /\ d \in Copy /\ m.shard \in Shard  BY <1>1, MessageType DEF TypeOK
<1>3. c = d
  <2>1. c = [tx |-> c.tx, stage |-> c.stage, broker |-> c.broker]  BY <1>2, TxLocType
  <2>2. d = [tx |-> d.tx, stage |-> d.stage, broker |-> d.broker]  BY <1>2, TxLocType
  <2> QED  BY <2>1, <2>2, <1>1
<1>4. <<"block", s, c>> \in Places(c.tx)  BY <1>2, WaitingIs
<1>5. CASE stage = "broker1"
  <2>1. <<"net", m, c>> \in Places(c.tx)  BY <1>1, <1>2, <1>3, <1>5, WaitingIs DEF Carries
  <2>2. <<"net", m, c>> = <<"block", s, c>>  BY <2>1, <1>2, <1>4, TxLocType DEF PlaceInv
  <2> QED  BY <2>2
<1>6. CASE stage = "broker2"
  <2>1. c \in committed[m.shard]  BY <1>1, <1>3 DEF ReportInv
  <2>2. Places(c.tx) = {}  BY <2>1, <1>1, <1>2, <1>6, WaitingIs
  <2> QED  BY <2>2, <1>4
<1> QED  BY <1>5, <1>6

\* What a block does to the money of a broker in its shard; a broker that had
\* nothing left may begin anew.
LEMMA BrokerExecuted ==
  ASSUME NEW txs \in SUBSET Copy, NEW old, NEW b \in Broker
  PROVE  /\ Executed(txs, old)[b] = Opening(b, txs, old) + Total(HalfTxs(txs, b, "broker1"))
                                                         - Total(HalfTxs(txs, b, "broker2"))
         /\ Opening(b, txs, old) = old[b] \/ (old[b] = 0 /\ Opening(b, txs, old) = BrokerInitBalance)
<1>1. {d \in txs : Payee(d) = b} = {d \in txs : d.broker = b /\ d.stage = "broker1"}
  BY BrokerPays
<1>2. {d \in txs : Payer(d) = b} = {d \in txs : d.broker = b /\ d.stage = "broker2"}
  BY BrokerPays
<1>3. Executed(txs, old)[b] =
          Opening(b, txs, old) + Total({c.tx : c \in {d \in txs : Payee(d) = b}})
                               - Total({c.tx : c \in {d \in txs : Payer(d) = b}})
  BY DEF Executed
<1>4. Opening(b, txs, old) = old[b] \/ (old[b] = 0 /\ Opening(b, txs, old) = BrokerInitBalance)
  BY DEF Opening, FirstBalance
<1> QED  BY <1>1, <1>2, <1>3, <1>4 DEF HalfTxs

\* A committed block is reported, unless the supervisor has stopped: then it
\* holds no halves.
LEMMA ReportsAfterCommit ==
  ASSUME FlowInv, NEW s \in Shard, BlockCommitAndDeliver(s), NEW o \in Shard,
         NEW b, NEW stage \in {"broker1", "broker2"}
  PROVE  HalfTxs(Reports(net', o), b, stage) =
            IF o = s THEN HalfTxs(Reports(net, o), b, stage) \cup HalfTxs(proposal[s].txs, b, stage)
                     ELSE HalfTxs(Reports(net, o), b, stage)
<1> USE DEF FlowInv
<1> DEFINE txs == proposal[s].txs
           H(n) == HalfTxs(n.txs, b, stage)
           Old  == HalfTxs(Reports(net, o), b, stage)
           New  == HalfTxs(Reports(net', o), b, stage)
<1>1. txs \in SUBSET Copy  BY DEF TypeOK
<1>2. net' = net \cup (IF stopped THEN {} ELSE {BlockInfo(s)}) \cup SendTxs(Relayed(txs))
  BY CommitIs
<1>3. \A m \in SendTxs(Relayed(txs)) : m.type = "txs"
  BY <1>1, RelayedType, SendTxsIs
<1>4. BlockInfo(s).txs = txs /\ BlockInfo(s).type = "info" /\ BlockInfo(s).shard = s
  BY DEF BlockInfo
<1>5. stopped => HalfTxs(txs, b, stage) = {}
  <2>1. ASSUME stopped, NEW c \in txs PROVE ~IsHalf(c)
    BY <2>1 DEF RecordInv, CopyInv, Expected
  <2> QED  BY <2>1 DEF HalfTxs, IsHalf
<1>6. \A t : t \in Old <=> \E n \in net : n.type = "info" /\ n.shard = o /\ t \in H(n)
  BY DEF HalfTxs, Reports
<1>7. \A t : t \in New <=> \E n \in net' : n.type = "info" /\ n.shard = o /\ t \in H(n)
  BY DEF HalfTxs, Reports
<1> DEFINE B == HalfTxs(txs, b, stage)
<1>8. H(BlockInfo(s)) = B  BY <1>4
<1> HIDE DEF txs, H, Old, New, B
<1>9. \A n \in net' : n.type = "info" => n \in net \/ (~stopped /\ n = BlockInfo(s))
  BY <1>2, <1>3
<1>10. net \subseteq net' /\ (~stopped => BlockInfo(s) \in net')  BY <1>2
<1>11. CASE o = s
  <2>1. \A t \in New : t \in Old \cup B  BY <1>6, <1>7, <1>8, <1>9
  <2>2. \A t \in Old : t \in New  BY <1>6, <1>7, <1>10
  <2>3. \A t \in B : t \in New
    <3>1. CASE stopped  BY <3>1, <1>5 DEF B
    <3>2. CASE ~stopped  BY <3>2, <1>4, <1>7, <1>8, <1>10, <1>11
    <3> QED  BY <3>1, <3>2
  <2>4. New = Old \cup B  BY <2>1, <2>2, <2>3
  <2> QED  BY <2>4, <1>11 DEF New, Old, B, txs
<1>12. CASE o # s
  <2>1. \A t \in New : t \in Old  BY <1>4, <1>6, <1>7, <1>9, <1>12
  <2>2. \A t \in Old : t \in New  BY <1>6, <1>7, <1>10
  <2>3. New = Old  BY <2>1, <2>2
  <2> QED  BY <2>3, <1>12 DEF New, Old
<1> QED  BY <1>11, <1>12

LEMMA BooksCommit ==
  ASSUME FlowInv, BooksInv, NEW s \in Shard, BlockCommitAndDeliver(s)
  PROVE  BooksInv'
<1> USE DEF FlowInv
<1> DEFINE txs == proposal[s].txs
           Rep(o, b, stage) == HalfTxs(Reports(net, o), b, stage)
<1>1. txs \in SUBSET Copy  BY DEF TypeOK
<1>2. UNCHANGED <<unconfirmed, brokerBalances, pendingDeductions>>  BY CommitIs DEF bookVars
<1>3. PendingIsUnconfirmed' /\ AvailableInv'
  BY <1>2 DEF BooksInv, PendingIsUnconfirmed, AvailableInv
<1>4. \A o \in Shard : balance'[o] = IF o = s THEN Executed(txs, balance[s]) ELSE balance[o]
  BY CommitIs DEF TypeOK
<1>5. net \in SUBSET Message  BY DEF TypeOK
<1>6. ASSUME NEW b \in Broker, NEW o \in Shard, NEW stage \in {"broker1", "broker2"}
      PROVE  /\ Total(HalfTxs(Reports(net', o), b, stage)) =
                  IF o = s THEN Total(Rep(o, b, stage)) + Total(HalfTxs(txs, b, stage))
                           ELSE Total(Rep(o, b, stage))
             /\ Total(HalfTxs(txs, b, stage)) \in Nat
  <2>1. Rep(o, b, stage) \in SUBSET Tx /\ HalfTxs(txs, b, stage) \in SUBSET Tx
    BY <1>1, <1>5, ReportsType, HalfTxsType
  <2>2. o = s => Rep(o, b, stage) \cap HalfTxs(txs, b, stage) = {}
    BY BlockNotReported
  <2>3. HalfTxs(Reports(net', o), b, stage) =
            IF o = s THEN Rep(o, b, stage) \cup HalfTxs(txs, b, stage) ELSE Rep(o, b, stage)
    BY ReportsAfterCommit
  <2>4. o = s => Total(Rep(o, b, stage) \cup HalfTxs(txs, b, stage))
                   = Total(Rep(o, b, stage)) + Total(HalfTxs(txs, b, stage))
    BY <2>1, <2>2, TotalUnion
  <2> QED  BY <2>1, <2>3, <2>4, TotalNat
<1>7. ASSUME NEW b \in Broker, NEW o \in Shard
      PROVE  Refills(Excess(balance'[o][b], b, o, net', brokerBalances'[b][o]))
  <2>1. /\ brokerBalances[b][o] \in Int /\ balance[o][b] \in Int
        /\ Total(Rep(o, b, "broker1")) \in Nat
        /\ Total(Rep(o, b, "broker2")) \in Nat
    BY BooksType
  <2> DEFINE old == Excess(balance[o][b], b, o, net, brokerBalances[b][o])
             new == Excess(balance'[o][b], b, o, net', brokerBalances'[b][o])
             first == Opening(b, txs, balance[o])
  <2>2. Refills(old) /\ old = balance[o][b] - Total(Rep(o, b, "broker1"))
                                + Total(Rep(o, b, "broker2")) - brokerBalances[b][o]
    BY BooksAre DEF BooksInv, Excess
  <2>3. o = s => /\ balance'[o][b] = first + Total(HalfTxs(txs, b, "broker1"))
                                          - Total(HalfTxs(txs, b, "broker2"))
                 /\ first = balance[o][b] \/ first = balance[o][b] + BrokerInitBalance
    <3>1. BrokerInitBalance \in Nat  BY SizeAssumption
    <3> QED  BY <1>1, <1>4, <3>1, BrokerExecuted
  <2>4. o # s => balance'[o][b] = balance[o][b]  BY <1>4
  <2>5. /\ Total(HalfTxs(Reports(net', o), b, "broker1")) =
              IF o = s THEN Total(Rep(o, b, "broker1")) + Total(HalfTxs(txs, b, "broker1"))
                       ELSE Total(Rep(o, b, "broker1"))
        /\ Total(HalfTxs(txs, b, "broker1")) \in Nat
    BY <1>6
  <2>6. /\ Total(HalfTxs(Reports(net', o), b, "broker2")) =
              IF o = s THEN Total(Rep(o, b, "broker2")) + Total(HalfTxs(txs, b, "broker2"))
                       ELSE Total(Rep(o, b, "broker2"))
        /\ Total(HalfTxs(txs, b, "broker2")) \in Nat
    BY <1>6
  <2>7. new = balance'[o][b] - Total(HalfTxs(Reports(net', o), b, "broker1"))
                + Total(HalfTxs(Reports(net', o), b, "broker2")) - brokerBalances[b][o]
    BY <1>2 DEF Excess
  <2>8. BrokerInitBalance \in Nat  BY SizeAssumption
  <2>9. old \in Int  BY <2>1, <2>2
  <2> HIDE DEF txs, Rep, old, new, first
  <2>10. new = old \/ new = old + BrokerInitBalance
    <3>1. CASE o # s  BY <3>1, <2>1, <2>2, <2>4, <2>5, <2>6, <2>7
    <3>2. CASE o = s /\ first = balance[o][b]
      BY <3>2, <2>1, <2>2, <2>3, <2>5, <2>6, <2>7, <2>8
    <3>3. CASE o = s /\ first = balance[o][b] + BrokerInitBalance
      BY <3>3, <2>1, <2>2, <2>3, <2>5, <2>6, <2>7, <2>8
    <3> QED  BY <3>1, <3>2, <3>3, <2>3
  <2>11. Refills(new)  BY <2>2, <2>9, <2>10, RefillsMore
  <2> QED  BY <2>11 DEF new
<1>8. BooksMatchChain'  BY <1>7, BooksAreNext
<1> QED  BY <1>3, <1>8 DEF BooksInv

LEMMA BooksInit == Init => BooksInv
<1> SUFFICES ASSUME Init PROVE BooksInv  OBVIOUS
<1>1. /\ net = {} /\ unconfirmed = {}
      /\ \A b \in Broker, s \in Shard : /\ brokerBalances[b][s] = BrokerInitBalance
                                        /\ pendingDeductions[b][s] = 0
                                        /\ balance[s][b] = BrokerInitBalance
  BY DEF Init, FirstBalance
<1>2. \A b \in Broker, s \in Shard : OpenTxs(unconfirmed, b, s) = {}  BY <1>1 DEF OpenTxs
<1>3. \A s \in Shard : \A b, stage : HalfTxs(Reports(net, s), b, stage) = {}
  BY <1>1 DEF HalfTxs, Reports
<1>4. Total({}) = 0 /\ BrokerInitBalance \in Nat  BY TotalEmpty, SizeAssumption
<1>5. PendingIsUnconfirmed  BY <1>1, <1>2, <1>4, PendingIs
<1>6. BooksMatchChain
  <2>1. ASSUME NEW b \in Broker, NEW s \in Shard
        PROVE  Excess(balance[s][b], b, s, net, brokerBalances[b][s]) = 0
    <3>1. /\ HalfTxs(Reports(net, s), b, "broker1") = {}
          /\ HalfTxs(Reports(net, s), b, "broker2") = {}
      BY <1>3
    <3>2. /\ Total(HalfTxs(Reports(net, s), b, "broker1")) = 0
          /\ Total(HalfTxs(Reports(net, s), b, "broker2")) = 0
      BY <3>1, <1>4
    <3> QED  BY <3>2, <1>1, <1>4 DEF Excess
  <2>2. Refills(0)  BY RefillsMore
  <2>3. \A b \in Broker, s \in Shard :
            Refills(Excess(balance[s][b], b, s, net, brokerBalances[b][s]))
    BY <2>1, <2>2
  <2> QED  BY <2>3, BooksAre
<1>7. AvailableInv  BY <1>1, <1>4 DEF AvailableInv
<1> QED  BY <1>5, <1>6, <1>7 DEF BooksInv

\* Where neither books nor balances nor reports change, the books stay right.
LEMMA BooksUnchanged ==
  ASSUME BooksInv, UNCHANGED <<unconfirmed, brokerBalances, pendingDeductions, balance>>,
         \A s \in Shard : Reports(net', s) = Reports(net, s)
  PROVE  BooksInv'
<1>1. PendingIsUnconfirmed' /\ AvailableInv'
  BY DEF BooksInv, PendingIsUnconfirmed, AvailableInv
<1>2. \A b \in Broker, s \in Shard :
      Refills(Excess(balance'[s][b], b, s, net', brokerBalances'[b][s]))
  BY BooksAre DEF BooksInv, Excess
<1>3. BooksMatchChain'  BY <1>2, BooksAreNext
<1> QED  BY <1>1, <1>3 DEF BooksInv

LEMMA BooksNext == FlowInv /\ BooksInv /\ [Next]_vars => BooksInv'
<1> SUFFICES ASSUME FlowInv, BooksInv, [Next]_vars PROVE BooksInv'  OBVIOUS
<1>1. CASE ReadTxsAndSend  BY <1>1, BooksRead
<1>2. ASSUME NEW m \in net, HandleBlockInfo(m) PROVE BooksInv'  BY <1>2, BooksInfo
<1>3. CASE Stop
  <2>1. UNCHANGED <<unconfirmed, brokerBalances, pendingDeductions, balance, net>>
    BY <1>3 DEF Stop, bookVars, chainVars
  <2> QED  BY <2>1, BooksUnchanged
<1>4. ASSUME NEW m \in net, HandleReceiveTxs(m) PROVE BooksInv'
  <2>1. /\ UNCHANGED <<unconfirmed, brokerBalances, pendingDeductions, balance>>
        /\ net' = net \ {m} /\ m.type = "txs"
    BY <1>4 DEF HandleReceiveTxs, bookVars, chainVars
  <2>2. \A s \in Shard : Reports(net', s) = Reports(net, s)  BY <2>1 DEF Reports
  <2> QED  BY <2>1, <2>2, BooksUnchanged
<1>5. ASSUME NEW s \in Shard, BuildProposal(s) PROVE BooksInv'
  <2>1. UNCHANGED <<unconfirmed, brokerBalances, pendingDeductions, balance, net>>
    BY <1>5 DEF BuildProposal, bookVars, chainVars
  <2> QED  BY <2>1, BooksUnchanged
<1>6. ASSUME NEW s \in Shard, BlockCommitAndDeliver(s) PROVE BooksInv'  BY <1>6, BooksCommit
<1>7. CASE UNCHANGED vars
  <2>1. UNCHANGED <<unconfirmed, brokerBalances, pendingDeductions, balance, net>>
    BY <1>7 DEF vars, bookVars, chainVars
  <2> QED  BY <2>1, BooksUnchanged
<1> QED  BY <1>1, <1>2, <1>3, <1>4, <1>5, <1>6, <1>7 DEF Next, Receive, Leader

LEMMA BooksCorrect == Spec => [](FlowInv /\ BooksInv)
<1>1. Init => FlowInv /\ BooksInv  BY FlowInit, BooksInit
<1>2. (FlowInv /\ BooksInv) /\ [Next]_vars => (FlowInv /\ BooksInv)'  BY FlowNext, BooksNext
<1> QED  BY <1>1, <1>2, PTL DEF Spec

\* The max in ConfirmBrokerTx never cuts anything off: the pending deductions
\* of a broker in a shard are the transfers it has been given there and that
\* are not confirmed, to the coin.
THEOREM PendingAlwaysUnconfirmed == Spec => []PendingIsUnconfirmed
<1>1. FlowInv /\ BooksInv => PendingIsUnconfirmed  BY DEF BooksInv
<1> QED  BY <1>1, BooksCorrect, PTL

\* The broker manager learns of a broker's money from block infos only, of
\* the shards in any order; up to those on their way it knows the balances in
\* the state tries.  The one thing it does not learn is that a shard creates
\* the account of a broker anew after it was spent to the last coin: the books
\* then stay behind by an initial balance, and are never ahead.
THEOREM BooksAlwaysMatchChain == Spec => []BooksMatchChain
<1>1. FlowInv /\ BooksInv => BooksMatchChain  BY DEF BooksInv
<1> QED  BY <1>1, BooksCorrect, PTL

\* What a report holds of second halves was promised and is paid.
LEMMA ReportedWasPromised ==
  ASSUME FlowInv, NEW b \in Broker, NEW s \in Shard
  PROVE  /\ HalfTxs(Reports(net, s), b, "broker2") \subseteq OpenTxs(unconfirmed, b, s)
         /\ Promised(b, s) \subseteq OpenTxs(unconfirmed, b, s)
         /\ Promised(b, s) \cap HalfTxs(Reports(net, s), b, "broker2") = {}
<1> USE DEF FlowInv
<1>1. ASSUME NEW t \in HalfTxs(Reports(net, s), b, "broker2")
      PROVE  t \in OpenTxs(unconfirmed, b, s) /\ Committed(t, "broker2")
  <2>1. PICK m \in net : /\ m.type = "info" /\ m.shard = s
                        /\ \E d \in m.txs : d.tx = t /\ d.broker = b /\ d.stage = "broker2"
    BY DEF HalfTxs, Reports
  <2>2. PICK d \in m.txs : d.tx = t /\ d.broker = b /\ d.stage = "broker2"  BY <2>1
  <2>3. Expected(s, d)  BY <2>1 DEF CopyInv
  <2>4. Record(d) \in unconfirmed /\ To(t) = s  BY <2>2, <2>3 DEF Expected, IsHalf, TxLoc
  <2>5. Record(d).tx = t /\ Record(d).broker = b  BY <2>2 DEF Record
  <2>6. d \in committed[s]  BY <2>1 DEF ReportInv
  <2> QED  BY <2>2, <2>4, <2>5, <2>6 DEF OpenTxs, Committed
<1>2. Promised(b, s) \subseteq OpenTxs(unconfirmed, b, s)  BY DEF Promised, OpenTxs
<1>3. \A t \in Promised(b, s) : ~Committed(t, "broker2")  BY DEF Promised
<1> QED  BY <1>1, <1>2, <1>3

\* brokerTxExecute subtracts the second half without a check, and never needs
\* one: a broker has in the state of a shard what it has promised to pay
\* there, whatever the supervisor has not heard of yet.
THEOREM PromisesAlwaysCovered == Spec => []PromisesCovered
<1>1. ASSUME FlowInv, BooksInv, NEW b \in Broker, NEW s \in Shard
      PROVE  balance[s][b] >= Total(Promised(b, s))
  <2> DEFINE O  == OpenTxs(unconfirmed, b, s)
             P  == Promised(b, s)
             R1 == HalfTxs(Reports(net, s), b, "broker1")
             R2 == HalfTxs(Reports(net, s), b, "broker2")
  <2>1. R2 \subseteq O /\ P \subseteq O \ R2  BY <1>1, ReportedWasPromised
  <2>2. O \in SUBSET Tx  BY <1>1, OpenTxsType DEF FlowInv, TypeOK
  <2>3. /\ brokerBalances[b][s] \in Int /\ pendingDeductions[b][s] \in Nat /\ balance[s][b] \in Int
        /\ Total(R1) \in Nat /\ Total(R2) \in Nat
    BY <1>1, BooksType DEF FlowInv
  <2>4. pendingDeductions[b][s] = Total(O)  BY <1>1, PendingIs DEF BooksInv
  <2>5. brokerBalances[b][s] <= balance[s][b] - Total(R1) + Total(R2)
    <3> DEFINE e == balance[s][b] - Total(R1) + Total(R2) - brokerBalances[b][s]
    <3>1. Refills(e)  BY <1>1, BooksAre DEF BooksInv, Excess
    <3>2. e \in Int  BY <2>3
    <3>3. e >= 0  BY <3>1, <3>2, RefillsMore
    <3> QED  BY <3>3, <2>3
  <2>6. brokerBalances[b][s] >= pendingDeductions[b][s]  BY <1>1 DEF BooksInv, AvailableInv
  <2> HIDE DEF O, P, R1, R2
  <2>7. O \ R2 \in SUBSET Tx  BY <2>2
  <2>8. Total(O \ R2) = Total(O) - Total(R2)  BY <2>1, <2>2, TotalDifference
  <2>9. Total(P) <= Total(O \ R2)  BY <2>1, <2>7, TotalDifference
  <2>10. Total(P) \in Nat /\ Total(O) \in Nat  BY <2>1, <2>2, TotalNat
  <2>11. balance[s][b] >= Total(P)  BY <2>3, <2>4, <2>5, <2>6, <2>8, <2>9, <2>10
  <2> QED  BY <2>11 DEF P
<1>2. FlowInv /\ BooksInv => PromisesCovered  BY <1>1 DEF PromisesCovered
<1> QED  BY <1>2, BooksCorrect, PTL
==============================================================================

-------------------------------- MODULE Measure --------------------------------
(***************************************************************************)
(* What is reported of an experiment while it runs: the main goroutine of  *)
(* the supervisor (supervisor/supervisor.go) hands every block info to the *)
(* measure goroutine through a bounded channel, and RelayStats or          *)
(* BrokerStats (supervisor/measure) pair the two halves of a transfer,     *)
(* which are reported by two leaders in any order.  At the end the channel *)
(* is closed, the measure goroutine finishes, and the result is written.   *)
(*                                                                         *)
(* The shards are an environment that commits blocks (RelayShards and      *)
(* BrokerShards model how): a leader sends the info of a block from a      *)
(* goroutine of its own, so infos overtake each other.  A repartition is   *)
(* one step here.                                                          *)
(***************************************************************************)
EXTENDS Integers, Sequences, FiniteSets, SequencesExt

CONSTANTS
    Shard,          \* 1 .. n, in the order of their numbers
    Account,
    Tx,
    Sender,         \* Sender[t], Recipient[t]: accounts of t
    Recipient,
    Value,          \* Value[t]: amount of t
    InitBalance,    \* NormalInitBalanceStr
    DefaultAccountLoc,
    Fallback,       \* transfers for which no broker can pay
    WmBufferSize,   \* capacity of measureMsgBuf
    BlockSizeLimit,
    MaxEpoch        \* bound: repartitions

ASSUME MeasureAssumption ==
    /\ Shard \subseteq Nat /\ IsFiniteSet(Shard) /\ IsFiniteSet(Tx)
    /\ Sender \in [Tx -> Account] /\ Recipient \in [Tx -> Account]
    /\ Value \in [Tx -> Nat] /\ InitBalance \in Nat
    /\ DefaultAccountLoc \in [Account -> Shard]
    /\ Fallback \subseteq Tx
    /\ WmBufferSize \in Nat \ {0} /\ BlockSizeLimit \in Nat \ {0} /\ MaxEpoch \in Nat

Stage == {"inner", "relay1", "relay2", "broker1", "broker2"}
Copy  == [tx : Tx, stage : Stage \cup {"raw"}]
Block == [epoch : Nat, time : Nat, txs : Seq([tx : Tx, stage : Stage])]

\* A block info names its block: shard and height.
Info   == Shard \X (Nat \ {0})
NoInfo == <<>>

\* What a txLifeCycle, and the CSV line made from it, says of a transfer: the
\* blocks whose times it holds.
LifeCycle == [first : Info \cup {NoInfo}, second : Info \cup {NoInfo}]
NoLife    == [first |-> NoInfo, second |-> NoInfo]

VARIABLES
    kind,           \* the consensus type: "relay" or "broker"
    \* the shards
    home,           \* the shard of every account
    ready,          \* transactions in pools and on their way to them
    blocks,
    epoch,
    clock,
    moved,          \* the time of the last repartition
    trail,          \* trail[a]: the transfers of account a as executed
    net,            \* block infos on their way
    \* the main goroutine
    main,           \* "loop", "wait", "stopped"
    msgList,        \* the messages of the present tick still to be handled
    handled,        \* the block infos it has handled
    \* the measure goroutine
    measureMsgBuf,
    sub,            \* "run", "done"
    \* RelayStats or BrokerStats
    txLifecycles,
    detail,         \* detail[t]: the CSV lines of t
    txNum,          \* txNum[e][stage]
    brief           \* txNum as it was written at the end

shardVars == <<home, ready, blocks, epoch, clock, moved, trail>>
statVars  == <<txLifecycles, detail, txNum>>
vars      == <<kind, shardVars, net, main, msgList, handled, measureMsgBuf, sub, statVars, brief>>

Epoch == 0 .. MaxEpoch
Zero  == [e \in Epoch |-> [st \in Stage |-> 0]]

TypeOK ==
    /\ kind \in {"relay", "broker"}
    /\ home \in [Account -> Shard]
    /\ ready \subseteq Copy
    /\ blocks \in [Shard -> Seq(Block)]
    /\ epoch \in Epoch
    /\ clock \in Nat /\ moved \in Nat
    /\ trail \in [Account -> Seq([tx : Tx, balance : Int])]
    /\ net \subseteq Info
    /\ main \in {"loop", "wait", "stopped"}
    /\ msgList \subseteq net
    /\ handled \subseteq Info
    /\ measureMsgBuf \in Seq(Info) /\ Len(measureMsgBuf) <= WmBufferSize
    /\ sub \in {"run", "done"}
    /\ txLifecycles \in [Tx -> LifeCycle]
    /\ detail \in [Tx -> Seq(LifeCycle)]
    /\ txNum \in [Epoch -> [Stage -> Nat]]
    /\ brief \in [Epoch -> [Stage -> Nat]]

Init ==
    /\ kind \in {"relay", "broker"}
    /\ home = DefaultAccountLoc
    /\ ready = [tx : Tx, stage : {"raw"}]
    /\ blocks = [s \in Shard |-> <<>>]
    /\ epoch = 0
    /\ clock = 0
    /\ moved = 0
    /\ trail = [a \in Account |-> <<>>]
    /\ net = {}
    /\ main = "loop"
    /\ msgList = {}
    /\ handled = {}
    /\ measureMsgBuf = <<>>
    /\ sub = "run"
    /\ txLifecycles = [t \in Tx |-> NoLife]
    /\ detail = [t \in Tx |-> <<>>]
    /\ txNum = Zero
    /\ brief = Zero

-----------------------------------------------------------------------------
(***************************************************************************)
(* The shards                                                              *)
(***************************************************************************)

KeyAcc(c) == IF c.stage \in {"relay2", "broker2"} THEN Recipient[c.tx] ELSE Sender[c.tx]

\* Mutant of Packed: no stage is written into the transaction.
PackedUnmarked(s, c) == c

\* The form in which shard s packs a transaction: a transfer whose recipient
\* is elsewhere becomes the first half of a relay or of a broker transfer.
Packed(s, c) ==
    [c EXCEPT !.stage =
        CASE @ # "raw"                                -> @
          [] @ = "raw" /\ home[Recipient[c.tx]] = s   -> "inner"
          [] OTHER -> IF kind = "relay" \/ c.tx \in Fallback THEN "relay1" ELSE "broker1"]

\* Who is debited and credited by a packed transaction, apart from brokers.
Debited(c)  == IF c.stage \in {"inner", "relay1", "broker1"} THEN {Sender[c.tx]} ELSE {}
Credited(c) == IF c.stage \in {"inner", "relay2", "broker2"} THEN {Recipient[c.tx]} ELSE {}

\* An account begins with the initial balance.
LastBalance(moves) == IF moves = <<>> THEN InitBalance ELSE moves[Len(moves)].balance

\* One more transfer for each of the given accounts.
Moved(moves, accounts, t, amount) ==
    [a \in Account |->
        IF a \in accounts
        THEN Append(moves[a], [tx |-> t, balance |-> LastBalance(moves[a]) + amount])
        ELSE moves[a]]

\* Executing a transaction: the debit comes before the credit.
Execute(old, c) ==
    Moved(Moved(old, Debited(c), c.tx, 0 - Value[c.tx]), Credited(c), c.tx, Value[c.tx])

\* The time of the newest block of s, its migration block included.
LastTime(s) ==
    Max({moved} \cup {blocks[s][h].time : h \in DOMAIN blocks[s]})

\* A shard commits a block: some of its transactions in some order.  It is
\* stamped when it is proposed, so maybe earlier than blocks of other shards
\* that were committed before.  The second half of a relay is on its way at
\* once.
CommitBlock(s) ==
    /\ \E n \in 1 .. BlockSizeLimit :
       \E txs \in [1 .. n -> {Packed(s, c) : c \in {x \in ready : home[KeyAcc(x)] = s}}] :
       \E time \in (LastTime(s) + 1) .. (clock + 1) :
         LET mine   == {txs[i].tx : i \in 1 .. n}
             relay2 == {[tx |-> txs[i].tx, stage |-> "relay2"] :
                           i \in {j \in 1 .. n : txs[j].stage = "relay1"}}
         IN  /\ Cardinality(mine) = n
             /\ blocks' = [blocks EXCEPT ![s] = Append(@, [epoch |-> epoch, time |-> time, txs |-> txs])]
             /\ clock' = Max({clock, time})
             /\ ready' = {c \in ready : c.tx \notin mine} \cup relay2
             /\ trail' = FoldLeft(Execute, trail, txs)
    /\ net' = net \cup {<<s, Len(blocks[s]) + 1>>}
    /\ UNCHANGED <<kind, home, epoch, moved, main, msgList, handled, measureMsgBuf, sub, statVars,
                   brief>>

\* A repartition moves some accounts.  The states of all shards have to
\* arrive before a migration block, so later blocks are stamped later than
\* all earlier ones.
Repartition ==
    /\ epoch < MaxEpoch
    /\ epoch' = epoch + 1
    /\ home' \in [Account -> Shard] \ {home}
    /\ moved' = clock
    /\ UNCHANGED <<kind, ready, blocks, clock, trail, net, main, msgList, handled, measureMsgBuf,
                   sub, statVars, brief>>

-----------------------------------------------------------------------------
(***************************************************************************)
(* The two goroutines of the supervisor                                    *)
(***************************************************************************)

BlockOf(m) == blocks[m[1]][m[2]]

\* A tick takes what has arrived.  (A message counts as on its way until it
\* is handled.)
DrainMsgBuffer ==
    /\ main = "loop"
    /\ msgList = {}
    /\ net # {}
    /\ msgList' = net
    /\ UNCHANGED <<kind, shardVars, net, main, handled, measureMsgBuf, sub, statVars, brief>>

\* A message of the tick: first to the measure goroutine, for which the main
\* goroutine waits while the channel is full, then to the committee, which
\* sends the second half of a broker transfer when it knows of the first.
HandleMsg(m) ==
    /\ main = "loop"
    /\ m \in msgList
    /\ msgList' = msgList \ {m}
    /\ Len(measureMsgBuf) < WmBufferSize
    /\ net' = net \ {m}
    /\ measureMsgBuf' = Append(measureMsgBuf, m)
    /\ handled' = handled \cup {m}
    /\ ready' = ready \cup
          {[tx |-> c.tx, stage |-> "broker2"] : c \in {x \in Range(BlockOf(m).txs) : x.stage = "broker1"}}
    /\ UNCHANGED <<kind, home, blocks, epoch, clock, moved, trail, main, sub, statVars, brief>>

\* ShouldStop, which is asked between two ticks: when the committee says so is
\* a matter of RelayShards and BrokerShards.  The channel is closed.
CloseMeasureMsgBuf ==
    /\ main = "loop"
    /\ msgList = {}
    /\ main' = "wait"
    /\ UNCHANGED <<kind, shardVars, net, msgList, handled, measureMsgBuf, sub, statVars, brief>>

\* Which stages each of the two measures pairs, and which it records alone.
Pairs   == IF kind = "relay" THEN {"relay1", "relay2"} ELSE {"broker1", "broker2"}
Singles == IF kind = "relay" THEN {"inner"} ELSE {"inner", "relay2"}

\* The entry of a transfer with the times of one more half.
Filled(c, m) ==
    IF c.stage \in {"relay1", "broker1"} THEN [txLifecycles[c.tx] EXCEPT !.first = m]
                                         ELSE [txLifecycles[c.tx] EXCEPT !.second = m]

\* Mutant of PairCompleted: a second half is always the last.
PairCompletedBySecond(c) == c.stage \in {"relay2", "broker2"}

\* The other half has been recorded before.
PairCompleted(c) == txLifecycles[c.tx] # NoLife

Counted(txs, st) == Cardinality({c \in txs : c.stage = st /\ st \in Pairs \cup Singles})

\* UpdateMeasureRecord of RelayStats or BrokerStats.
UpdateMeasureRecord ==
    /\ sub = "run"
    /\ measureMsgBuf # <<>>
    /\ LET m    == Head(measureMsgBuf)
           txs  == Range(BlockOf(m).txs)
           done == {c \in txs : c.stage \in Pairs /\ PairCompleted(c)}
           open == {c \in txs : c.stage \in Pairs /\ ~PairCompleted(c)}
           Of(cs, t) == {c \in cs : c.tx = t}
       IN  /\ txNum' = [txNum EXCEPT ![BlockOf(m).epoch] =
                           [st \in Stage |-> @[st] + Counted(txs, st)]]
           /\ txLifecycles' = [t \in Tx |->
                IF Of(done, t) # {} THEN NoLife
                ELSE IF Of(open, t) # {} THEN Filled(CHOOSE c \in Of(open, t) : TRUE, m)
                ELSE txLifecycles[t]]
           /\ detail' = [t \in Tx |-> detail[t] \o
                SetToSeq({Filled(c, m) : c \in Of(done, t)} \cup
                         {[NoLife EXCEPT !.second = m] :
                             c \in {x \in Of(txs, t) : x.stage \in Singles}})]
    /\ measureMsgBuf' = Tail(measureMsgBuf)
    /\ UNCHANGED <<kind, shardVars, net, main, msgList, handled, sub, brief>>

\* Mutant of ChannelClosed: the channel is never closed.
ChannelClosedNever == FALSE

\* Mutant of ChannelClosed: the measure goroutine ends when it finds nothing.
ChannelClosedEarly == TRUE

ChannelClosed == main = "wait"

\* The loop over the channel ends when it is closed and empty.
MeasureDone ==
    /\ sub = "run"
    /\ ChannelClosed
    /\ measureMsgBuf = <<>>
    /\ sub' = "done"
    /\ UNCHANGED <<kind, shardVars, net, main, msgList, handled, measureMsgBuf, statVars, brief>>

\* Mutant of DoneReceived: the main goroutine does not wait.
DoneReceivedNever == TRUE

DoneReceived == sub = "done"

\* OutputResultAndClose, then the broadcast that stops the nodes.
OutputResultAndClose ==
    /\ main = "wait"
    /\ DoneReceived
    /\ brief' = txNum
    /\ main' = "stopped"
    /\ UNCHANGED <<kind, shardVars, net, msgList, handled, measureMsgBuf, sub, statVars>>

Environment == Repartition \/ \E s \in Shard : CommitBlock(s)

Main ==
    \/ DrainMsgBuffer
    \/ \E m \in net : HandleMsg(m)
    \/ CloseMeasureMsgBuf
    \/ OutputResultAndClose

Sub == UpdateMeasureRecord \/ MeasureDone

Next == Environment \/ Main \/ Sub

Spec == Init /\ [][Next]_vars

\* The two goroutines are scheduled.  That the experiment stops is assumed
\* (when it may is the business of RelayShards and BrokerShards), but the main
\* goroutine gets to it only if the channel takes the messages of the tick.
Fairness ==
    /\ WF_vars(\E m \in net : HandleMsg(m))
    /\ WF_vars(CloseMeasureMsgBuf)
    /\ WF_vars(OutputResultAndClose)
    /\ WF_vars(Sub)

FairSpec == Spec /\ Fairness

-----------------------------------------------------------------------------
(***************************************************************************)
(* Properties                                                              *)
(***************************************************************************)

\* The block infos the measure goroutine has taken from the channel.
Measured == handled \ Range(measureMsgBuf)

\* Where the measure has seen transfer t in one of the given stages.
SeenIn(t, stages) ==
    {m \in Measured : \E c \in Range(BlockOf(m).txs) : c.tx = t /\ c.stage \in stages}

\* The infos of the two halves of a transfer may come in either order, from
\* different shards and epochs: the transfer has a line exactly when both
\* have been seen, one line, with the times of the right blocks, and only a
\* transfer of which one half is missing occupies memory.
RecordedOnce ==
    \A t \in Tx :
        LET first  == SeenIn(t, Pairs \ {"relay2", "broker2"})
            second == SeenIn(t, Pairs \ {"relay1", "broker1"})
            alone  == SeenIn(t, Singles)
            The(ms) == IF ms = {} THEN NoInfo ELSE CHOOSE m \in ms : TRUE
            life   == [first |-> The(first), second |-> The(second)]
        IN  CASE alone # {} -> /\ detail[t] = <<[NoLife EXCEPT !.second = The(alone)]>>
                               /\ txLifecycles[t] = NoLife
              [] alone = {} /\ first # {} /\ second # {} ->
                               detail[t] = <<life>> /\ txLifecycles[t] = NoLife
              [] OTHER -> detail[t] = <<>> /\ txLifecycles[t] = life

\* The result that is written covers every block info that the main goroutine
\* has handed over, to the last message in the channel, and counts every
\* committed transfer of a complete report once.
OutputComplete ==
    main = "stopped" =>
        \A e \in Epoch : \A st \in Pairs \cup Singles :
            brief[e][st] = Cardinality(
                {p \in handled \X Tx :
                    /\ BlockOf(p[1]).epoch = e
                    /\ [tx |-> p[2], stage |-> st] \in Range(BlockOf(p[1]).txs)})

\* The supervisor always gets to its stop broadcast: the goroutines do not
\* wait for each other for ever, the one in a send to the full channel, the
\* other for a message, or both for the end.
SupervisorEnds == <>(main = "stopped")
=============================================================================

---------------------------- MODULE SupervisorProofs ----------------------------
(***************************************************************************)
(* Proofs about a chain run and what is written of it, for any shards,     *)
(* accounts, transfers and repartitions and any order of reports: that the *)
(* supervisor reports every transfer once and writes a complete result     *)
(* (Measure); that the ledgers built from the blocks say what the shards   *)
(* have executed (AgentLedger); and that the process group kills nothing   *)
(* before the supervisor has ended (ProcessGroup), for any set of nodes.   *)
(***************************************************************************)
EXTENDS AgentLedger, ProcessGroup, TransferSums, FiniteSetTheorems, TLAPS

-----------------------------------------------------------------------------
(***************************************************************************)
(* The block infos of an experiment                                        *)
(***************************************************************************)

\* The block infos that a committed block can have.
Committed == UNION {{s} \X DOMAIN blocks[s] : s \in Shard}

\* The forms in which a transfer waits, and the blocks it is in, with the
\* form it has there.
Waits(t) == {st \in Stage \cup {"raw"} : [tx |-> t, stage |-> st] \in ready}
Held(t)  == {p \in Committed \X Stage : [tx |-> t, stage |-> p[2]] \in Range(BlockOf(p[1]).txs)}

\* TypeOK but for the trails, which only the ledgers are compared with.
Shape ==
    /\ kind \in {"relay", "broker"}
    /\ home \in [Account -> Shard]
    /\ ready \subseteq Copy
    /\ blocks \in [Shard -> Seq(Block)]
    /\ epoch \in Epoch
    /\ \A s \in Shard : \A h \in DOMAIN blocks[s] : blocks[s][h].epoch \in Epoch
    /\ clock \in Nat /\ moved \in Nat
    /\ net \subseteq Info /\ handled \subseteq Info /\ IsFiniteSet(handled)
    /\ msgList \subseteq net
    /\ main \in {"loop", "wait", "stopped"}
    /\ measureMsgBuf \in Seq(Info) /\ Len(measureMsgBuf) <= WmBufferSize
    /\ sub \in {"run", "done"}
    /\ txLifecycles \in [Tx -> LifeCycle]
    /\ detail \in [Tx -> Seq(LifeCycle)]
    /\ txNum \in [Epoch -> [Stage -> Nat]]
    /\ brief \in [Epoch -> [Stage -> Nat]]

\* The info of a block is on its way, or handed over, or measured, and only
\* once; the measure goroutine ends after the channel is closed and empty,
\* and the result is written after that.
ChannelInv ==
    /\ net \subseteq Committed /\ handled \subseteq Committed /\ net \cap handled = {}
    /\ Range(measureMsgBuf) \subseteq handled
    /\ \A i, j \in DOMAIN measureMsgBuf : measureMsgBuf[i] = measureMsgBuf[j] => i = j
    /\ sub = "done" => main # "loop" /\ measureMsgBuf = <<>>
    /\ main = "stopped" => sub = "done" /\ brief = txNum

\* Which forms of a transfer wait fits to the blocks it is in.
Flow(t, W, H) ==
    \/ W = {"raw"} /\ H = {}
    \/ W = {} /\ \E m \in Committed : H = {<<m, "inner">>}
    \/ W = {"relay2"} /\ \E m \in Committed : H = {<<m, "relay1">>}
    \/ W = {} /\ \E m, o \in Committed : m # o /\ H = {<<m, "relay1">>, <<o, "relay2">>}
    \/ kind = "broker" /\ \E m \in Committed :
          H = {<<m, "broker1">>} /\ W = IF m \in handled THEN {"broker2"} ELSE {}
    \/ kind = "broker" /\ W = {} /\ \E m, o \in Committed :
          m # o /\ m \in handled /\ H = {<<m, "broker1">>, <<o, "broker2">>}

FlowInv == \A t \in Tx : Flow(t, Waits(t), Held(t))

\* What the measure has counted.
CountedIn(ms, e, st) ==
    {p \in ms \X Tx : /\ BlockOf(p[1]).epoch = e
                      /\ [tx |-> p[2], stage |-> st] \in Range(BlockOf(p[1]).txs)}

CountInv ==
    \A e \in Epoch : \A st \in Pairs \cup Singles :
        txNum[e][st] = Cardinality(CountedIn(Measured, e, st))

ReportInv == Shape /\ ChannelInv /\ FlowInv /\ CountInv /\ RecordedOnce
-----------------------------------------------------------------------------
\* The info of a committed block names a shard, and a block of it.
LEMMA CommittedFields ==
  ASSUME Shape, NEW m \in Committed
  PROVE  /\ m = <<m[1], m[2]>> /\ m # NoInfo /\ m \in Info
         /\ m[1] \in Shard /\ m[2] \in DOMAIN blocks[m[1]]
         /\ BlockOf(m) \in Block /\ BlockOf(m).epoch \in Epoch
         /\ Range(BlockOf(m).txs) \subseteq [tx : Tx, stage : Stage]
         /\ IsFiniteSet(Range(BlockOf(m).txs))
<1>1. m \in Info /\ m = <<m[1], m[2]>> /\ m[1] \in Shard /\ m[2] \in DOMAIN blocks[m[1]]
  <2>1. m = <<m[1], m[2]>> /\ m[1] \in Shard /\ m[2] \in DOMAIN blocks[m[1]]
    BY DEF Committed
  <2>2. m[2] \in Nat \ {0}
    BY <2>1 DEF Shape
  <2> QED
    BY <2>1, <2>2 DEF Info
<1>2. m # NoInfo
  BY <1>1 DEF NoInfo, Info
<1>3. BlockOf(m) \in Block /\ BlockOf(m).epoch \in Epoch
  BY <1>1 DEF BlockOf, Shape
<1>4. BlockOf(m).txs \in Seq([tx : Tx, stage : Stage])
  BY <1>3 DEF Block
<1>5. Range(BlockOf(m).txs) \subseteq [tx : Tx, stage : Stage]
  <2> DEFINE f == BlockOf(m).txs
             H == [tx : Tx, stage : Stage]
  <2>1. \A i \in DOMAIN f : f[i] \in H
    <3>1. f \in Seq(H)
      BY <1>4
    <3> HIDE DEF f, H
    <3> QED
      BY <3>1
  <2> QED
    BY <2>1, Zenon DEF Range
<1>6. IsFiniteSet(Range(BlockOf(m).txs))
  <2> DEFINE f == BlockOf(m).txs
  <2>1. DOMAIN f = 1 .. Len(f) /\ Len(f) \in Nat
    BY <1>4
  <2>2. IsFiniteSet(DOMAIN f)
    BY <2>1, FS_Interval
  <2>3. f \in Surjection(DOMAIN f, Range(f))
    BY <1>4 DEF Surjection, Range
  <2> QED
    BY <2>2, <2>3, FS_Surjection
<1> QED
  BY <1>1, <1>2, <1>3, <1>5, <1>6

\* Where the measure has seen a transfer, by the blocks that hold it.
LEMMA SeenIsHeld ==
  ASSUME Shape, ChannelInv, NEW t \in Tx, NEW stages
  PROVE  SeenIn(t, stages) = {m \in Measured : \E st \in stages : <<m, st>> \in Held(t)}
<1>1. Measured \subseteq Committed
  BY DEF Measured, ChannelInv
<1>2. ASSUME NEW m \in Committed
      PROVE  (\E c \in Range(BlockOf(m).txs) : c.tx = t /\ c.stage \in stages)
                <=> \E st \in stages : <<m, st>> \in Held(t)
  <2>1. ASSUME NEW c \in Range(BlockOf(m).txs), c.tx = t, c.stage \in stages
        PROVE  <<m, c.stage>> \in Held(t)
    <3>1. c = [tx |-> t, stage |-> c.stage] /\ c.stage \in Stage
      BY <2>1, CommittedFields
    <3> QED
      BY <2>1, <3>1 DEF Held
  <2>2. ASSUME NEW st \in stages, <<m, st>> \in Held(t)
        PROVE  [tx |-> t, stage |-> st] \in Range(BlockOf(m).txs)
    BY <2>2 DEF Held
  <2> QED
    BY <2>1, <2>2
<1> QED
  BY <1>1, <1>2 DEF SeenIn

\* Nothing has been committed, reported or recorded at the start.
LEMMA ReportInit == Init => ReportInv
<1> SUFFICES ASSUME Init PROVE ReportInv
  OBVIOUS
<1>1. Shape
  BY MeasureAssumption, FS_EmptySet DEF Init, Shape, Copy, Epoch, Zero, NoLife, LifeCycle, NoInfo
<1>2. ChannelInv
  BY DEF Init, ChannelInv, Range
<1>3. Committed = {}
  BY DEF Init, Committed
<1>4. FlowInv
  BY <1>3 DEF Init, FlowInv, Flow, Waits, Held, Stage
<1>5. Measured = {}
  BY DEF Init, Measured
<1>6. CountInv
  <2>1. \A e, st : CountedIn({}, e, st) = {}
    BY DEF CountedIn
  <2>2. Cardinality({}) = 0
    BY FS_EmptySet
  <2>3. \A e \in Epoch : \A st \in Pairs \cup Singles : txNum[e][st] = 0
    BY DEF Init, Zero, Pairs, Singles, Stage
  <2> QED
    BY <1>5, <2>1, <2>2, <2>3 DEF CountInv
<1>7. RecordedOnce
  <2>1. \A t, stages : SeenIn(t, stages) = {}
    BY <1>5 DEF SeenIn
  <2> QED
    BY <2>1 DEF Init, RecordedOnce, NoLife
<1> QED
  BY <1>1, <1>2, <1>4, <1>6, <1>7 DEF ReportInv

\* The times of the blocks of a shard have a latest, which is no
\* earlier than the last repartition.
LEMMA LastTimeIs ==
  ASSUME Shape, NEW s \in Shard
  PROVE  /\ LastTime(s) \in Nat /\ moved <= LastTime(s)
         /\ \A h \in DOMAIN blocks[s] : blocks[s][h].time \in Nat /\ blocks[s][h].time <= LastTime(s)
<1> DEFINE Times == {blocks[s][h].time : h \in DOMAIN blocks[s]}
<1>1. DOMAIN blocks[s] = 1 .. Len(blocks[s]) /\ Len(blocks[s]) \in Nat
  BY DEF Shape
<1>2. \A h \in DOMAIN blocks[s] : blocks[s][h].time \in Nat
  <2>1. \A h \in DOMAIN blocks[s] : blocks[s][h] \in Block
    BY DEF Shape
  <2> QED
    BY <2>1 DEF Block
<1>3. IsFiniteSet(Times)
  <2>1. IsFiniteSet(DOMAIN blocks[s])
    <3>1. \A k \in Nat : IsFiniteSet(1 .. k)
      BY FS_Interval
    <3> QED
      BY <1>1, <3>1
  <2>2. [h \in DOMAIN blocks[s] |-> blocks[s][h].time] \in Surjection(DOMAIN blocks[s], Times)
    BY DEF Surjection
  <2> QED
    BY <2>1, <2>2, FS_Surjection
<1>4. {moved} \cup Times \in SUBSET Nat /\ IsFiniteSet({moved} \cup Times)
  <2>1. IsFiniteSet(Times \cup {moved})
    BY <1>3, FS_AddElement
  <2>2. moved \in Nat /\ {moved} \cup Times = Times \cup {moved}
    BY DEF Shape
  <2> QED
    BY <1>2, <2>1, <2>2
<1> DEFINE S == {moved} \cup Times
<1>5. \E x \in S : \A y \in S : y <= x
  <2>1. S # {}
    OBVIOUS
  <2> QED
    BY <1>4, <2>1, GreatestElement
<1>6. \E x \in S : \A y \in S : x >= y
  BY <1>4, <1>5
<1>7. LastTime(s) = Max(S)
  BY DEF LastTime
<1> HIDE DEF S
<1>8. Max(S) \in S /\ \A y \in S : Max(S) >= y
  BY <1>6 DEF Max
<1>9. \A y \in S : y \in Nat /\ y <= LastTime(s)
  BY <1>4, <1>7, <1>8 DEF S
<1> QED
  BY <1>2, <1>4, <1>7, <1>8, <1>9 DEF S

\* What can become of a transaction when it is packed.
LEMMA PackedForm ==
  ASSUME Shape, NEW s, NEW c \in ready
  PROVE  /\ Packed(s, c) \in [tx : Tx, stage : Stage]
         /\ Packed(s, c).tx = c.tx
         /\ c.stage # "raw" => Packed(s, c) = c
         /\ c.stage = "raw" => \/ Packed(s, c).stage \in {"inner", "relay1"}
                               \/ Packed(s, c).stage = "broker1" /\ kind = "broker"
<1>1. c \in Copy /\ kind \in {"relay", "broker"}
  BY DEF Shape
<1>2. c = [tx |-> c.tx, stage |-> c.stage] /\ c.tx \in Tx /\ c.stage \in Stage \cup {"raw"}
  BY <1>1 DEF Copy
<1>3. CASE c.stage # "raw"
  BY <1>2, <1>3 DEF Packed
<1>4. CASE c.stage = "raw"
  <2>1. \E st \in {"inner", "relay1", "broker1"} :
          Packed(s, c) = [tx |-> c.tx, stage |-> st] /\ (st = "broker1" => kind = "broker")
    BY <1>1, <1>2, <1>4 DEF Packed
  <2> QED
    BY <1>2, <1>4, <2>1 DEF Stage
<1> QED
  BY <1>3, <1>4

\* A shard's block has one form of each transfer in it, and changes nothing of
\* the others.
LEMMA CommitEffect ==
  ASSUME Shape, NEW s \in Shard, CommitBlock(s)
  PROVE  \E b \in Block :
           LET new == <<s, Len(blocks[s]) + 1>> IN
           /\ b.epoch = epoch
           /\ blocks' = [blocks EXCEPT ![s] = Append(@, b)]
           /\ clock' \in Nat
           /\ ready' \subseteq Copy
           /\ net' = net \cup {new}
           /\ Range(b.txs) \subseteq [tx : Tx, stage : Stage]
           /\ \A t \in Tx :
                \/ /\ \A st \in Stage : [tx |-> t, stage |-> st] \notin Range(b.txs)
                   /\ Waits(t)' = Waits(t)
                \/ \E st \in Stage :
                     /\ \A x \in Stage : [tx |-> t, stage |-> x] \in Range(b.txs) <=> x = st
                     /\ Waits(t)' = IF st = "relay1" THEN {"relay2"} ELSE {}
                     /\ \/ st \in Waits(t) \ {"raw"}
                        \/ "raw" \in Waits(t) /\ st \in {"inner", "relay1"}
                        \/ "raw" \in Waits(t) /\ st = "broker1" /\ kind = "broker"
<1> DEFINE Here == {Packed(s, c) : c \in {x \in ready : home[KeyAcc(x)] = s}}
<1> DEFINE Block1(n, txs, time) ==
             LET mine   == {txs[i].tx : i \in 1 .. n}
                 relay2 == {[tx |-> txs[i].tx, stage |-> "relay2"] :
                               i \in {j \in 1 .. n : txs[j].stage = "relay1"}}
             IN  /\ Cardinality(mine) = n
                 /\ blocks' = [blocks EXCEPT ![s] =
                        Append(@, [epoch |-> epoch, time |-> time, txs |-> txs])]
                 /\ clock' = Max({clock, time})
                 /\ ready' = {c \in ready : c.tx \notin mine} \cup relay2
<1>a. \E n \in 1 .. BlockSizeLimit : \E txs \in [1 .. n -> Here] :
        \E time \in (LastTime(s) + 1) .. (clock + 1) : Block1(n, txs, time)
  BY DEF CommitBlock
<1>b. PICK n \in 1 .. BlockSizeLimit : \E txs \in [1 .. n -> Here] :
        \E time \in (LastTime(s) + 1) .. (clock + 1) : Block1(n, txs, time)
  BY <1>a
<1>c. PICK txs \in [1 .. n -> Here] : \E time \in (LastTime(s) + 1) .. (clock + 1) : Block1(n, txs, time)
  BY <1>b
<1>1. PICK time \in (LastTime(s) + 1) .. (clock + 1) : Block1(n, txs, time)
  BY <1>c
<1> DEFINE H == [tx : Tx, stage : Stage]
           mine == {txs[i].tx : i \in 1 .. n}
           relay2 == {[tx |-> txs[i].tx, stage |-> "relay2"] :
                           i \in {j \in 1 .. n : txs[j].stage = "relay1"}}
           b == [epoch |-> epoch, time |-> time, txs |-> txs]
<1>2. n \in Nat /\ n > 0
  BY MeasureAssumption
<1>3. \A i \in 1 .. n : \E c \in ready : txs[i] = Packed(s, c)
  OBVIOUS
<1>4. \A i \in 1 .. n : txs[i] \in H
  BY <1>3, PackedForm
<1>5. time \in Nat
  <2>1. LastTime(s) \in Nat /\ clock \in Nat
    BY LastTimeIs DEF Shape
  <2> HIDE DEF Here, H, mine, relay2, b
  <2> QED
    BY <2>1
<1>6. txs \in Seq(H) /\ Range(txs) \subseteq H
  <2> HIDE DEF Here, H
  <2>1. txs \in [1 .. n -> H]
    BY <1>4
  <2>2. txs \in Seq(H)
    BY <1>2, <2>1
  <2> QED
    BY <2>1, <2>2 DEF Range
<1>7. b \in Block
  BY <1>5, <1>6 DEF Block, Shape, Epoch
<1>8. clock' \in Nat
  <2>1. clock \in Nat
    BY DEF Shape
  <2>2. clock' = Max({clock, time})
    BY <1>1
  <2>3. \E x \in {clock, time} : \A y \in {clock, time} : x >= y
    BY <1>5, <2>1
  <2>4. Max({clock, time}) \in {clock, time}
    BY <2>3 DEF Max
  <2> QED
    BY <1>5, <2>1, <2>2, <2>4
<1>9. ASSUME NEW i \in 1 .. n, NEW j \in 1 .. n, txs[i].tx = txs[j].tx
      PROVE  i = j
  <2> DEFINE f == [k \in 1 .. n |-> txs[k].tx]
  <2>1. f \in Surjection(1 .. n, mine)
    BY DEF Surjection
  <2>2. IsFiniteSet(1 .. n) /\ Cardinality(1 .. n) = n
    BY <1>2, FS_Interval
  <2>3. Cardinality(mine) = n
    BY <1>1
  <2>4. f \in Injection(1 .. n, mine)
    <3> HIDE DEF f, mine
    <3> QED
      BY <2>1, <2>2, <2>3, FS_Surjection
  <2>5. f[i] = f[j]
    BY <1>9
  <2> QED
    BY <2>4, <2>5 DEF Injection, IsInjective
<1>10. ready' = {c \in ready : c.tx \notin mine} \cup relay2
  BY <1>1
<1>11. relay2 \subseteq Copy
  <2>1. \A i \in 1 .. n : txs[i].tx \in Tx
    BY <1>4
  <2> HIDE DEF Here, H
  <2> QED
    BY <2>1 DEF Copy, Stage
<1>12. ready' \subseteq Copy
  BY <1>10, <1>11 DEF Shape
<1>13. ASSUME NEW t \in Tx, t \notin mine
       PROVE  /\ \A st \in Stage : [tx |-> t, stage |-> st] \notin Range(txs)
              /\ Waits(t)' = Waits(t)
  <2>1. \A i \in 1 .. n : txs[i].tx # t
    BY <1>13
  <2>2. DOMAIN txs = 1 .. n
    OBVIOUS
  <2>3. \A st \in Stage : [tx |-> t, stage |-> st] \notin Range(txs)
    BY <2>1, <2>2 DEF Range
  <2>4. \A c \in relay2 : c.tx # t
    BY <2>1
  <2>5. \A st : [tx |-> t, stage |-> st] \in ready' <=> [tx |-> t, stage |-> st] \in ready
    <3> HIDE DEF relay2, mine, Here, H
    <3> QED
      BY <1>10, <1>13, <2>4
  <2> QED
    BY <2>3, <2>5 DEF Waits
<1>14. ASSUME NEW t \in Tx, t \in mine
       PROVE  \E st \in Stage :
                     /\ \A x \in Stage : [tx |-> t, stage |-> x] \in Range(txs) <=> x = st
                     /\ Waits(t)' = IF st = "relay1" THEN {"relay2"} ELSE {}
                     /\ \/ st \in Waits(t) \ {"raw"}
                        \/ "raw" \in Waits(t) /\ st \in {"inner", "relay1"}
                        \/ "raw" \in Waits(t) /\ st = "broker1" /\ kind = "broker"
  <2>1. PICK i \in 1 .. n : txs[i].tx = t
    BY <1>14
  <2>2. PICK c \in ready : txs[i] = Packed(s, c)
    BY <1>3
  <2> DEFINE st == txs[i].stage
  <2>3. txs[i] = [tx |-> t, stage |-> st] /\ st \in Stage
    BY <1>4, <2>1
  <2>4. ASSUME NEW x \in Stage
        PROVE  [tx |-> t, stage |-> x] \in Range(txs) <=> x = st
    <3>1. DOMAIN txs = 1 .. n
      OBVIOUS
    <3>2. ASSUME NEW j \in 1 .. n, [tx |-> t, stage |-> x] = txs[j]
          PROVE  x = st
      <4>1. txs[j].tx = t /\ txs[j].stage = x
        BY <3>2
      <4>2. j = i
        BY <1>9, <2>1, <4>1
      <4> QED
        BY <4>1, <4>2
    <3>3. x = st => txs[i] = [tx |-> t, stage |-> x]
      BY <2>3
    <3> HIDE DEF st, mine, relay2, Here, H, b
    <3> QED
      BY <3>1, <3>2, <3>3 DEF Range
  <2>5. Waits(t)' = IF st = "relay1" THEN {"relay2"} ELSE {}
    <3>1. ASSUME NEW x
          PROVE  [tx |-> t, stage |-> x] \in ready' <=> x = "relay2" /\ st = "relay1"
      <4>1. [tx |-> t, stage |-> x] \in ready' <=> [tx |-> t, stage |-> x] \in relay2
        <5>1. [tx |-> t, stage |-> x].tx = t
          OBVIOUS
        <5> HIDE DEF relay2, mine, Here, H
        <5> QED
          BY <1>10, <1>14, <5>1
      <4>2. ASSUME [tx |-> t, stage |-> x] \in relay2
            PROVE  x = "relay2" /\ st = "relay1"
        <5>1. PICK j \in 1 .. n : txs[j].stage = "relay1"
                                  /\ [tx |-> t, stage |-> x] = [tx |-> txs[j].tx, stage |-> "relay2"]
          BY <4>2
        <5>2. txs[j].tx = t /\ x = "relay2"
          BY <5>1
        <5>3. j = i
          BY <1>9, <2>1, <5>2
        <5> QED
          BY <5>1, <5>2, <5>3
      <4>3. ASSUME x = "relay2", st = "relay1"
            PROVE  [tx |-> t, stage |-> x] \in relay2
        BY <2>1, <4>3
      <4> QED
        BY <4>1, <4>2, <4>3
    <3>2. Waits(t)' = {x \in Stage \cup {"raw"} : [tx |-> t, stage |-> x] \in ready'}
      BY DEF Waits
    <3> HIDE DEF st
    <3> QED
      BY <3>1, <3>2 DEF Stage
  <2>6. /\ \/ st \in Waits(t) \ {"raw"}
           \/ "raw" \in Waits(t) /\ st \in {"inner", "relay1"}
           \/ "raw" \in Waits(t) /\ st = "broker1" /\ kind = "broker"
    <3>1. c.tx = t
      BY <2>1, <2>2, PackedForm
    <3>2. c = [tx |-> t, stage |-> c.stage] /\ c.stage \in Stage \cup {"raw"}
      BY <3>1 DEF Shape, Copy
    <3>3. c.stage \in Waits(t)
      BY <3>2 DEF Waits
    <3> HIDE DEF mine, relay2, Here, H, b
    <3> QED
      BY <2>2, <2>3, <3>3, PackedForm
  <2> HIDE DEF st
  <2> QED
    BY <2>3, <2>4, <2>5, <2>6
<1>15. b.epoch = epoch /\ b.txs = txs /\ blocks' = [blocks EXCEPT ![s] = Append(@, b)]
       /\ net' = net \cup {<<s, Len(blocks[s]) + 1>>}
  BY <1>1 DEF CommitBlock
<1> HIDE DEF b, H, mine, relay2, Here, Block1
<1> WITNESS b \in Block
<1> QED
  BY <1>6, <1>8, <1>12, <1>13, <1>14, <1>15 DEF H

\* Steps that leave chains and transfers alone, and hand nothing over.
LEMMA FlowSame ==
  ASSUME FlowInv, UNCHANGED <<kind, ready, blocks, handled>>
  PROVE  FlowInv'
<1>1. Committed' = Committed
  BY DEF Committed
<1>2. \A m : BlockOf(m)' = BlockOf(m)
  BY DEF BlockOf
<1>3. \A t : Held(t)' = Held(t) /\ Waits(t)' = Waits(t)
  BY <1>1, <1>2 DEF Held, Waits
<1> QED
  BY <1>1, <1>3 DEF FlowInv, Flow

\* What is recorded stays right as long as the measured blocks stay.
LEMMA RecordsSame ==
  ASSUME CountInv, RecordedOnce, UNCHANGED <<kind, txNum, detail, txLifecycles>>,
         Measured' = Measured, \A m \in Measured : BlockOf(m)' = BlockOf(m)
  PROVE  CountInv' /\ RecordedOnce'
<1>1. \A e, st : CountedIn(Measured, e, st)' = CountedIn(Measured, e, st)
  BY DEF CountedIn
<1>2. \A t, stages : SeenIn(t, stages)' = SeenIn(t, stages)
  BY DEF SeenIn
<1>3. Pairs' = Pairs /\ Singles' = Singles
  BY DEF Pairs, Singles
<1>4. CountInv'
  BY <1>1, <1>3 DEF CountInv
<1>5. RecordedOnce'
  BY <1>2, <1>3 DEF RecordedOnce
<1> QED
  BY <1>4, <1>5

\* A block that is committed, with its info on its way, changes nothing that has
\* been measured.
LEMMA CommitKeeps ==
  ASSUME ReportInv, NEW s \in Shard, CommitBlock(s)
  PROVE  ReportInv'
<1> USE DEF ReportInv
<1> PICK new : new = <<s, Len(blocks[s]) + 1>>
  OBVIOUS
<1>1. PICK b \in Block :
           /\ b.epoch = epoch
           /\ blocks' = [blocks EXCEPT ![s] = Append(@, b)]
           /\ clock' \in Nat
           /\ ready' \subseteq Copy
           /\ net' = net \cup {new}
           /\ Range(b.txs) \subseteq [tx : Tx, stage : Stage]
           /\ \A t \in Tx :
                \/ /\ \A st \in Stage : [tx |-> t, stage |-> st] \notin Range(b.txs)
                   /\ Waits(t)' = Waits(t)
                \/ \E st \in Stage :
                     /\ \A x \in Stage : [tx |-> t, stage |-> x] \in Range(b.txs) <=> x = st
                     /\ Waits(t)' = IF st = "relay1" THEN {"relay2"} ELSE {}
                     /\ \/ st \in Waits(t) \ {"raw"}
                        \/ "raw" \in Waits(t) /\ st \in {"inner", "relay1"}
                        \/ "raw" \in Waits(t) /\ st = "broker1" /\ kind = "broker"
  BY CommitEffect, Zenon
<1>2. UNCHANGED <<kind, home, epoch, moved, main, msgList, handled, measureMsgBuf, sub, statVars,
                 brief>>
  BY DEF CommitBlock
<1>3. blocks[s] \in Seq(Block) /\ DOMAIN blocks = Shard
  BY DEF Shape
<1>4. /\ blocks'[s] = Append(blocks[s], b)
      /\ \A r \in Shard : r # s => blocks'[r] = blocks[r]
      /\ DOMAIN blocks' = Shard
  BY <1>1, <1>3
<1>5. /\ DOMAIN blocks'[s] = DOMAIN blocks[s] \cup {Len(blocks[s]) + 1}
      /\ Len(blocks[s]) + 1 \notin DOMAIN blocks[s]
      /\ \A h \in DOMAIN blocks[s] : blocks'[s][h] = blocks[s][h]
      /\ blocks'[s][Len(blocks[s]) + 1] = b
      /\ blocks'[s] \in Seq(Block)
  BY <1>3, <1>4
<1>6. Committed' = Committed \cup {new} /\ new \notin Committed
  <2>1. \A m : m \in Committed' <=> \E r \in Shard : \E h \in DOMAIN blocks'[r] : m = <<r, h>>
    BY DEF Committed
  <2>2. \A m : m \in Committed <=> \E r \in Shard : \E h \in DOMAIN blocks[r] : m = <<r, h>>
    BY DEF Committed
  <2>3. new \notin Committed
    BY <1>5, <2>2
  <2>4. \A m : m \in Committed' <=> m \in Committed \/ m = new
    BY <1>4, <1>5, <2>1, <2>2
  <2> QED
    BY <2>3, <2>4
<1>7. \A m \in Committed : BlockOf(m)' = BlockOf(m)
  <2> SUFFICES ASSUME NEW m \in Committed PROVE blocks'[m[1]][m[2]] = blocks[m[1]][m[2]]
    BY DEF BlockOf
  <2>1. m[1] \in Shard /\ m[2] \in DOMAIN blocks[m[1]]
    BY CommittedFields
  <2> QED
    BY <1>4, <1>5, <2>1
<1>8. BlockOf(new)' = b
  <2>1. \A r, h : BlockOf(<<r, h>>)' = blocks'[r][h]
    BY DEF BlockOf
  <2> QED
    BY <1>5, <2>1
<1>9. new \in Info
  BY <1>3 DEF Info
<1>10. Shape'
  <2>1. blocks' \in [Shard -> Seq(Block)]
    <3>1. blocks' = [r \in Shard |-> IF r = s THEN Append(blocks[s], b) ELSE blocks[r]]
      BY <1>1, <1>3
    <3> QED
      BY <1>3, <3>1 DEF Shape
  <2>2. \A r \in Shard : \A h \in DOMAIN blocks'[r] : blocks'[r][h].epoch \in Epoch
    BY <1>1, <1>4, <1>5 DEF Shape
  <2>3. net' \subseteq Info
    BY <1>1, <1>9 DEF Shape
  <2> QED
    BY <1>1, <1>2, <2>1, <2>2, <2>3 DEF Shape, statVars
<1>11. ChannelInv'
  <2>1. new \notin handled
    BY <1>6 DEF ChannelInv
  <2>2. net' \subseteq Committed' /\ handled' \subseteq Committed' /\ net' \cap handled' = {}
    BY <1>1, <1>2, <1>6, <2>1 DEF ChannelInv
  <2> QED
    BY <1>2, <2>2 DEF ChannelInv, statVars
<1>12. FlowInv'
  <2> SUFFICES ASSUME NEW t \in Tx PROVE Flow(t, Waits(t), Held(t))'
    BY DEF FlowInv
  <2> DEFINE W == Waits(t)
             H == Held(t)
  <2>1. Flow(t, W, H)
    BY DEF FlowInv
  <2>2. Held(t)' = H \cup {p \in {new} \X Stage : [tx |-> t, stage |-> p[2]] \in Range(b.txs)}
    <3>1. Held(t)' = {p \in Committed' \X Stage : [tx |-> t, stage |-> p[2]] \in Range(BlockOf(p[1])'.txs)}
      BY DEF Held
    <3>2. \A p \in Committed \X Stage : BlockOf(p[1])' = BlockOf(p[1])
      BY <1>7
    <3>3. \A p \in {new} \X Stage : BlockOf(p[1])' = b
      <4> SUFFICES ASSUME NEW p \in {new} \X Stage PROVE BlockOf(p[1])' = b
        OBVIOUS
      <4>1. p[1] = new
        OBVIOUS
      <4> QED
        BY <1>8, <4>1, Zenon
    <3>4. Committed' \X Stage = (Committed \X Stage) \cup ({new} \X Stage)
      BY <1>6
    <3> QED
      BY <3>1, <3>2, <3>3, <3>4 DEF Held
  <2>3. \A m : m \in Committed => m \in Committed' /\ m # new
    BY <1>6
  <2>4. handled' = handled /\ kind' = kind /\ new \in Committed' /\ new \notin handled
    BY <1>2, <1>6 DEF ChannelInv
  <2>5. CASE /\ \A st \in Stage : [tx |-> t, stage |-> st] \notin Range(b.txs)
             /\ Waits(t)' = Waits(t)
    <3>1. Held(t)' = H
      BY <2>2, <2>5
    <3> HIDE DEF W, H
    <3> QED
      BY <2>1, <2>3, <2>4, <2>5, <3>1 DEF Flow, W, H
  <2>6. ASSUME NEW st \in Stage,
               \A x \in Stage : [tx |-> t, stage |-> x] \in Range(b.txs) <=> x = st,
               Waits(t)' = IF st = "relay1" THEN {"relay2"} ELSE {},
               \/ st \in Waits(t) \ {"raw"}
               \/ "raw" \in Waits(t) /\ st \in {"inner", "relay1"}
               \/ "raw" \in Waits(t) /\ st = "broker1" /\ kind = "broker"
        PROVE  Flow(t, Waits(t), Held(t))'
    <3>1. Held(t)' = H \cup {<<new, st>>}
      BY <2>2, <2>6
    <3> HIDE DEF H, W
    <3>2. CASE "raw" \in W
      <4>1. W = {"raw"} /\ H = {}
        BY <2>1, <3>2 DEF Flow
      <4>2. st \in {"inner", "relay1"} \/ (st = "broker1" /\ kind = "broker")
        BY <2>6, <4>1 DEF W
      <4>3. Held(t)' = {<<new, st>>}
        BY <3>1, <4>1
      <4> QED
        BY <2>4, <2>6, <4>2, <4>3 DEF Flow
    <3>3. CASE "raw" \notin W
      <4>1. st \in W
        BY <2>6, <3>3 DEF W
      <4>2. CASE st = "relay2"
        <5>1. PICK m \in Committed : H = {<<m, "relay1">>}
          BY <2>1, <4>1, <4>2 DEF Flow
        <5>2. Held(t)' = {<<m, "relay1">>, <<new, "relay2">>} /\ Waits(t)' = {}
          BY <2>6, <3>1, <4>2, <5>1
        <5> QED
          BY <2>3, <2>4, <5>2 DEF Flow
      <4>3. CASE st = "broker2"
        <5>1. PICK m \in Committed : H = {<<m, "broker1">>} /\ m \in handled /\ kind = "broker"
          BY <2>1, <4>1, <4>3 DEF Flow
        <5>2. Held(t)' = {<<m, "broker1">>, <<new, "broker2">>} /\ Waits(t)' = {}
          BY <2>6, <3>1, <4>3, <5>1
        <5> QED
          BY <2>3, <2>4, <5>1, <5>2 DEF Flow
      <4>4. st \in {"relay2", "broker2"}
        BY <2>1, <3>3, <4>1 DEF Flow
      <4> QED
        BY <4>2, <4>3, <4>4
    <3> QED
      BY <3>2, <3>3
  <2>7. \/ /\ \A st \in Stage : [tx |-> t, stage |-> st] \notin Range(b.txs)
           /\ Waits(t)' = Waits(t)
        \/ \E st \in Stage :
             /\ \A x \in Stage : [tx |-> t, stage |-> x] \in Range(b.txs) <=> x = st
             /\ Waits(t)' = IF st = "relay1" THEN {"relay2"} ELSE {}
             /\ \/ st \in Waits(t) \ {"raw"}
                \/ "raw" \in Waits(t) /\ st \in {"inner", "relay1"}
                \/ "raw" \in Waits(t) /\ st = "broker1" /\ kind = "broker"
    BY <1>1, Zenon
  <2> HIDE DEF W, H
  <2> QED
    BY <2>5, <2>6, <2>7, Zenon
<1>13. Measured' = Measured /\ Measured \subseteq Committed
  BY <1>2 DEF Measured, ChannelInv
<1>14. CountInv' /\ RecordedOnce'
  BY <1>2, <1>7, <1>13, RecordsSame DEF statVars
<1> QED
  BY <1>10, <1>11, <1>12, <1>14

\* A repartition only moves accounts.
LEMMA RepartitionKeeps ==
  ASSUME ReportInv, Repartition
  PROVE  ReportInv'
<1> USE DEF ReportInv
<1>1. UNCHANGED <<kind, ready, blocks, clock, net, main, msgList, handled, measureMsgBuf, sub,
                 statVars, brief>>
      /\ epoch' = epoch + 1 /\ epoch < MaxEpoch /\ moved' = clock /\ home' \in [Account -> Shard]
  BY DEF Repartition
<1>2. epoch' \in Epoch
  BY <1>1, MeasureAssumption DEF Shape, Epoch
<1>3. Shape'
  BY <1>1, <1>2 DEF Shape, statVars
<1>4. ChannelInv'
  BY <1>1 DEF ChannelInv, Committed, statVars
<1>5. Measured' = Measured /\ \A m : BlockOf(m)' = BlockOf(m)
  BY <1>1 DEF Measured, BlockOf
<1>6. FlowInv' /\ CountInv' /\ RecordedOnce'
  BY <1>1, <1>5, FlowSame, RecordsSame DEF statVars
<1> QED
  BY <1>3, <1>4, <1>6

\* The steps that begin a tick, close the channel, end the measure goroutine and write.
LEMMA EndKeeps ==
  ASSUME ReportInv,
         \/ DrainMsgBuffer \/ CloseMeasureMsgBuf \/ MeasureDone \/ OutputResultAndClose
         \/ UNCHANGED vars
  PROVE  ReportInv'
<1> USE DEF ReportInv
<1>1. UNCHANGED <<kind, shardVars, net, handled, measureMsgBuf, statVars>>
  BY DEF DrainMsgBuffer, CloseMeasureMsgBuf, MeasureDone, OutputResultAndClose, vars
<1>2. Shape'
  BY <1>1 DEF Shape, statVars, shardVars, DrainMsgBuffer, CloseMeasureMsgBuf, MeasureDone,
              OutputResultAndClose, vars
<1>3. ChannelInv'
  BY <1>1 DEF ChannelInv, Committed, statVars, shardVars, DrainMsgBuffer, CloseMeasureMsgBuf,
              MeasureDone, OutputResultAndClose, vars, DoneReceived, ChannelClosed
<1>4. Measured' = Measured /\ \A m : BlockOf(m)' = BlockOf(m)
  BY <1>1 DEF Measured, BlockOf, shardVars
<1>5. FlowInv' /\ CountInv' /\ RecordedOnce'
  BY <1>1, <1>4, FlowSame, RecordsSame DEF statVars, shardVars
<1> QED
  BY <1>2, <1>3, <1>5

\* The main goroutine hands over an info that nobody has handed over before.
LEMMA HandleKeeps ==
  ASSUME ReportInv, NEW m \in net, HandleMsg(m)
  PROVE  ReportInv'
<1> USE DEF ReportInv
<1> DEFINE halves == {[tx |-> c.tx, stage |-> "broker2"] :
                         c \in {x \in Range(BlockOf(m).txs) : x.stage = "broker1"}}
<1>1. /\ main = "loop" /\ Len(measureMsgBuf) < WmBufferSize
      /\ net' = net \ {m} /\ msgList' = msgList \ {m}
      /\ measureMsgBuf' = Append(measureMsgBuf, m)
      /\ handled' = handled \cup {m} /\ ready' = ready \cup halves
      /\ UNCHANGED <<kind, home, blocks, epoch, clock, moved, trail, main, sub, statVars, brief>>
  BY DEF HandleMsg
<1>2. m \in Committed /\ m \in Info /\ m \notin handled
  BY DEF ChannelInv, Shape
<1>3. Range(BlockOf(m).txs) \subseteq [tx : Tx, stage : Stage]
  BY <1>2, CommittedFields
<1>4. /\ measureMsgBuf \in Seq(Info) /\ DOMAIN measureMsgBuf = 1 .. Len(measureMsgBuf)
      /\ Len(measureMsgBuf) \in Nat
  BY DEF Shape
<1>5. /\ measureMsgBuf' \in Seq(Info) /\ Len(measureMsgBuf') = Len(measureMsgBuf) + 1
      /\ DOMAIN measureMsgBuf' = 1 .. (Len(measureMsgBuf) + 1)
      /\ \A i \in DOMAIN measureMsgBuf : measureMsgBuf'[i] = measureMsgBuf[i]
      /\ measureMsgBuf'[Len(measureMsgBuf) + 1] = m
  BY <1>1, <1>2, <1>4
<1>6. Range(measureMsgBuf') = Range(measureMsgBuf) \cup {m}
  <2>1. \A i : i \in DOMAIN measureMsgBuf' <=> i \in DOMAIN measureMsgBuf \/ i = Len(measureMsgBuf) + 1
    BY <1>4, <1>5
  <2> QED
    BY <1>5, <2>1 DEF Range
<1>7. Shape'
  <2>1. halves \subseteq Copy
    BY <1>3 DEF Copy, Stage
  <2>2. IsFiniteSet(handled')
    BY <1>1, FS_AddElement DEF Shape
  <2>3. Len(measureMsgBuf') <= WmBufferSize
    BY <1>1, <1>4, <1>5, MeasureAssumption
  <2> HIDE DEF halves
  <2>4. ready' \subseteq Copy /\ net' \subseteq Info /\ handled' \subseteq Info
    BY <1>1, <1>2, <2>1 DEF Shape
  <2> QED
    BY <1>1, <1>5, <2>2, <2>3, <2>4 DEF Shape, statVars
<1>8. Committed' = Committed /\ \A x : BlockOf(x)' = BlockOf(x)
  BY <1>1 DEF Committed, BlockOf
<1>9. ChannelInv'
  <2>1. \A i, j \in DOMAIN measureMsgBuf' : measureMsgBuf'[i] = measureMsgBuf'[j] => i = j
    <3>1. \A i \in DOMAIN measureMsgBuf : measureMsgBuf[i] # m
      BY <1>2 DEF ChannelInv, Range
    <3>2. \A i \in DOMAIN measureMsgBuf' : i \in DOMAIN measureMsgBuf \/ i = Len(measureMsgBuf) + 1
      BY <1>4, <1>5
    <3> QED
      BY <1>5, <3>1, <3>2 DEF ChannelInv
  <2> QED
    BY <1>1, <1>2, <1>6, <1>8, <2>1 DEF ChannelInv, statVars
<1>10. Measured' = Measured
  BY <1>1, <1>2, <1>6 DEF Measured
<1>11. FlowInv'
  <2> SUFFICES ASSUME NEW t \in Tx PROVE Flow(t, Waits(t), Held(t))'
    BY DEF FlowInv
  <2>1. Flow(t, Waits(t), Held(t))
    BY DEF FlowInv
  <2>2. Held(t)' = Held(t)
    BY <1>8 DEF Held
  <2>3. Waits(t)' = Waits(t) \cup (IF <<m, "broker1">> \in Held(t) THEN {"broker2"} ELSE {})
    <3>1. ASSUME NEW st
          PROVE  [tx |-> t, stage |-> st] \in halves <=> st = "broker2" /\ <<m, "broker1">> \in Held(t)
      <4>1. <<m, "broker1">> \in Held(t) <=> [tx |-> t, stage |-> "broker1"] \in Range(BlockOf(m).txs)
        BY <1>2 DEF Held, Stage
      <4>2. ASSUME [tx |-> t, stage |-> st] \in halves
            PROVE  st = "broker2" /\ [tx |-> t, stage |-> "broker1"] \in Range(BlockOf(m).txs)
        <5>1. PICK c \in Range(BlockOf(m).txs) : c.stage = "broker1"
                     /\ [tx |-> t, stage |-> st] = [tx |-> c.tx, stage |-> "broker2"]
          BY <4>2
        <5>2. c = [tx |-> c.tx, stage |-> c.stage] /\ c.tx = t /\ st = "broker2"
          BY <1>3, <5>1
        <5> QED
          BY <5>1, <5>2
      <4>3. ASSUME st = "broker2", [tx |-> t, stage |-> "broker1"] \in Range(BlockOf(m).txs)
            PROVE  [tx |-> t, stage |-> st] \in halves
        BY <4>3
      <4> QED
        BY <4>1, <4>2, <4>3
    <3>2. Waits(t)' = {st \in Stage \cup {"raw"} : [tx |-> t, stage |-> st] \in ready'}
      BY DEF Waits
    <3> HIDE DEF halves
    <3>3. Waits(t)' = Waits(t) \cup {st \in Stage \cup {"raw"} : [tx |-> t, stage |-> st] \in halves}
      BY <1>1, <3>2 DEF Waits
    <3> QED
      BY <3>1, <3>3 DEF Stage
  <2> DEFINE W == Waits(t)
             H == Held(t)
  <2>4. kind' = kind
    BY <1>1
  <2> HIDE DEF W, H
  <2>5. CASE <<m, "broker1">> \in H
    <3>1. PICK o \in Committed :
             \/ H = {<<o, "broker1">>}
             \/ o \in handled /\ \E q \in Committed : H = {<<o, "broker1">>, <<q, "broker2">>}
      BY <2>1, <2>5 DEF Flow, W, H
    <3>2. o = m
      BY <2>5, <3>1
    <3>3. H = {<<m, "broker1">>} /\ kind = "broker" /\ W = {}
      BY <1>2, <2>1, <2>5, <3>1, <3>2 DEF Flow, W, H
    <3>4. Held(t)' = {<<m, "broker1">>} /\ Waits(t)' = {"broker2"}
      BY <2>2, <2>3, <2>5, <3>3 DEF W, H
    <3> QED
      BY <1>1, <1>2, <1>8, <2>4, <3>3, <3>4 DEF Flow
  <2>6. CASE <<m, "broker1">> \notin H
    <3>1. Waits(t)' = W /\ Held(t)' = H
      BY <2>2, <2>3, <2>6 DEF W, H
    <3>2. \A o \in Committed : <<o, "broker1">> \in H => (o \in handled' <=> o \in handled)
      BY <1>1, <2>6
    <3> QED
      BY <1>8, <2>1, <2>4, <3>1, <3>2 DEF Flow, W, H
  <2> QED
    BY <2>5, <2>6
<1>12. CountInv' /\ RecordedOnce'
  BY <1>1, <1>8, <1>10, RecordsSame DEF statVars
<1> QED
  BY <1>7, <1>9, <1>11, <1>12

\* The sequence of a set with one element, or with none.
LEMMA SetToSeqOne ==
  ASSUME NEW x
  PROVE  SetToSeq({x}) = <<x>>
<1>1. Cardinality({x}) = 1
  BY FS_Singleton
<1>2. \A f \in [1 .. 1 -> {x}] : f = <<x>>
  OBVIOUS
<1>3. <<x>> \in [1 .. 1 -> {x}] /\ IsInjective(<<x>>)
  BY DEF IsInjective
<1> DEFINE Pick == CHOOSE f \in [1 .. 1 -> {x}] : IsInjective(f)
<1>4. Pick \in [1 .. 1 -> {x}]
  BY <1>3
<1> QED
  BY <1>1, <1>2, <1>4 DEF SetToSeq

LEMMA SetToSeqNone == SetToSeq({}) = <<>>
<1>1. Cardinality({}) = 0
  BY FS_EmptySet
<1>2. 1 .. 0 = {}
  OBVIOUS
<1>3. \A f \in [{} -> {}] : f = <<>>
  OBVIOUS
<1>4. <<>> \in [{} -> {}] /\ IsInjective(<<>>)
  BY DEF IsInjective
<1> DEFINE Pick == CHOOSE f \in [{} -> {}] : IsInjective(f)
<1>5. Pick \in [{} -> {}]
  BY <1>4
<1>6. SetToSeq({}) = Pick
  BY <1>1, <1>2 DEF SetToSeq
<1> QED
  BY <1>3, <1>5, <1>6

\* Which forms of a transfer blocks can hold together: one form in one block,
\* or the two halves in two.
LEMMA HeldForms ==
  ASSUME FlowInv, NEW t \in Tx
  PROVE  /\ \A p, q \in Held(t) : p[1] = q[1] \/ p[2] = q[2] => p = q
         /\ \A p, q \in Held(t) : p # q => \/ {p[2], q[2]} = {"relay1", "relay2"}
                                           \/ {p[2], q[2]} = {"broker1", "broker2"}
         /\ \A p \in Held(t) : /\ p[2] \in Stage
                               /\ p[2] \in {"broker1", "broker2"} => kind = "broker"
<1>1. Flow(t, Waits(t), Held(t))
  BY DEF FlowInv
<1> QED
  BY <1>1 DEF Flow, Stage

\* The measure goroutine takes the first info from the channel.
LEMMA TakesInfo ==
  ASSUME Shape, ChannelInv, UpdateMeasureRecord
  PROVE  /\ Head(measureMsgBuf) \in handled \ Measured
         /\ Measured' = Measured \cup {Head(measureMsgBuf)}
         /\ measureMsgBuf' \in Seq(Info) /\ Len(measureMsgBuf') <= WmBufferSize
         /\ Range(measureMsgBuf') \subseteq handled
         /\ \A i, j \in DOMAIN measureMsgBuf' : measureMsgBuf'[i] = measureMsgBuf'[j] => i = j
<1> DEFINE b == measureMsgBuf
<1>1. b \in Seq(Info) /\ b # <<>> /\ measureMsgBuf' = Tail(b) /\ handled' = handled
      /\ Len(b) <= WmBufferSize
  BY DEF Shape, UpdateMeasureRecord
<1>2. WmBufferSize \in Nat
  BY MeasureAssumption
<1>3. Len(b) \in Nat \ {0} /\ DOMAIN b = 1 .. Len(b) /\ Head(b) = b[1]
  BY <1>1
<1>4. /\ Tail(b) \in Seq(Info) /\ Len(Tail(b)) = Len(b) - 1
      /\ DOMAIN Tail(b) = 1 .. (Len(b) - 1)
      /\ \A i \in DOMAIN Tail(b) : Tail(b)[i] = b[i + 1] /\ i + 1 \in DOMAIN b
  BY <1>1, <1>3
<1>5. Range(b) = Range(Tail(b)) \cup {Head(b)}
  <2>1. \A i \in DOMAIN b : i = 1 \/ (i - 1 \in DOMAIN Tail(b) /\ Tail(b)[i - 1] = b[i])
    BY <1>3, <1>4
  <2>2. 1 \in DOMAIN b
    BY <1>3
  <2> HIDE DEF b
  <2>3. \A x \in Range(b) : x \in Range(Tail(b)) \/ x = Head(b)
    BY <1>3, <2>1 DEF Range
  <2>4. \A x \in Range(Tail(b)) : x \in Range(b)
    BY <1>4 DEF Range
  <2>5. Head(b) \in Range(b)
    BY <1>3, <2>2 DEF Range
  <2> QED
    BY <2>3, <2>4, <2>5
<1>6. \A i, j \in DOMAIN b : b[i] = b[j] => i = j
  BY DEF ChannelInv
<1>7. \A i \in DOMAIN Tail(b) : i # 0 /\ i + 1 # 1 /\ Tail(b)[i] # Head(b)
  BY <1>3, <1>4, <1>6
<1>8. Head(b) \notin Range(Tail(b))
  BY <1>7 DEF Range
<1>9. Range(b) \subseteq handled
  BY DEF ChannelInv
<1>10. \A i, j \in DOMAIN Tail(b) : Tail(b)[i] = Tail(b)[j] => i = j
  <2> SUFFICES ASSUME NEW i \in DOMAIN Tail(b), NEW j \in DOMAIN Tail(b), Tail(b)[i] = Tail(b)[j]
               PROVE  i = j
    OBVIOUS
  <2>1. b[i + 1] = b[j + 1] /\ i + 1 \in DOMAIN b /\ j + 1 \in DOMAIN b
    BY <1>4
  <2>2. i + 1 = j + 1 /\ i \in Nat /\ j \in Nat
    BY <1>4, <1>6, <2>1, <1>3
  <2> QED
    BY <2>2
<1>11. Measured' = handled \ Range(Tail(b)) /\ Measured = handled \ Range(b)
  BY <1>1 DEF Measured
<1>12. Len(Tail(b)) <= WmBufferSize
  BY <1>1, <1>2, <1>3, <1>4
<1> HIDE DEF b
<1>13. Head(b) \in handled \ Measured /\ Measured' = Measured \cup {Head(b)}
  BY <1>5, <1>8, <1>9, <1>11
<1>14. Range(Tail(b)) \subseteq handled
  BY <1>5, <1>9
<1>15. /\ measureMsgBuf' \in Seq(Info) /\ Len(measureMsgBuf') <= WmBufferSize
       /\ Range(measureMsgBuf') \subseteq handled
       /\ \A i, j \in DOMAIN measureMsgBuf' : measureMsgBuf'[i] = measureMsgBuf'[j] => i = j
  BY <1>1, <1>4, <1>10, <1>12, <1>14
<1> QED
  BY <1>13, <1>15 DEF b

\* The counters of the stages grow by the transactions of the block.
LEMMA CountStep ==
  ASSUME Shape, ChannelInv, CountInv, UpdateMeasureRecord
  PROVE  CountInv' /\ txNum' \in [Epoch -> [Stage -> Nat]]
<1> DEFINE m   == Head(measureMsgBuf)
           txs == Range(BlockOf(m).txs)
<1>1. m \in Committed /\ m \notin Measured /\ Measured' = Measured \cup {m}
  BY TakesInfo DEF ChannelInv
<1>2. kind' = kind /\ blocks' = blocks
      /\ txNum' = [txNum EXCEPT ![BlockOf(m).epoch] = [st \in Stage |-> @[st] + Counted(txs, st)]]
  BY DEF UpdateMeasureRecord, shardVars
<1>3. BlockOf(m).epoch \in Epoch /\ txs \subseteq [tx : Tx, stage : Stage] /\ IsFiniteSet(txs)
  BY <1>1, CommittedFields
<1>4. \A st : IsFiniteSet({c \in txs : c.stage = st}) /\ Cardinality({c \in txs : c.stage = st}) \in Nat
  <2> SUFFICES ASSUME NEW st
               PROVE  /\ IsFiniteSet({c \in txs : c.stage = st})
                      /\ Cardinality({c \in txs : c.stage = st}) \in Nat
    OBVIOUS
  <2> DEFINE T == {c \in txs : c.stage = st}
  <2>1. T \in SUBSET txs
    OBVIOUS
  <2> HIDE DEF T, txs
  <2>2. IsFiniteSet(T)
    BY <1>3, <2>1, FS_Subset
  <2>3. Cardinality(T) \in Nat
    BY <2>2, FS_CardinalityType
  <2> QED
    BY <2>2, <2>3 DEF T
<1>5. \A st \in Pairs \cup Singles : Counted(txs, st) = Cardinality({c \in txs : c.stage = st})
  <2>1. \A st \in Pairs \cup Singles :
          {c \in txs : c.stage = st /\ st \in Pairs \cup Singles} = {c \in txs : c.stage = st}
    OBVIOUS
  <2> QED
    BY <2>1 DEF Counted
<1>6. \A st : Counted(txs, st) \in Nat
  <2> SUFFICES ASSUME NEW st PROVE Counted(txs, st) \in Nat
    OBVIOUS
  <2>1. CASE st \in Pairs \cup Singles
    BY <1>4, <1>5, <2>1
  <2>2. CASE st \notin Pairs \cup Singles
    <3>1. {c \in txs : c.stage = st /\ st \in Pairs \cup Singles} = {}
      BY <2>2
    <3> QED
      BY <3>1, FS_EmptySet DEF Counted
  <2> QED
    BY <2>1, <2>2
<1>7. \A x : BlockOf(x)' = BlockOf(x)
  BY <1>2 DEF BlockOf
<1>8. Pairs' = Pairs /\ Singles' = Singles /\ Pairs \cup Singles \subseteq Stage
  BY <1>2 DEF Pairs, Singles, Stage
<1> HIDE DEF txs, m
<1>9. txNum' \in [Epoch -> [Stage -> Nat]]
      /\ \A e \in Epoch, st \in Stage :
            txNum'[e][st] = IF e = BlockOf(m).epoch THEN txNum[e][st] + Counted(txs, st) ELSE txNum[e][st]
  <2>1. txNum \in [Epoch -> [Stage -> Nat]]
    BY DEF Shape
  <2> QED
    BY <1>2, <1>3, <1>6, <2>1
<1>10. ASSUME NEW e \in Epoch, NEW st \in Pairs \cup Singles
       PROVE  txNum'[e][st] = Cardinality(CountedIn(Measured, e, st)')
  <2> DEFINE old == CountedIn(Measured, e, st)
             more == {p \in {m} \X Tx : /\ BlockOf(p[1]).epoch = e
                                        /\ [tx |-> p[2], stage |-> st] \in Range(BlockOf(p[1]).txs)}
  <2>1. CountedIn(Measured, e, st)' = old \cup more
    <3>1. CountedIn(Measured, e, st)' =
            {p \in (Measured \cup {m}) \X Tx : /\ BlockOf(p[1]).epoch = e
                                        /\ [tx |-> p[2], stage |-> st] \in Range(BlockOf(p[1]).txs)}
      BY <1>1, <1>7 DEF CountedIn
    <3> QED
      BY <3>1 DEF CountedIn
  <2>2. old \cap more = {}
    BY <1>1 DEF CountedIn
  <2>3. IsFiniteSet(old)
    <3>1. Measured \in SUBSET handled /\ IsFiniteSet(handled)
      BY DEF Measured, Shape
    <3>2. IsFiniteSet(Measured)
      BY <3>1, FS_Subset
    <3>3. IsFiniteSet(Measured \X Tx)
      BY <3>2, FS_Product, MeasureAssumption
    <3>4. old \in SUBSET (Measured \X Tx)
      BY DEF CountedIn
    <3> HIDE DEF old
    <3> QED
      BY <3>3, <3>4, FS_Subset
  <2>4. txNum[e][st] = Cardinality(old)
    BY <1>10 DEF CountInv
  <2>5. CASE e = BlockOf(m).epoch
    <3> DEFINE T == {c \in txs : c.stage = st}
    <3>1. more = {<<m, c.tx>> : c \in T}
      <4>1. \A c \in T : c = [tx |-> c.tx, stage |-> st] /\ c.tx \in Tx
        BY <1>3
      <4>2. \A p \in more : p = <<m, p[2]>> /\ [tx |-> p[2], stage |-> st] \in T
        BY DEF txs
      <4>3. \A c \in T : <<m, c.tx>> \in more
        BY <2>5, <4>1 DEF txs
      <4>4. \A p \in more : \E c \in T : p = <<m, c.tx>>
        <5> SUFFICES ASSUME NEW p \in more PROVE \E c \in T : p = <<m, c.tx>>
          OBVIOUS
        <5>1. [tx |-> p[2], stage |-> st] \in T /\ p = <<m, p[2]>>
          BY <4>2
        <5>2. [tx |-> p[2], stage |-> st].tx = p[2]
          OBVIOUS
        <5> HIDE DEF more, T
        <5> QED
          BY <5>1, <5>2
      <4> HIDE DEF more, T
      <4> QED
        BY <4>3, <4>4
    <3>2. [c \in T |-> <<m, c.tx>>] \in Bijection(T, more)
      <4>1. \A c, d \in T : <<m, c.tx>> = <<m, d.tx>> => c = d
        BY <1>3
      <4> HIDE DEF T, more
      <4>2. [c \in T |-> <<m, c.tx>>] \in [T -> more]
        BY <3>1
      <4>3. \A p \in more : \E c \in T : [x \in T |-> <<m, x.tx>>][c] = p
        BY <3>1
      <4> QED
        BY <4>1, <4>2, <4>3 DEF Bijection, Injection, Surjection, IsInjective
    <3>3. IsFiniteSet(T) /\ Cardinality(T) \in Nat /\ Counted(txs, st) = Cardinality(T)
      BY <1>4, <1>5
    <3> HIDE DEF T, more, old
    <3>4. IsFiniteSet(more) /\ Cardinality(more) = Cardinality(T)
      BY <3>2, <3>3, FS_Bijection DEF ExistsBijection
    <3>5. Cardinality(old \cup more) = Cardinality(old) + Cardinality(more)
      <4>1. Cardinality(old \cup more) = Cardinality(old) + Cardinality(more) - Cardinality(old \cap more)
        BY <2>3, <3>4, FS_Union
      <4>2. Cardinality(old \cap more) = 0
        BY <2>2, FS_EmptySet
      <4>3. Cardinality(old) \in Nat /\ Cardinality(more) \in Nat
        BY <2>3, <3>3, <3>4, FS_CardinalityType
      <4> QED
        BY <4>1, <4>2, <4>3
    <3> QED
      BY <1>8, <1>9, <2>1, <2>4, <2>5, <3>3, <3>4, <3>5
  <2>6. CASE e # BlockOf(m).epoch
    <3>1. more = {}
      BY <2>6
    <3> HIDE DEF more, old
    <3> QED
      BY <1>8, <1>9, <2>1, <2>4, <2>6, <3>1
  <2> QED
    BY <2>5, <2>6
<1> QED
  BY <1>8, <1>9, <1>10 DEF CountInv

\* The one element of a set of infos, if there is one.
TheInfo(ms) == IF ms = {} THEN NoInfo ELSE CHOOSE m \in ms : TRUE

\* What RecordedOnce says of a transfer whose first and second halves have
\* been seen in the blocks of f and s, or which has been seen as a whole in a.
Right(life, lines, f, s, a) ==
    CASE a # {} -> lines = <<[NoLife EXCEPT !.second = TheInfo(a)]>> /\ life = NoLife
      [] a = {} /\ f # {} /\ s # {} ->
            lines = <<[first |-> TheInfo(f), second |-> TheInfo(s)]>> /\ life = NoLife
      [] OTHER -> lines = <<>> /\ life = [first |-> TheInfo(f), second |-> TheInfo(s)]

Firsts  == Pairs \ {"relay2", "broker2"}
Seconds == Pairs \ {"relay1", "broker1"}

\* RecordedOnce in these terms.
LEMMA RecordedIsRight ==
  RecordedOnce <=> \A t \in Tx : Right(txLifecycles[t], detail[t],
                     SeenIn(t, Firsts), SeenIn(t, Seconds), SeenIn(t, Singles))
BY DEF RecordedOnce, Right, TheInfo, Firsts, Seconds

LEMMA TheInfoOf ==
  /\ TheInfo({}) = NoInfo
  /\ \A m : TheInfo({m}) = m
<1>1. \A m : {m} # {} /\ (CHOOSE x \in {m} : TRUE) = m
  OBVIOUS
<1> QED
  BY <1>1 DEF TheInfo

\* What UpdateMeasureRecord does to the entry and the lines of a transfer that
\* has the form st in the block, or none.
LEMMA UpdateEffect ==
  ASSUME Shape, ChannelInv, FlowInv, UpdateMeasureRecord, NEW t \in Tx
  PROVE  LET m == Head(measureMsgBuf) IN
         /\ txLifecycles'[t] \in LifeCycle /\ detail'[t] \in Seq(LifeCycle)
         /\ (\A st \in Pairs \cup Singles : <<m, st>> \notin Held(t)) =>
               txLifecycles'[t] = txLifecycles[t] /\ detail'[t] = detail[t]
         /\ \A st \in Singles : <<m, st>> \in Held(t) =>
               /\ txLifecycles'[t] = txLifecycles[t]
               /\ detail'[t] = Append(detail[t], [NoLife EXCEPT !.second = m])
         /\ \A st \in Pairs : <<m, st>> \in Held(t) =>
               LET filled == IF st \in {"relay1", "broker1"}
                             THEN [txLifecycles[t] EXCEPT !.first = m]
                             ELSE [txLifecycles[t] EXCEPT !.second = m]
               IN  IF txLifecycles[t] = NoLife
                   THEN txLifecycles'[t] = filled /\ detail'[t] = detail[t]
                   ELSE txLifecycles'[t] = NoLife /\ detail'[t] = Append(detail[t], filled)
<1> PICK m : m = Head(measureMsgBuf)
  OBVIOUS
<1> DEFINE txs  == Range(BlockOf(m).txs)
           closed == {c \in txs : c.stage \in Pairs /\ PairCompleted(c)}
           open == {c \in txs : c.stage \in Pairs /\ ~PairCompleted(c)}
           Of(cs) == {c \in cs : c.tx = t}
           lines == {Filled(c, m) : c \in Of(closed)} \cup
                    {[NoLife EXCEPT !.second = m] : c \in {x \in Of(txs) : x.stage \in Singles}}
<1>1. m \in Committed /\ m \in Info
  BY TakesInfo DEF ChannelInv, Shape
<1>2. txs \subseteq [tx : Tx, stage : Stage]
  BY <1>1, CommittedFields
<1>3. /\ txLifecycles'[t] = IF Of(closed) # {} THEN NoLife
                            ELSE IF Of(open) # {} THEN Filled(CHOOSE c \in Of(open) : TRUE, m)
                            ELSE txLifecycles[t]
      /\ detail'[t] = detail[t] \o SetToSeq(lines)
  BY DEF UpdateMeasureRecord
<1>4. txLifecycles[t] \in LifeCycle /\ detail[t] \in Seq(LifeCycle)
  BY DEF Shape
<1>5. NoLife \in LifeCycle /\ [NoLife EXCEPT !.second = m] \in LifeCycle
      /\ [txLifecycles[t] EXCEPT !.first = m] \in LifeCycle
      /\ [txLifecycles[t] EXCEPT !.second = m] \in LifeCycle
  BY <1>1, <1>4 DEF NoLife, LifeCycle
<1>6. /\ detail[t] \o SetToSeq({}) = detail[t]
      /\ \A x \in LifeCycle : /\ detail[t] \o SetToSeq({x}) = Append(detail[t], x)
                              /\ Append(detail[t], x) \in Seq(LifeCycle)
  <2>1. detail[t] \o <<>> = detail[t]
    BY <1>4
  <2>2. \A x \in LifeCycle : detail[t] \o <<x>> = Append(detail[t], x)
                             /\ Append(detail[t], x) \in Seq(LifeCycle)
    BY <1>4
  <2> QED
    BY <2>1, <2>2, SetToSeqOne, SetToSeqNone
<1>7. \A c \in Of(txs) : c = [tx |-> t, stage |-> c.stage] /\ <<m, c.stage>> \in Held(t)
  <2> SUFFICES ASSUME NEW c \in Of(txs)
               PROVE  c = [tx |-> t, stage |-> c.stage] /\ <<m, c.stage>> \in Held(t)
    OBVIOUS
  <2>1. c \in txs /\ c = [tx |-> t, stage |-> c.stage] /\ c.stage \in Stage
    BY <1>2
  <2> QED
    BY <1>1, <2>1 DEF Held
<1>8. \A st : <<m, st>> \in Held(t) => [tx |-> t, stage |-> st] \in Of(txs)
  BY DEF Held
<1>9. Pairs \cap Singles = {}
  BY DEF Pairs, Singles
<1>10. \A c \in Of(txs) : PairCompleted(c) <=> txLifecycles[t] # NoLife
  BY DEF PairCompleted
<1> HIDE DEF txs
<1>11. CASE Of(txs) = {}
  <2>1. Of(closed) = {} /\ Of(open) = {} /\ lines = {}
    BY <1>11
  <2>2. txLifecycles'[t] = txLifecycles[t] /\ detail'[t] = detail[t]
    BY <1>3, <1>6, <2>1
  <2> HIDE DEF Of
  <2> QED
    BY <1>4, <1>8, <1>11, <2>2
<1>12. ASSUME NEW st, <<m, st>> \in Held(t)
       PROVE  Of(txs) = {[tx |-> t, stage |-> st]}
  <2>1. ASSUME NEW c \in Of(txs) PROVE c = [tx |-> t, stage |-> st]
    <3>1. c = [tx |-> t, stage |-> c.stage] /\ <<m, c.stage>> \in Held(t)
      BY <1>7
    <3>2. \A p, q \in Held(t) : p[1] = q[1] => p = q
      BY HeldForms
    <3>3. <<m, c.stage>> = <<m, st>>
      BY <1>12, <3>1, <3>2
    <3> QED
      BY <3>1, <3>3
  <2> QED
    BY <1>8, <1>12, <2>1
<1>13. ASSUME NEW st, <<m, st>> \in Held(t), st \notin Pairs
       PROVE  /\ txLifecycles'[t] = txLifecycles[t]
              /\ detail'[t] = IF st \in Singles THEN Append(detail[t], [NoLife EXCEPT !.second = m])
                                                ELSE detail[t]
  <2>1. \A c \in Of(txs) : c.stage = st
    BY <1>12, <1>13
  <2>2. Of(closed) = {} /\ Of(open) = {}
    BY <1>13, <2>1
  <2>3. CASE st \in Singles
    <3>1. [tx |-> t, stage |-> st] \in {x \in Of(txs) : x.stage \in Singles}
      BY <1>12, <1>13, <2>3
    <3>2. lines = {[NoLife EXCEPT !.second = m]}
      BY <2>2, <3>1
    <3> HIDE DEF lines
    <3> QED
      BY <1>3, <1>5, <1>6, <2>2, <2>3, <3>2
  <2>4. CASE st \notin Singles
    <3>1. lines = {}
      BY <2>1, <2>2, <2>4
    <3> HIDE DEF lines
    <3> QED
      BY <1>3, <1>6, <2>2, <2>4, <3>1
  <2> QED
    BY <2>3, <2>4
<1>14. ASSUME NEW st, <<m, st>> \in Held(t), st \in Pairs
       PROVE  LET filled == IF st \in {"relay1", "broker1"}
                            THEN [txLifecycles[t] EXCEPT !.first = m]
                            ELSE [txLifecycles[t] EXCEPT !.second = m]
              IN  /\ filled \in LifeCycle
                  /\ IF txLifecycles[t] = NoLife
                     THEN txLifecycles'[t] = filled /\ detail'[t] = detail[t]
                     ELSE txLifecycles'[t] = NoLife /\ detail'[t] = Append(detail[t], filled)
  <2> DEFINE c0 == [tx |-> t, stage |-> st]
             filled == IF st \in {"relay1", "broker1"}
                       THEN [txLifecycles[t] EXCEPT !.first = m]
                       ELSE [txLifecycles[t] EXCEPT !.second = m]
  <2>1. Of(txs) = {c0} /\ c0.stage = st /\ c0.tx = t
    BY <1>12, <1>14
  <2>2. Filled(c0, m) = filled /\ filled \in LifeCycle
    BY <1>5 DEF Filled
  <2>3. PairCompleted(c0) <=> txLifecycles[t] # NoLife
    BY <1>10, <2>1
  <2>4. {x \in Of(txs) : x.stage \in Singles} = {}
    BY <1>9, <1>14, <2>1
  <2>5. CASE txLifecycles[t] = NoLife
    <3>1. Of(closed) = {} /\ Of(open) = {c0}
      BY <1>14, <2>1, <2>3, <2>5
    <3>2. lines = {}
      BY <2>4, <3>1
    <3>3. (CHOOSE c \in Of(open) : TRUE) = c0
      BY <3>1
    <3> HIDE DEF lines, closed, open, Of, c0, filled
    <3> QED
      BY <1>3, <1>6, <2>2, <2>5, <3>1, <3>2, <3>3 DEF filled
  <2>6. CASE txLifecycles[t] # NoLife
    <3>1. Of(closed) = {c0}
      BY <1>14, <2>1, <2>3, <2>6
    <3>2. lines = {filled}
      BY <2>2, <2>4, <3>1
    <3> HIDE DEF lines, closed, open, Of, c0, filled
    <3> QED
      BY <1>3, <1>6, <2>2, <2>6, <3>1, <3>2 DEF filled
  <2> QED
    BY <2>5, <2>6
<1> HIDE DEF Of, lines, closed, open
<1>15. CASE \A st : <<m, st>> \notin Held(t)
  <2>1. Of(txs) = {}
    BY <1>7, <1>15
  <2> QED
    BY <1>11, <2>1
<1>16. CASE \E st : <<m, st>> \in Held(t)
  <2>1. PICK st : <<m, st>> \in Held(t)
    BY <1>16
  <2>2. \A x : <<m, x>> \in Held(t) => x = st
    <3>1. \A p, q \in Held(t) : p[1] = q[1] => p = q
      BY HeldForms
    <3>2. \A x : <<m, x>> \in Held(t) => <<m, x>> = <<m, st>>
      BY <2>1, <3>1
    <3> QED
      BY <3>2
  <2>3. CASE st \in Pairs
    BY <1>4, <1>5, <1>6, <1>9, <1>14, <2>1, <2>2, <2>3
  <2>4. CASE st \notin Pairs
    BY <1>4, <1>5, <1>6, <1>13, <2>1, <2>2, <2>4
  <2> QED
    BY <2>3, <2>4
<1> QED
  BY <1>15, <1>16

\* The entry and the lines of a transfer are right after one more of its forms
\* has been seen.
LEMMA RightStep ==
  ASSUME NEW life, NEW lines, NEW f, NEW s, NEW a, NEW m, m # NoInfo, life \in LifeCycle,
         lines \in Seq(LifeCycle), Right(life, lines, f, s, a), a = {}
  PROVE  /\ f = {} /\ s = {} =>
              /\ life = NoLife
              /\ Right(life, Append(lines, [NoLife EXCEPT !.second = m]), f, s, {m})
              /\ Right([life EXCEPT !.first = m], lines, {m}, s, a)
              /\ Right([life EXCEPT !.second = m], lines, f, {m}, a)
         /\ \A o : o # NoInfo /\ f = {} /\ s = {o} =>
              /\ life # NoLife
              /\ Right(NoLife, Append(lines, [life EXCEPT !.first = m]), {m}, s, a)
         /\ \A o : o # NoInfo /\ f = {o} /\ s = {} =>
              /\ life # NoLife
              /\ Right(NoLife, Append(lines, [life EXCEPT !.second = m]), f, {m}, a)
<1>1. \A x : Append(<<>>, x) = <<x>>
  OBVIOUS
<1>2. CASE f = {} /\ s = {}
  <2>1. lines = <<>> /\ life = [first |-> NoInfo, second |-> NoInfo]
    BY <1>2, TheInfoOf DEF Right
  <2>2. /\ [life EXCEPT !.first = m] = [first |-> m, second |-> NoInfo]
        /\ [life EXCEPT !.second = m] = [first |-> NoInfo, second |-> m]
    BY <2>1
  <2> QED
    BY <1>1, <1>2, <2>1, <2>2, TheInfoOf DEF Right, NoLife
<1>3. ASSUME NEW o, o # NoInfo, f = {}, s = {o}
      PROVE  /\ life # NoLife
             /\ Right(NoLife, Append(lines, [life EXCEPT !.first = m]), {m}, s, a)
  <2>1. lines = <<>> /\ life = [first |-> NoInfo, second |-> o]
    BY <1>3, TheInfoOf DEF Right
  <2>2. [life EXCEPT !.first = m] = [first |-> m, second |-> o] /\ life.second = o
        /\ NoLife.second = NoInfo
    BY <2>1 DEF NoLife
  <2>3. Append(lines, [life EXCEPT !.first = m]) = <<[first |-> m, second |-> o]>>
    BY <1>1, <2>1, <2>2
  <2> QED
    BY <1>3, <2>2, <2>3, TheInfoOf DEF Right
<1>4. ASSUME NEW o, o # NoInfo, f = {o}, s = {}
      PROVE  /\ life # NoLife
             /\ Right(NoLife, Append(lines, [life EXCEPT !.second = m]), f, {m}, a)
  <2>1. lines = <<>> /\ life = [first |-> o, second |-> NoInfo]
    BY <1>4, TheInfoOf DEF Right
  <2>2. [life EXCEPT !.second = m] = [first |-> o, second |-> m] /\ life.first = o
        /\ NoLife.first = NoInfo
    BY <2>1 DEF NoLife
  <2>3. Append(lines, [life EXCEPT !.second = m]) = <<[first |-> o, second |-> m]>>
    BY <1>1, <2>1, <2>2
  <2> QED
    BY <1>4, <2>2, <2>3, TheInfoOf DEF Right
<1> QED
  BY <1>2, <1>3, <1>4

\* Every block info is recorded right.
LEMMA RecordStep ==
  ASSUME Shape, ChannelInv, FlowInv, RecordedOnce, UpdateMeasureRecord
  PROVE  RecordedOnce'
<1> PICK m : m = Head(measureMsgBuf)
  OBVIOUS
<1>1. m \in Committed /\ m \notin Measured /\ Measured' = Measured \cup {m} /\ Measured \subseteq Committed
  BY TakesInfo DEF ChannelInv, Measured
<1>2. kind' = kind /\ blocks' = blocks
  BY DEF UpdateMeasureRecord, shardVars
<1>3. (\A x : BlockOf(x)' = BlockOf(x)) /\ Pairs' = Pairs /\ Singles' = Singles
      /\ Firsts' = Firsts /\ Seconds' = Seconds
  BY <1>2 DEF BlockOf, Pairs, Singles, Firsts, Seconds
<1>4. ASSUME NEW t \in Tx, NEW stages
      PROVE  SeenIn(t, stages)' = SeenIn(t, stages) \cup
               (IF \E st \in stages : <<m, st>> \in Held(t) THEN {m} ELSE {})
  <2>1. SeenIn(t, stages)' =
          {x \in Measured \cup {m} : \E c \in Range(BlockOf(x).txs) : c.tx = t /\ c.stage \in stages}
    BY <1>1, <1>3 DEF SeenIn
  <2>2. (\E c \in Range(BlockOf(m).txs) : c.tx = t /\ c.stage \in stages)
           <=> \E st \in stages : <<m, st>> \in Held(t)
    <3>1. ASSUME NEW c \in Range(BlockOf(m).txs), c.tx = t, c.stage \in stages
          PROVE  <<m, c.stage>> \in Held(t)
      <4>1. c = [tx |-> t, stage |-> c.stage] /\ c.stage \in Stage
        BY <1>1, <3>1, CommittedFields
      <4> QED
        BY <1>1, <3>1, <4>1 DEF Held
    <3>2. ASSUME NEW st \in stages, <<m, st>> \in Held(t)
          PROVE  [tx |-> t, stage |-> st] \in Range(BlockOf(m).txs)
      BY <3>2 DEF Held
    <3> QED
      BY <3>1, <3>2
  <2> QED
    BY <2>1, <2>2 DEF SeenIn
<1>5. ASSUME NEW t \in Tx
      PROVE  Right(txLifecycles'[t], detail'[t],
                   SeenIn(t, Firsts)', SeenIn(t, Seconds)', SeenIn(t, Singles)')
  <2> DEFINE H == Held(t)
             f == SeenIn(t, Firsts)
             s == SeenIn(t, Seconds)
             a == SeenIn(t, Singles)
             life == txLifecycles[t]
             lines == detail[t]
  <2>1. Right(life, lines, f, s, a)
    BY RecordedIsRight
  <2>2. life \in LifeCycle /\ lines \in Seq(LifeCycle)
    BY DEF Shape
  <2>3. m # NoInfo /\ \A o \in Measured : o # NoInfo /\ o # m
    BY <1>1, CommittedFields
  <2>4. /\ f = {x \in Measured : \E st \in Firsts : <<x, st>> \in H}
        /\ s = {x \in Measured : \E st \in Seconds : <<x, st>> \in H}
        /\ a = {x \in Measured : \E st \in Singles : <<x, st>> \in H}
    BY SeenIsHeld
  <2>5. /\ \A p, q \in H : p[1] = q[1] \/ p[2] = q[2] => p = q
        /\ \A p, q \in H : p # q => \/ {p[2], q[2]} = {"relay1", "relay2"}
                                    \/ {p[2], q[2]} = {"broker1", "broker2"}
        /\ \A p \in H : p[2] \in Stage /\ (p[2] \in {"broker1", "broker2"} => kind = "broker")
    BY HeldForms
  <2>6. /\ SeenIn(t, Firsts)' = f \cup (IF \E st \in Firsts : <<m, st>> \in H THEN {m} ELSE {})
        /\ SeenIn(t, Seconds)' = s \cup (IF \E st \in Seconds : <<m, st>> \in H THEN {m} ELSE {})
        /\ SeenIn(t, Singles)' = a \cup (IF \E st \in Singles : <<m, st>> \in H THEN {m} ELSE {})
    <3>1. SeenIn(t, Firsts)' = f \cup (IF \E st \in Firsts : <<m, st>> \in H THEN {m} ELSE {})
      <4> PICK stages : stages = Firsts
        OBVIOUS
      <4>1. SeenIn(t, Firsts)' = SeenIn(t, stages)'
        BY <1>3 DEF SeenIn
      <4>2. SeenIn(t, Firsts) = SeenIn(t, stages)
        OBVIOUS
      <4> QED
        BY <1>4, <4>1, <4>2
    <3>2. SeenIn(t, Seconds)' = s \cup (IF \E st \in Seconds : <<m, st>> \in H THEN {m} ELSE {})
      <4> PICK stages : stages = Seconds
        OBVIOUS
      <4>1. SeenIn(t, Seconds)' = SeenIn(t, stages)'
        BY <1>3 DEF SeenIn
      <4>2. SeenIn(t, Seconds) = SeenIn(t, stages)
        OBVIOUS
      <4> QED
        BY <1>4, <4>1, <4>2
    <3>3. SeenIn(t, Singles)' = a \cup (IF \E st \in Singles : <<m, st>> \in H THEN {m} ELSE {})
      <4> PICK stages : stages = Singles
        OBVIOUS
      <4>1. SeenIn(t, Singles)' = SeenIn(t, stages)'
        BY <1>3 DEF SeenIn
      <4>2. SeenIn(t, Singles) = SeenIn(t, stages)
        OBVIOUS
      <4> QED
        BY <1>4, <4>1, <4>2
    <3> QED
      BY <3>1, <3>2, <3>3
  <2>7. \A x, y : (<<x, y>>[1] = x /\ <<x, y>>[2] = y)
    OBVIOUS
  <2>8. \/ kind = "relay" /\ Firsts = {"relay1"} /\ Seconds = {"relay2"} /\ Singles = {"inner"}
           /\ Pairs = {"relay1", "relay2"}
        \/ kind = "broker" /\ Firsts = {"broker1"} /\ Seconds = {"broker2"}
           /\ Singles = {"inner", "relay2"} /\ Pairs = {"broker1", "broker2"}
    BY DEF Firsts, Seconds, Pairs, Singles, Shape
  <2>9. \/ \E st : <<m, st>> \in H
        \/ \A st : <<m, st>> \notin H
    OBVIOUS
  <2>10. ASSUME NEW st, <<m, st>> \in H
         PROVE  /\ \A x : <<m, x>> \in H => x = st
                /\ \A o, x : o # m /\ <<o, x>> \in H =>
                      {st, x} = {"relay1", "relay2"} \/ {st, x} = {"broker1", "broker2"}
                /\ \A o, x, q, y : o # m /\ q # m /\ <<o, x>> \in H /\ <<q, y>> \in H => o = q
    <3> HIDE DEF H
    <3>1. ASSUME NEW x, <<m, x>> \in H PROVE x = st
      BY <2>5, <2>10, <3>1
    <3>2. ASSUME NEW o, NEW x, o # m, <<o, x>> \in H
          PROVE  {st, x} = {"relay1", "relay2"} \/ {st, x} = {"broker1", "broker2"}
      BY <2>5, <2>10, <3>2
    <3>3. ASSUME NEW o, NEW x, NEW q, NEW y, o # m, q # m, <<o, x>> \in H, <<q, y>> \in H
          PROVE  o = q
      <4>1. {st, x} = {"relay1", "relay2"} \/ {st, x} = {"broker1", "broker2"}
        BY <3>2, <3>3
      <4>2. {st, y} = {"relay1", "relay2"} \/ {st, y} = {"broker1", "broker2"}
        BY <3>2, <3>3
      <4>3. x = y
        BY <4>1, <4>2
      <4>4. <<o, x>> = <<q, y>>
        BY <2>5, <3>3, <4>3
      <4> QED
        BY <4>4
    <3> QED
      BY <3>1, <3>2, <3>3
  <2> HIDE DEF H, f, s, a, life, lines
  <2>11. CASE \A st \in Pairs \cup Singles : <<m, st>> \notin H
    <3>1. txLifecycles'[t] = life /\ detail'[t] = lines
      BY <2>11, UpdateEffect DEF life, lines, H
    <3>2. SeenIn(t, Firsts)' = f /\ SeenIn(t, Seconds)' = s /\ SeenIn(t, Singles)' = a
      BY <2>6, <2>8, <2>11
    <3> QED
      BY <2>1, <3>1, <3>2
  <2>12. ASSUME NEW st \in Singles, <<m, st>> \in H
         PROVE  Right(txLifecycles'[t], detail'[t],
                      SeenIn(t, Firsts)', SeenIn(t, Seconds)', SeenIn(t, Singles)')
    <3>1. \A o, x : o # m => <<o, x>> \notin H \/ x \notin Firsts \cup Seconds \cup Singles
      BY <2>8, <2>10, <2>12
    <3>2. f = {} /\ s = {} /\ a = {}
      BY <2>3, <2>4, <3>1
    <3>3. /\ SeenIn(t, Firsts)' = {} /\ SeenIn(t, Seconds)' = {} /\ SeenIn(t, Singles)' = {m}
      BY <2>6, <2>8, <2>10, <2>12, <3>2
    <3>4. txLifecycles'[t] = life /\ detail'[t] = Append(lines, [NoLife EXCEPT !.second = m])
      BY <2>12, UpdateEffect DEF life, lines, H
    <3>5. Right(life, Append(lines, [NoLife EXCEPT !.second = m]), f, s, {m})
      BY <2>1, <2>2, <2>3, <3>2, RightStep
    <3> QED
      BY <3>2, <3>3, <3>4, <3>5
  <2>13. ASSUME NEW st \in Pairs, <<m, st>> \in H
         PROVE  Right(txLifecycles'[t], detail'[t],
                      SeenIn(t, Firsts)', SeenIn(t, Seconds)', SeenIn(t, Singles)')
    <3> DEFINE filled == IF st \in {"relay1", "broker1"} THEN [life EXCEPT !.first = m]
                                                         ELSE [life EXCEPT !.second = m]
    <3>1. IF life = NoLife THEN txLifecycles'[t] = filled /\ detail'[t] = lines
                           ELSE txLifecycles'[t] = NoLife /\ detail'[t] = Append(lines, filled)
      BY <2>13, UpdateEffect DEF life, lines, H
    <3>2. a = {} /\ SeenIn(t, Singles)' = {}
      <4>1. \A o, x : x \in Singles => <<o, x>> \notin H
        BY <2>8, <2>10, <2>13
      <4> QED
        BY <2>4, <2>6, <4>1
    <3>3. CASE st \in Firsts
      <4>1. f = {} /\ SeenIn(t, Firsts)' = {m} /\ SeenIn(t, Seconds)' = s
        <5>1. \A o, x : x \in Firsts /\ <<o, x>> \in H => o = m
          BY <2>8, <2>10, <2>13, <3>3
        <5>2. \A x \in Seconds : <<m, x>> \notin H
          BY <2>8, <2>10, <2>13, <3>3
        <5> QED
          BY <2>3, <2>4, <2>6, <2>13, <3>3, <5>1, <5>2
      <4>2. s = {} \/ \E o : s = {o} /\ o # NoInfo
        <5>1. \A o \in s : o # m /\ o # NoInfo /\ \E x : <<o, x>> \in H
          BY <2>3, <2>4
        <5>2. \A o, q \in s : o = q
          BY <2>10, <2>13, <5>1
        <5>3. ASSUME NEW o \in s PROVE s = {o}
          BY <5>2, Zenon
        <5> QED
          BY <5>1, <5>3
      <4>3. filled = [life EXCEPT !.first = m]
        BY <2>8, <3>3
      <4>4. s = {} => life = NoLife /\ Right([life EXCEPT !.first = m], lines, {m}, s, a)
        BY <2>1, <2>2, <2>3, <3>2, <4>1, RightStep
      <4>5. s # {} => /\ life # NoLife
                      /\ Right(NoLife, Append(lines, [life EXCEPT !.first = m]), {m}, s, a)
        <5>1. ASSUME NEW o, s = {o}, o # NoInfo
              PROVE  /\ life # NoLife
                     /\ Right(NoLife, Append(lines, [life EXCEPT !.first = m]), {m}, s, a)
          BY <2>1, <2>2, <2>3, <3>2, <4>1, <5>1, RightStep
        <5> QED
          BY <4>2, <5>1
      <4> HIDE DEF filled
      <4> QED
        BY <3>1, <3>2, <4>1, <4>3, <4>4, <4>5
    <3>4. CASE st \in Seconds
      <4>1. s = {} /\ SeenIn(t, Seconds)' = {m} /\ SeenIn(t, Firsts)' = f
        <5>1. \A o, x : x \in Seconds /\ <<o, x>> \in H => o = m
          BY <2>8, <2>10, <2>13, <3>4
        <5>2. \A x \in Firsts : <<m, x>> \notin H
          BY <2>8, <2>10, <2>13, <3>4
        <5> QED
          BY <2>3, <2>4, <2>6, <2>13, <3>4, <5>1, <5>2
      <4>2. f = {} \/ \E o : f = {o} /\ o # NoInfo
        <5>1. \A o \in f : o # m /\ o # NoInfo /\ \E x : <<o, x>> \in H
          BY <2>3, <2>4
        <5>2. \A o, q \in f : o = q
          BY <2>10, <2>13, <5>1
        <5>3. ASSUME NEW o \in f PROVE f = {o}
          BY <5>2, Zenon
        <5> QED
          BY <5>1, <5>3
      <4>3. filled = [life EXCEPT !.second = m]
        BY <2>8, <3>4
      <4>4. f = {} => life = NoLife /\ Right([life EXCEPT !.second = m], lines, f, {m}, a)
        BY <2>1, <2>2, <2>3, <3>2, <4>1, RightStep
      <4>5. f # {} => /\ life # NoLife
                      /\ Right(NoLife, Append(lines, [life EXCEPT !.second = m]), f, {m}, a)
        BY <2>1, <2>2, <2>3, <3>2, <4>1, <4>2, RightStep
      <4> HIDE DEF filled
      <4> QED
        BY <3>1, <3>2, <4>1, <4>3, <4>4, <4>5
    <3> QED
      BY <2>8, <2>13, <3>3, <3>4
  <2> QED
    BY <2>11, <2>12, <2>13
<1>6. \A t \in Tx : Right(txLifecycles'[t], detail'[t],
                          SeenIn(t, Firsts)', SeenIn(t, Seconds)', SeenIn(t, Singles)')
  BY <1>5
<1>7. RecordedOnce' <=> (\A t \in Tx : Right(txLifecycles[t], detail[t],
                     SeenIn(t, Firsts), SeenIn(t, Seconds), SeenIn(t, Singles)))'
  BY RecordedIsRight, PTL
<1> QED
  BY <1>6, <1>7 DEF Right, TheInfo

\* UpdateMeasureRecord keeps the invariant.
LEMMA UpdateKeeps ==
  ASSUME ReportInv, UpdateMeasureRecord
  PROVE  ReportInv'
<1> USE DEF ReportInv
<1>1. /\ sub = "run"
      /\ UNCHANGED <<kind, shardVars, net, main, msgList, handled, sub, brief>>
  BY DEF UpdateMeasureRecord
<1>2. Shape'
  <2>1. \A t \in Tx : txLifecycles'[t] \in LifeCycle /\ detail'[t] \in Seq(LifeCycle)
    BY UpdateEffect
  <2>2. txLifecycles' \in [Tx -> LifeCycle] /\ detail' \in [Tx -> Seq(LifeCycle)]
    <3>1. /\ txLifecycles' = [t \in Tx |-> txLifecycles'[t]]
          /\ detail' = [t \in Tx |-> detail'[t]]
      BY DEF UpdateMeasureRecord
    <3> QED
      BY <2>1, <3>1
  <2> QED
    BY <1>1, <2>2, TakesInfo, CountStep DEF Shape, shardVars
<1>3. ChannelInv'
  BY <1>1, TakesInfo DEF ChannelInv, Committed, shardVars
<1>4. FlowInv'
  BY <1>1, FlowSame DEF shardVars
<1> QED
  BY <1>2, <1>3, <1>4, CountStep, RecordStep

\* Every step keeps the invariant.
LEMMA ReportNext == ReportInv /\ [Next]_vars => ReportInv'
<1> SUFFICES ASSUME ReportInv, [Next]_vars PROVE ReportInv'
  OBVIOUS
<1>1. ASSUME NEW s \in Shard, CommitBlock(s) PROVE ReportInv'
  BY <1>1, CommitKeeps
<1>2. CASE Repartition
  BY <1>2, RepartitionKeeps
<1>3. ASSUME NEW m \in net, HandleMsg(m) PROVE ReportInv'
  BY <1>3, HandleKeeps
<1>4. CASE UpdateMeasureRecord
  BY <1>4, UpdateKeeps
<1>5. CASE \/ DrainMsgBuffer \/ CloseMeasureMsgBuf \/ MeasureDone \/ OutputResultAndClose
           \/ UNCHANGED vars
  BY <1>5, EndKeeps
<1> QED
  BY <1>1, <1>2, <1>3, <1>4, <1>5 DEF Next, Environment, Main, Sub

\* Whatever blocks shards commit and wherever repartitions fall, and in
\* whatever order the infos arrive: a transfer has a line when both of its
\* halves have been measured, one line, with the right blocks, and only half
\* measured transfers stay in memory.
THEOREM AlwaysRecordedOnce == Spec => []RecordedOnce
<1>1. ReportInv => RecordedOnce
  BY DEF ReportInv
<1> QED
  BY <1>1, ReportInit, ReportNext, PTL DEF Spec

\* For any capacity of the channel: what is written at the end has counted
\* every transaction of every block info that was handed over.
THEOREM OutputAlwaysComplete == Spec => []OutputComplete
<1>1. ReportInv => OutputComplete
  <2> SUFFICES ASSUME ReportInv, main = "stopped"
               PROVE  \A e \in Epoch : \A st \in Pairs \cup Singles :
                        brief[e][st] = Cardinality(CountedIn(handled, e, st))
    BY DEF OutputComplete, CountedIn
  <2>1. brief = txNum /\ measureMsgBuf = <<>>
    BY DEF ReportInv, ChannelInv
  <2>2. Measured = handled
    BY <2>1 DEF Measured, Range
  <2> QED
    BY <2>1, <2>2 DEF ReportInv, CountInv
<1> QED
  BY <1>1, ReportInit, ReportNext, PTL DEF Spec

-----------------------------------------------------------------------------
(***************************************************************************)
(* The ledgers.  A ledger is a fold over all transactions in the order of  *)
(* their times, an account's trail is what it has executed.  Both list the *)
(* transactions of the account in the same order, and that determines the  *)
(* rows.  First, folds one step at a time.                                 *)
(***************************************************************************)

\* A fold from left to right: the steps st[1] .. st[k] applied to b, for every
\* set of step numbers.
FoldsTo(f, k, st, b) ==
    f = [s \in SUBSET (1 .. k) |-> IF s = {} THEN b ELSE st[Max(s)][f[s \ {Max(s)}]]]

\* The greatest number of a set of numbers up to k.
LEMMA MaxUpTo ==
  ASSUME NEW k \in Nat, NEW s \in SUBSET (1 .. k), s # {}
  PROVE  /\ Max(s) \in s /\ \A y \in s : y <= Max(s)
         /\ k \in s => Max(s) = k
<1>1. IsFiniteSet(s)
  <2>1. IsFiniteSet(1 .. k)
    BY FS_Interval
  <2> QED
    BY <2>1, FS_Subset
<1>2. s \in SUBSET Nat
  OBVIOUS
<1>3. \E x \in s : \A y \in s : y <= x
  BY <1>1, <1>2, GreatestElement
<1>4. \E x \in s : \A y \in s : x >= y
  BY <1>2, <1>3
<1>5. Max(s) \in s /\ \A y \in s : Max(s) >= y
  BY <1>4 DEF Max
<1> DEFINE x == Max(s)
<1>6. x \in s /\ \A y \in s : x >= y
  BY <1>5
<1> HIDE DEF x
<1>7. \A y \in s : y <= x
  BY <1>2, <1>6
<1>8. k \in s => x = k
  <2>1. x \in 1 .. k /\ (k \in s => x >= k)
    BY <1>6
  <2> QED
    BY <2>1
<1> QED
  BY <1>6, <1>7, <1>8 DEF x

\* What holds of 0, and of k if it does of k - 1, holds up to n.
LEMMA CountUp ==
  ASSUME NEW n \in Nat, NEW G, 0 \in G, \A k \in 1 .. n : k - 1 \in G => k \in G
  PROVE  0 .. n \subseteq G
<1> DEFINE Below == {k \in 0 .. n : 0 .. k \subseteq G}
<1>1. IsFiniteSet(Below) /\ Below \in SUBSET Nat /\ Below # {}
  <2>1. IsFiniteSet(0 .. n)
    BY FS_Interval
  <2>2. 0 \in Below
    OBVIOUS
  <2> QED
    BY <2>1, <2>2, FS_Subset
<1>2. \A k \in Below : k \in 0 .. n /\ 0 .. k \subseteq G
  OBVIOUS
<1>3. \A k \in 0 .. n : 0 .. k \subseteq G => k \in Below
  OBVIOUS
<1> HIDE DEF Below
<1>4. PICK k \in Below : \A j \in Below : j <= k
  BY <1>1, GreatestElement
<1>5. CASE k = n
  BY <1>2, <1>5
<1>6. CASE k # n
  <2>1. k + 1 \in 1 .. n /\ k + 1 \in 0 .. n /\ (k + 1) - 1 = k /\ k \in 0 .. k
    BY <1>2, <1>6
  <2>2. k + 1 \in G
    BY <1>2, <2>1
  <2>3. 0 .. (k + 1) \subseteq G
    <3>1. \A j \in 0 .. (k + 1) : j \in 0 .. k \/ j = k + 1
      BY <2>1
    <3> QED
      BY <1>2, <2>2, <3>1
  <2>4. k + 1 \in Below
    BY <1>3, <2>1, <2>3
  <2> QED
    BY <1>2, <1>4, <2>4
<1> QED
  BY <1>5, <1>6

\* The function that a fold defines exists.
LEMMA FoldExists ==
  ASSUME NEW V, NEW b \in V, NEW n \in Nat, NEW st \in [1 .. n -> [V -> V]]
  PROVE  \E f \in [SUBSET (1 .. n) -> V] : FoldsTo(f, n, st, b)
<1> DEFINE Has(k) == \E f \in [SUBSET (1 .. k) -> V] : FoldsTo(f, k, st, b)
           G == {k \in 0 .. n : Has(k)}
<1>1. Has(0)
  <2> DEFINE f == [s \in SUBSET (1 .. 0) |-> b]
  <2>1. f \in [SUBSET (1 .. 0) -> V]
    OBVIOUS
  <2>2. \A s \in SUBSET (1 .. 0) : s = {}
    OBVIOUS
  <2>3. FoldsTo(f, 0, st, b)
    BY <2>2 DEF FoldsTo
  <2> QED
    BY <2>1, <2>3
<1>2. ASSUME NEW k \in 1 .. n, Has(k - 1) PROVE Has(k)
  <2>1. PICK f \in [SUBSET (1 .. (k - 1)) -> V] : FoldsTo(f, k - 1, st, b)
    BY <1>2
  <2> DEFINE g == [s \in SUBSET (1 .. k) |-> IF k \in s THEN st[k][f[s \ {k}]] ELSE f[s]]
  <2>2. ASSUME NEW s \in SUBSET (1 .. k) PROVE s \ {k} \in SUBSET (1 .. (k - 1))
    OBVIOUS
  <2>3. g \in [SUBSET (1 .. k) -> V]
    <3> SUFFICES ASSUME NEW s \in SUBSET (1 .. k)
                 PROVE  (IF k \in s THEN st[k][f[s \ {k}]] ELSE f[s]) \in V
      OBVIOUS
    <3>1. s \ {k} \in SUBSET (1 .. (k - 1))
      BY <2>2
    <3>2. CASE k \in s
      BY <3>1, <3>2
    <3>3. CASE k \notin s
      <4>1. s \ {k} = s
        BY <3>3
      <4> QED
        BY <3>1, <3>3, <4>1
    <3> QED
      BY <3>2, <3>3
  <2>4. ASSUME NEW s \in SUBSET (1 .. k)
        PROVE  g[s] = IF s = {} THEN b ELSE st[Max(s)][g[s \ {Max(s)}]]
    <3>1. s \ {k} \in SUBSET (1 .. (k - 1))
      BY <2>2
    <3>2. CASE k \in s
      <4>1. Max(s) = k /\ s # {}
        BY <3>2, MaxUpTo
      <4>2. g[s \ {k}] = f[s \ {k}]
        OBVIOUS
      <4> QED
        BY <3>2, <4>1, <4>2
    <3>3. CASE k \notin s
      <4>1. s \in SUBSET (1 .. (k - 1))
        <5>1. s \ {k} = s
          BY <3>3
        <5> QED
          BY <3>1, <5>1
      <4>2. g[s] = f[s]
        BY <3>3
      <4>3. f[s] = IF s = {} THEN b ELSE st[Max(s)][f[s \ {Max(s)}]]
        BY <2>1, <4>1 DEF FoldsTo
      <4>4. g[s \ {Max(s)}] = f[s \ {Max(s)}]
        BY <3>3
      <4> QED
        BY <4>2, <4>3, <4>4
    <3> QED
      BY <3>2, <3>3
  <2>5. FoldsTo(g, k, st, b)
    BY <2>4 DEF FoldsTo
  <2> QED
    BY <2>3, <2>5
<1> HIDE DEF Has
<1>3. 0 .. n \subseteq G
  <2>1. 0 \in G
    BY <1>1
  <2>2. ASSUME NEW k \in 1 .. n, k - 1 \in G PROVE k \in G
    BY <1>2, <2>2
  <2> HIDE DEF G
  <2> QED
    BY <2>1, <2>2, CountUp
<1>4. n \in 0 .. n
  OBVIOUS
<1> QED
  BY <1>3, <1>4 DEF Has

\* The rows of all accounts.
Row  == [tx : Tx, balance : Int]
Rows == [Account -> Seq(Row)]

\* What a transaction adds to the rows of one account, given the accounts
\* it debits and credits.
AddTo(moves, c, debit, credit, a) ==
    LET out == IF a \in debit
               THEN Append(moves, [tx |-> c.tx, balance |-> LastBalance(moves) + (0 - Value[c.tx])])
               ELSE moves
    IN  IF a \in credit
        THEN Append(out, [tx |-> c.tx, balance |-> LastBalance(out) + Value[c.tx]])
        ELSE out

\* Moves of rows are moves of each account's rows.
LEMMA MovedTyped ==
  ASSUME NEW rows \in Rows, NEW accounts, NEW t \in Tx, NEW amount \in Int
  PROVE  Moved(rows, accounts, t, amount) \in Rows
<1> SUFFICES ASSUME NEW a \in Account, a \in accounts
             PROVE  Append(rows[a], [tx |-> t, balance |-> LastBalance(rows[a]) + amount]) \in Seq(Row)
  BY DEF Moved, Rows
<1> DEFINE q == rows[a]
<1>1. q \in Seq(Row)
  BY DEF Rows
<1> HIDE DEF q
<1>2. LastBalance(q) \in Int
  <2>1. CASE q = <<>>
    BY <2>1, MeasureAssumption DEF LastBalance
  <2>2. CASE q # <<>>
    <3>1. Len(q) \in DOMAIN q
      BY <1>1, <2>2
    <3>2. q[Len(q)] \in Row
      BY <1>1, <3>1
    <3> QED
      BY <2>2, <3>2 DEF LastBalance, Row
  <2> QED
    BY <2>1, <2>2
<1>3. [tx |-> t, balance |-> LastBalance(q) + amount] \in Row
  BY <1>2 DEF Row
<1> QED
  BY <1>1, <1>3 DEF q

LEMMA TwoMoves ==
  ASSUME NEW rows \in Rows, NEW c \in [tx : Tx, stage : Stage], NEW debit, NEW credit
  PROVE  LET both == Moved(Moved(rows, debit, c.tx, 0 - Value[c.tx]), credit, c.tx, Value[c.tx])
         IN  /\ both \in Rows
             /\ \A a \in Account : both[a] = AddTo(rows[a], c, debit, credit, a)
<1>1. c.tx \in Tx /\ Value[c.tx] \in Int /\ 0 - Value[c.tx] \in Int
  <2>1. c.tx \in Tx /\ Value[c.tx] \in Nat
    BY MeasureAssumption
  <2> QED
    BY <2>1
<1> DEFINE one == Moved(rows, debit, c.tx, 0 - Value[c.tx])
<1>2. one \in Rows
  BY <1>1, MovedTyped
<1>3. Moved(one, credit, c.tx, Value[c.tx]) \in Rows
  BY <1>1, <1>2, MovedTyped
<1>4. ASSUME NEW a \in Account
      PROVE  Moved(one, credit, c.tx, Value[c.tx])[a] = AddTo(rows[a], c, debit, credit, a)
  BY DEF Moved, AddTo
<1> QED
  BY <1>3, <1>4

\* Execution of the transactions of a block, one by one.
LEMMA ExecuteSteps ==
  ASSUME NEW old \in Rows, NEW n \in Nat,
         NEW txs \in [1 .. n -> [tx : Tx, stage : Stage]]
  PROVE  \E F \in [0 .. n -> Rows] :
           /\ F[0] = old /\ F[n] = FoldLeft(Execute, old, txs)
           /\ \A i \in 1 .. n : F[i] = Execute(F[i - 1], txs[i])
<1> DEFINE Folds(h) == h = [s \in SUBSET DOMAIN txs |->
                              IF s = {} THEN old ELSE Execute(h[s \ {Max(s)}], txs[Max(s)])]
           iter == CHOOSE h : Folds(h)
           st == [i \in 1 .. n |-> [v \in Rows |-> Execute(v, txs[i])]]
<1>1. FoldLeft(Execute, old, txs) = iter[DOMAIN txs]
  BY DEF FoldLeft, MapThenFoldSet
<1>2. DOMAIN txs = 1 .. n
  OBVIOUS
<1>3. st \in [1 .. n -> [Rows -> Rows]]
  <2>1. ASSUME NEW i \in 1 .. n, NEW v \in Rows PROVE Execute(v, txs[i]) \in Rows
    BY TwoMoves DEF Execute
  <2> QED
    BY <2>1
<1>4. PICK g \in [SUBSET (1 .. n) -> Rows] : FoldsTo(g, n, st, old)
  <2> HIDE DEF st
  <2> QED
    BY <1>3, FoldExists
<1>5. ASSUME NEW s \in SUBSET (1 .. n)
      PROVE  g[s] = IF s = {} THEN old ELSE Execute(g[s \ {Max(s)}], txs[Max(s)])
  <2>1. g[s] = IF s = {} THEN old ELSE st[Max(s)][g[s \ {Max(s)}]]
    <3> HIDE DEF st
    <3> QED
      BY <1>4 DEF FoldsTo
  <2>2. CASE s # {}
    <3>1. Max(s) \in 1 .. n
      BY <2>2, MaxUpTo
    <3>2. g[s \ {Max(s)}] \in Rows
      OBVIOUS
    <3> QED
      BY <2>1, <2>2, <3>1, <3>2
  <2> QED
    BY <2>1, <2>2
<1>6. Folds(g)
  <2>1. g = [s \in SUBSET (1 .. n) |-> g[s]]
    OBVIOUS
  <2> QED
    BY <1>2, <1>5, <2>1
<1>7. Folds(iter)
  BY <1>6
<1> HIDE DEF iter
<1>8. PICK h : Folds(h) /\ FoldLeft(Execute, old, txs) = h[1 .. n]
  BY <1>1, <1>2, <1>7
<1> DEFINE F == [i \in 0 .. n |-> h[1 .. i]]
<1>9. F[0] = old
  <2>1. 1 .. 0 = {} /\ {} \in SUBSET (1 .. n)
    OBVIOUS
  <2> QED
    BY <1>2, <1>8, <2>1
<1>10. ASSUME NEW i \in 1 .. n PROVE F[i] = Execute(F[i - 1], txs[i])
  <2>1. i \in Nat /\ 1 .. i \in SUBSET (1 .. n) /\ i \in 1 .. i
    OBVIOUS
  <2>2. Max(1 .. i) = i
    BY <2>1, MaxUpTo
  <2>3. (1 .. i) \ {i} = 1 .. (i - 1) /\ 1 .. i # {}
    <3>1. \A j \in 1 .. i : j # i => j \in 1 .. (i - 1)
      BY <2>1
    <3>2. \A j \in 1 .. (i - 1) : j # i /\ j \in 1 .. i
      BY <2>1
    <3> QED
      BY <2>1, <3>1, <3>2
  <2>4. h[1 .. i] = Execute(h[(1 .. i) \ {Max(1 .. i)}], txs[Max(1 .. i)])
    BY <1>2, <1>8, <2>1, <2>3
  <2>5. F[i] = h[1 .. i] /\ F[i - 1] = h[1 .. (i - 1)]
    <3>1. i \in 0 .. n /\ i - 1 \in 0 .. n
      OBVIOUS
    <3> QED
      BY <3>1
  <2> QED
    BY <2>2, <2>3, <2>4, <2>5
<1>11. F[n] = FoldLeft(Execute, old, txs)
  BY <1>8
<1> HIDE DEF F
<1>12. \A i \in 0 .. n : F[i] \in Rows
  <2> DEFINE G == {i \in 0 .. n : F[i] \in Rows}
  <2>1. 0 \in G
    BY <1>9
  <2>2. ASSUME NEW k \in 1 .. n, k - 1 \in G PROVE k \in G
    <3>1. F[k] = Execute(F[k - 1], txs[k]) /\ txs[k] \in [tx : Tx, stage : Stage] /\ k \in 0 .. n
      BY <1>10
    <3>2. Execute(F[k - 1], txs[k]) \in Rows
      BY <2>2, <3>1, TwoMoves DEF Execute
    <3> QED
      BY <3>1, <3>2
  <2>3. 0 .. n \subseteq G
    <3> HIDE DEF G
    <3> QED
      BY <2>1, <2>2, CountUp
  <2> QED
    BY <2>3
<1>13. F \in [0 .. n -> Rows]
  BY <1>12 DEF F
<1> QED
  BY <1>9, <1>10, <1>11, <1>13

\* A transaction with its place in the blocks.
Ref == [shard : Shard, height : Nat, index : Nat, time : Nat, tx : [tx : Tx, stage : Stage]]

\* The pass over the sorted transactions, one by one.
LEMMA AddRowsSteps ==
  ASSUME NEW old \in Rows, NEW n \in Nat,
         NEW refs \in [1 .. n -> Ref]
  PROVE  \E F \in [0 .. n -> Rows] :
           /\ F[0] = old /\ F[n] = FoldLeft(AddRows, old, refs)
           /\ \A i \in 1 .. n : F[i] = AddRows(F[i - 1], refs[i])
<1> DEFINE Folds(h) == h = [s \in SUBSET DOMAIN refs |->
                              IF s = {} THEN old ELSE AddRows(h[s \ {Max(s)}], refs[Max(s)])]
           iter == CHOOSE h : Folds(h)
           st == [i \in 1 .. n |-> [v \in Rows |-> AddRows(v, refs[i])]]
<1>1. FoldLeft(AddRows, old, refs) = iter[DOMAIN refs]
  BY DEF FoldLeft, MapThenFoldSet
<1>2. DOMAIN refs = 1 .. n
  OBVIOUS
<1>3. st \in [1 .. n -> [Rows -> Rows]]
  <2>1. ASSUME NEW i \in 1 .. n, NEW v \in Rows PROVE AddRows(v, refs[i]) \in Rows
    BY TwoMoves DEF AddRows, Ref
  <2> QED
    BY <2>1
<1>4. PICK g \in [SUBSET (1 .. n) -> Rows] : FoldsTo(g, n, st, old)
  <2> HIDE DEF st
  <2> QED
    BY <1>3, FoldExists
<1>5. ASSUME NEW s \in SUBSET (1 .. n)
      PROVE  g[s] = IF s = {} THEN old ELSE AddRows(g[s \ {Max(s)}], refs[Max(s)])
  <2>1. g[s] = IF s = {} THEN old ELSE st[Max(s)][g[s \ {Max(s)}]]
    <3> HIDE DEF st
    <3> QED
      BY <1>4 DEF FoldsTo
  <2>2. CASE s # {}
    <3>1. Max(s) \in 1 .. n
      BY <2>2, MaxUpTo
    <3>2. g[s \ {Max(s)}] \in Rows
      OBVIOUS
    <3> QED
      BY <2>1, <2>2, <3>1, <3>2
  <2> QED
    BY <2>1, <2>2
<1>6. Folds(g)
  <2>1. g = [s \in SUBSET (1 .. n) |-> g[s]]
    OBVIOUS
  <2> QED
    BY <1>2, <1>5, <2>1
<1>7. Folds(iter)
  BY <1>6
<1> HIDE DEF iter
<1>8. PICK h : Folds(h) /\ FoldLeft(AddRows, old, refs) = h[1 .. n]
  BY <1>1, <1>2, <1>7
<1> DEFINE F == [i \in 0 .. n |-> h[1 .. i]]
<1>9. F[0] = old
  <2>1. 1 .. 0 = {} /\ {} \in SUBSET (1 .. n)
    OBVIOUS
  <2> QED
    BY <1>2, <1>8, <2>1
<1>10. ASSUME NEW i \in 1 .. n PROVE F[i] = AddRows(F[i - 1], refs[i])
  <2>1. i \in Nat /\ 1 .. i \in SUBSET (1 .. n) /\ i \in 1 .. i
    OBVIOUS
  <2>2. Max(1 .. i) = i
    BY <2>1, MaxUpTo
  <2>3. (1 .. i) \ {i} = 1 .. (i - 1) /\ 1 .. i # {}
    <3>1. \A j \in 1 .. i : j # i => j \in 1 .. (i - 1)
      BY <2>1
    <3>2. \A j \in 1 .. (i - 1) : j # i /\ j \in 1 .. i
      BY <2>1
    <3> QED
      BY <2>1, <3>1, <3>2
  <2>4. h[1 .. i] = AddRows(h[(1 .. i) \ {Max(1 .. i)}], refs[Max(1 .. i)])
    BY <1>2, <1>8, <2>1, <2>3
  <2>5. F[i] = h[1 .. i] /\ F[i - 1] = h[1 .. (i - 1)]
    <3>1. i \in 0 .. n /\ i - 1 \in 0 .. n
      OBVIOUS
    <3> QED
      BY <3>1
  <2> QED
    BY <2>2, <2>3, <2>4, <2>5
<1>11. F[n] = FoldLeft(AddRows, old, refs)
  BY <1>8
<1> HIDE DEF F
<1>12. \A i \in 0 .. n : F[i] \in Rows
  <2> DEFINE G == {i \in 0 .. n : F[i] \in Rows}
  <2>1. 0 \in G
    BY <1>9
  <2>2. ASSUME NEW k \in 1 .. n, k - 1 \in G PROVE k \in G
    <3>1. F[k] = AddRows(F[k - 1], refs[k]) /\ refs[k].tx \in [tx : Tx, stage : Stage] /\ k \in 0 .. n
      BY <1>10 DEF Ref
    <3>2. AddRows(F[k - 1], refs[k]) \in Rows
      BY <2>2, <3>1, TwoMoves DEF AddRows
    <3> QED
      BY <3>1, <3>2
  <2>3. 0 .. n \subseteq G
    <3> HIDE DEF G
    <3> QED
      BY <2>1, <2>2, CountUp
  <2> QED
    BY <2>3
<1>13. F \in [0 .. n -> Rows]
  BY <1>12 DEF F
<1> QED
  BY <1>9, <1>10, <1>11, <1>13

-----------------------------------------------------------------------------
(***************************************************************************)
(* The order of the transactions, and the rows that they determine.        *)
(***************************************************************************)

\* A set of references that Before puts in one order.
Chain(S) == S \subseteq Ref /\ \A q, r \in S : q = r \/ Before(q, r) \/ Before(r, q)

\* Before is an order.
LEMMA BeforeOrders ==
  /\ \A r \in Ref : ~Before(r, r)
  /\ \A q, r \in Ref : Before(q, r) => ~Before(r, q)
  /\ \A p, q, r \in Ref : Before(p, q) /\ Before(q, r) => Before(p, r)
<1> DEFINE P(r) == r.shard \in Int /\ r.height \in Int /\ r.index \in Int /\ r.time \in Int
<1>1. ASSUME NEW r \in Ref PROVE P(r)
  <2>1. r.shard \in Shard /\ r.height \in Nat /\ r.index \in Nat /\ r.time \in Nat
    BY DEF Ref
  <2>2. Shard \subseteq Nat
    BY MeasureAssumption
  <2>3. r.shard \in Nat
    BY <2>1, <2>2
  <2> QED
    BY <2>1, <2>3
<1>2. \A r : P(r) => ~Before(r, r)
  BY DEF Before
<1>3. \A q, r : P(q) /\ P(r) /\ Before(q, r) => ~Before(r, q)
  BY DEF Before
<1>4. \A p, q, r : P(p) /\ P(q) /\ P(r) /\ Before(p, q) /\ Before(q, r) => Before(p, r)
  BY DEF Before
<1> HIDE DEF P
<1> QED
  BY <1>1, <1>2, <1>3, <1>4

\* A finite order that is total has a last element.
LEMMA ChainEnd ==
  ASSUME NEW S, IsFiniteSet(S), S # {}, NEW R,
         \A x, y \in S : x = y \/ <<x, y>> \in R \/ <<y, x>> \in R,
         \A x, y, z \in S : <<x, y>> \in R /\ <<y, z>> \in R => <<x, z>> \in R
  PROVE  \E x \in S : \A y \in S : y = x \/ <<y, x>> \in R
<1> DEFINE Ends(T) == \E x \in T : \A y \in T : y = x \/ <<y, x>> \in R
           B == {T \in SUBSET S : T # {} /\ ~Ends(T)}
<1>1. SUFFICES ASSUME B # {} PROVE FALSE
  OBVIOUS
<1>2. IsWellFoundedOn(StrictSubsetOrdering(S), SUBSET S)
  BY FS_StrictSubsetOrderingWellFounded, FS_FiniteSubsetsOfFinite
<1>a. B \subseteq SUBSET S /\ B # {}
  BY <1>1
<1>3. PICK T \in B : \A U \in B : ~(<<U, T>> \in StrictSubsetOrdering(S))
  <2> HIDE DEF B
  <2> QED
    BY <1>a, <1>2, WFMin
<1>4. PICK x \in T : TRUE
  BY <1>3
<1>5. T # {x}
  BY <1>3, <1>4
<1> DEFINE U == T \ {x}
<1>6. U \in SUBSET S /\ U # {}
  BY <1>4, <1>5
<1>7. <<U, T>> \in StrictSubsetOrdering(S)
  BY <1>3, <1>4 DEF StrictSubsetOrdering
<1>8. Ends(U)
  BY <1>3, <1>6, <1>7
<1>9. PICK y \in U : \A z \in U : z = y \/ <<z, y>> \in R
  BY <1>8
<1>10. x \in S /\ y \in S /\ y \in T /\ \A z \in T : z \in S /\ (z = x \/ z \in U)
  BY <1>3, <1>4, <1>9
<1>11. CASE <<x, y>> \in R
  BY <1>3, <1>9, <1>10, <1>11
<1>12. CASE <<y, x>> \in R
  BY <1>3, <1>4, <1>9, <1>10, <1>12
<1>13. y # x
  OBVIOUS
<1> QED
  BY <1>10, <1>11, <1>12, <1>13

\* The last of a set of references.
Latest(S) == CHOOSE r \in S : \A q \in S : q = r \/ Before(q, r)

LEMMA LatestIs ==
  ASSUME NEW S, Chain(S), IsFiniteSet(S), S # {}
  PROVE  Latest(S) \in S /\ \A q \in S : q = Latest(S) \/ Before(q, Latest(S))
<1> DEFINE R == {p \in S \X S : Before(p[1], p[2])}
<1>1. \A x, y \in S : <<x, y>> \in R <=> Before(x, y)
  OBVIOUS
<1> HIDE DEF R
<1>2. \A x, y, z \in S : <<x, y>> \in R /\ <<y, z>> \in R => <<x, z>> \in R
  BY <1>1, BeforeOrders DEF Chain
<1>3. \A x, y \in S : x = y \/ <<x, y>> \in R \/ <<y, x>> \in R
  BY <1>1 DEF Chain
<1>4. \E x \in S : \A y \in S : y = x \/ <<y, x>> \in R
  BY <1>2, <1>3, ChainEnd, Zenon
<1>5. \E x \in S : \A y \in S : y = x \/ Before(y, x)
  BY <1>1, <1>4
<1> QED
  BY <1>5 DEF Latest

\* They have a first one, too.
LEMMA EarliestExists ==
  ASSUME NEW S, Chain(S), IsFiniteSet(S), S # {}
  PROVE  \E r \in S : \A q \in S : q = r \/ Before(r, q)
<1> DEFINE R == {p \in S \X S : Before(p[2], p[1])}
<1>1. \A x, y \in S : <<x, y>> \in R <=> Before(y, x)
  OBVIOUS
<1> HIDE DEF R
<1>2. \A x, y, z \in S : <<x, y>> \in R /\ <<y, z>> \in R => <<x, z>> \in R
  BY <1>1, BeforeOrders DEF Chain
<1>3. \A x, y \in S : x = y \/ <<x, y>> \in R \/ <<y, x>> \in R
  BY <1>1 DEF Chain
<1>4. \E x \in S : \A y \in S : y = x \/ <<y, x>> \in R
  BY <1>2, <1>3, ChainEnd, Zenon
<1> QED
  BY <1>1, <1>4

\* What execution of a reference adds to the rows of an account.
Add(moves, r, a) == AddTo(moves, r.tx, Debited(r.tx), Credited(r.tx), a)

\* The references of S before r, and the rows after the last one of S, given
\* the rows after each.
Earlier(S, r) == {q \in S : Before(q, r)}
After(H, S)   == IF S = {} THEN <<>> ELSE H[Latest(S)]

\* The rows of account a are those of the references S, in their order.
Recounts(H, S, a) == H = [r \in S |-> Add(After(H, Earlier(S, r)), r, a)]
Listed(S, a, moves) == \E H : Recounts(H, S, a) /\ moves = After(H, S)

\* Nothing is listed of no references.
LEMMA ListedNone == ASSUME NEW a PROVE Listed({}, a, <<>>)
<1> DEFINE H == [r \in {} |-> <<>>]
<1>1. Recounts(H, {}, a)
  BY DEF Recounts
<1>2. After(H, {}) = <<>>
  BY DEF After
<1> QED
  BY <1>1, <1>2 DEF Listed

LEMMA SubChain ==
  ASSUME NEW S, Chain(S), IsFiniteSet(S), NEW T \in SUBSET S
  PROVE  Chain(T) /\ IsFiniteSet(T)
BY FS_Subset DEF Chain

\* One more reference, after all others.
LEMMA ListedMore ==
  ASSUME NEW S, Chain(S), IsFiniteSet(S), NEW r \in Ref, \A q \in S : Before(q, r),
         NEW a, NEW moves, Listed(S, a, moves)
  PROVE  /\ Chain(S \cup {r}) /\ IsFiniteSet(S \cup {r})
         /\ Listed(S \cup {r}, a, Add(moves, r, a))
<1> DEFINE T == S \cup {r}
<1>1. Chain(T) /\ IsFiniteSet(T)
  BY FS_AddElement DEF Chain
<1>2. r \notin S
  BY BeforeOrders
<1>3. PICK H : Recounts(H, S, a) /\ moves = After(H, S)
  BY DEF Listed
<1> DEFINE G == [x \in T |-> IF x = r THEN Add(moves, r, a) ELSE H[x]]
<1>4. ASSUME NEW U \in SUBSET S PROVE After(G, U) = After(H, U)
  <2>1. CASE U = {}
    BY <2>1 DEF After
  <2>2. CASE U # {}
    <3>1. Latest(U) \in U
      BY <2>2, SubChain, LatestIs
    <3>2. G[Latest(U)] = H[Latest(U)]
      BY <1>2, <3>1
    <3> QED
      BY <2>2, <3>2 DEF After
  <2> QED
    BY <2>1, <2>2
<1>5. Earlier(T, r) = S
  BY BeforeOrders DEF Earlier
<1>6. ASSUME NEW x \in S PROVE Earlier(T, x) = Earlier(S, x)
  <2>1. ~Before(r, x)
    BY BeforeOrders DEF Chain
  <2> QED
    BY <2>1 DEF Earlier
<1>7. ASSUME NEW x \in T PROVE G[x] = Add(After(G, Earlier(T, x)), x, a)
  <2>1. CASE x = r
    <3>1. G[r] = Add(moves, r, a)
      OBVIOUS
    <3>2. After(G, Earlier(T, r)) = moves
      BY <1>3, <1>4, <1>5
    <3> QED
      BY <2>1, <3>1, <3>2
  <2>2. CASE x # r
    <3>1. x \in S /\ G[x] = H[x]
      BY <2>2
    <3>2. H[x] = Add(After(H, Earlier(S, x)), x, a)
      BY <1>3, <3>1 DEF Recounts
    <3>3. Earlier(S, x) \in SUBSET S
      BY DEF Earlier
    <3> QED
      BY <1>4, <1>6, <3>1, <3>2, <3>3
  <2> QED
    BY <2>1, <2>2
<1>8. Recounts(G, T, a)
  <2>1. G = [x \in T |-> G[x]]
    OBVIOUS
  <2> HIDE DEF G
  <2> QED
    BY <1>7, <2>1 DEF Recounts
<1>9. After(G, T) = Add(moves, r, a)
  <2>1. Latest(T) \in T /\ \A q \in T : q = Latest(T) \/ Before(q, Latest(T))
    BY <1>1, LatestIs
  <2>2. Latest(T) = r
    <3>1. r = Latest(T) \/ Before(r, Latest(T))
      BY <2>1
    <3>2. Latest(T) # r => Before(Latest(T), r) /\ Latest(T) \in Ref
      BY <1>1, <2>1 DEF Chain
    <3> QED
      BY <3>1, <3>2, BeforeOrders
  <2>3. G[r] = Add(moves, r, a)
    OBVIOUS
  <2> QED
    BY <2>2, <2>3 DEF After
<1> QED
  BY <1>1, <1>8, <1>9 DEF Listed

\* The rows of a set of references are determined.
LEMMA ListedOnce ==
  ASSUME NEW S, Chain(S), IsFiniteSet(S), NEW a,
         NEW m, NEW o, Listed(S, a, m), Listed(S, a, o)
  PROVE  m = o
<1>1. PICK H : Recounts(H, S, a) /\ m = After(H, S)
  BY DEF Listed
<1>2. PICK G : Recounts(G, S, a) /\ o = After(G, S)
  BY DEF Listed
<1> DEFINE D == {x \in S : H[x] # G[x]}
<1>3. ASSUME NEW U \in SUBSET S, U \cap D = {} PROVE After(H, U) = After(G, U)
  <2>1. CASE U = {}
    BY <2>1 DEF After
  <2>2. CASE U # {}
    <3>1. Latest(U) \in U
      BY <2>2, SubChain, LatestIs
    <3> QED
      BY <1>3, <2>2, <3>1 DEF After
  <2> QED
    BY <2>1, <2>2
<1>4. D = {}
  <2> SUFFICES ASSUME D # {} PROVE FALSE
    OBVIOUS
  <2>0. D \in SUBSET S
    OBVIOUS
  <2>1. PICK x \in D : \A q \in D : q = x \/ Before(x, q)
    <3> HIDE DEF D
    <3> QED
      BY <2>0, SubChain, EarliestExists
  <2>2. x \in S /\ H[x] # G[x]
    BY <2>1
  <2>3. Earlier(S, x) \in SUBSET S
    BY DEF Earlier
  <2>4. Earlier(S, x) \cap D = {}
    <3> SUFFICES ASSUME NEW q \in D, Before(q, x) PROVE FALSE
      BY DEF Earlier
    <3>1. q \in S /\ q \in Ref /\ x \in Ref
      BY <2>2 DEF Chain
    <3> QED
      BY <2>1, <3>1, BeforeOrders
  <2>5. After(H, Earlier(S, x)) = After(G, Earlier(S, x))
    BY <1>3, <2>3, <2>4
  <2>6. H[x] = Add(After(H, Earlier(S, x)), x, a)
    BY <1>1, <2>2 DEF Recounts
  <2>7. G[x] = Add(After(G, Earlier(S, x)), x, a)
    BY <1>2, <2>2 DEF Recounts
  <2> QED
    BY <2>2, <2>5, <2>6, <2>7
<1>5. After(H, S) = After(G, S)
  BY <1>3, <1>4
<1> QED
  BY <1>1, <1>2, <1>5

\* InOrder, of any set of references.
SortedRefs(S) ==
    [n \in 1 .. Cardinality(S) |->
        CHOOSE r \in S : Cardinality({q \in S : Before(q, r)}) = n - 1]

\* Counting the references that precede a reference gives each of them a
\* place of its own, so a sorted sequence of all of them exists.
LEMMA InOrderSorts ==
  ASSUME NEW S, Chain(S), IsFiniteSet(S)
  PROVE  /\ Cardinality(S) \in Nat /\ SortedRefs(S) \in [1 .. Cardinality(S) -> S]
         /\ \A r \in S : \E k \in 1 .. Cardinality(S) : SortedRefs(S)[k] = r
         /\ \A k, m \in 1 .. Cardinality(S) : k < m => Before(SortedRefs(S)[k], SortedRefs(S)[m])
<1> DEFINE order == SortedRefs(S)
           n == Cardinality(S)
           place == [r \in S |-> Cardinality(Earlier(S, r)) + 1]
<1>0. n \in Nat /\ IsFiniteSet(1 .. n) /\ Cardinality(1 .. n) = n
  BY FS_CardinalityType, FS_Interval
<1>1. \A r \in S : IsFiniteSet(Earlier(S, r)) /\ Cardinality(Earlier(S, r)) \in Nat
  <2>1. \A r \in S : Earlier(S, r) \in SUBSET S
    BY DEF Earlier
  <2> QED
    BY <2>1, FS_Subset, FS_CardinalityType
<1>2. ASSUME NEW r \in S PROVE place[r] \in 1 .. n
  <2>1. IsFiniteSet(S \ {r}) /\ Cardinality(S \ {r}) = n - 1
    BY FS_RemoveElement
  <2>2. Earlier(S, r) \subseteq S \ {r}
    BY BeforeOrders DEF Earlier, Chain
  <2>3. Cardinality(Earlier(S, r)) <= n - 1
    BY <2>1, <2>2, FS_Subset
  <2> HIDE DEF n
  <2> QED
    BY <1>0, <1>1, <2>3
<1>3. ASSUME NEW q \in S, NEW r \in S, Before(q, r)
      PROVE  place[q] < place[r]
  <2>1. Earlier(S, q) \subseteq Earlier(S, r) /\ q \in Earlier(S, r) /\ q \notin Earlier(S, q)
    <3>1. \A x \in S : x \in Ref
      BY DEF Chain
    <3> QED
      BY <1>3, <3>1, BeforeOrders DEF Earlier
  <2>2. Cardinality(Earlier(S, q)) <= Cardinality(Earlier(S, r))
        /\ Cardinality(Earlier(S, q)) # Cardinality(Earlier(S, r))
    BY <1>1, <2>1, FS_Subset
  <2>3. Cardinality(Earlier(S, q)) \in Nat /\ Cardinality(Earlier(S, r)) \in Nat
    BY <1>1
  <2> QED
    BY <2>2, <2>3
<1>4. \A q, r \in S : place[q] < place[r] => Before(q, r)
  <2>1. \A r \in S : place[r] \in Nat
    BY <1>2
  <2> HIDE DEF place
  <2> QED
    BY <1>3, <2>1 DEF Chain
<1>5. \A q, r \in S : place[q] = place[r] => q = r
  <2>1. \A r \in S : place[r] \in Nat
    BY <1>2
  <2> HIDE DEF place
  <2> QED
    BY <1>3, <2>1 DEF Chain
<1>6. place \in Surjection(S, 1 .. n)
  <2>1. place \in [S -> 1 .. n]
    BY <1>2
  <2>2. place \in Injection(S, 1 .. n)
    <3> HIDE DEF place, n
    <3> QED
      BY <1>5, <2>1 DEF Injection, IsInjective
  <2> QED
    BY <1>0, <2>2, FS_Injection
<1>7. ASSUME NEW k \in 1 .. n PROVE order[k] \in S /\ place[order[k]] = k
  <2>1. PICK x \in S : place[x] = k
    BY <1>6 DEF Surjection
  <2>2. Cardinality(Earlier(S, x)) = k - 1
    <3>1. Cardinality(Earlier(S, x)) \in Nat /\ k = Cardinality(Earlier(S, x)) + 1
      BY <1>1, <2>1
    <3> QED
      BY <3>1
  <2>3. order[k] = CHOOSE r \in S : Cardinality(Earlier(S, r)) = k - 1
    BY DEF Earlier, SortedRefs
  <2>4. order[k] \in S /\ Cardinality(Earlier(S, order[k])) = k - 1
    BY <2>2, <2>3
  <2>5. k - 1 + 1 = k
    BY <1>0
  <2> QED
    BY <2>4, <2>5
<1>8. order \in [1 .. n -> S]
  <2>1. order = [k \in 1 .. n |-> order[k]]
    <3> DEFINE pick(k) == CHOOSE r \in S : Cardinality({q \in S : Before(q, r)}) = k - 1
    <3>1. order = [k \in 1 .. n |-> pick(k)]
      BY DEF SortedRefs
    <3> HIDE DEF pick, order, n
    <3> QED
      BY <3>1
  <2> QED
    BY <1>7, <2>1
<1>9. ASSUME NEW r \in S PROVE \E k \in 1 .. n : order[k] = r
  <2> HIDE DEF place, n
  <2>1. place[r] \in 1 .. n /\ order[place[r]] \in S /\ place[order[place[r]]] = place[r]
    BY <1>2, <1>7
  <2> QED
    BY <1>5, <2>1
<1>10. ASSUME NEW k \in 1 .. n, NEW m \in 1 .. n, k < m PROVE Before(order[k], order[m])
  <2> HIDE DEF place, n
  <2>1. order[k] \in S /\ order[m] \in S /\ place[order[k]] < place[order[m]]
    BY <1>7, <1>10
  <2> QED
    BY <1>4, <2>1
<1> QED
  BY <1>0, <1>8, <1>9, <1>10

-----------------------------------------------------------------------------
(***************************************************************************)
(* Ledgers and execution.                                                  *)
(***************************************************************************)

\* The accounts of a transaction, and the references of an account.
Touched(r)  == Debited(r.tx) \cup Credited(r.tx)
Touching(a) == {r \in Refs : a \in Touched(r)}

\* Blocks are stamped up to the clock.
TimeInv ==
    /\ moved <= clock
    /\ \A s \in Shard : \A h \in DOMAIN blocks[s] : blocks[s][h].time <= clock

\* The transactions of an account are in its shard or from before the last
\* repartition.
HomeInv == \A r \in Refs : \A a \in Touched(r) : r.shard = home[a] \/ r.time <= moved

\* What an account has executed are its transactions in the order of the
\* ledger.
ListedInv == \A a \in Account : Listed(Touching(a), a, trail[a])

LedgerInv ==
    /\ trail \in Rows
    /\ TimeInv
    /\ kind = "relay" => HomeInv /\ ListedInv

\* A reference names a transaction of a block.
LEMMA RefIs ==
  ASSUME Shape
  PROVE  /\ \A r \in Refs : /\ r \in Ref /\ r.shard \in Shard /\ r.height \in DOMAIN blocks[r.shard]
                            /\ r.index \in DOMAIN blocks[r.shard][r.height].txs
                            /\ r = RefAt(r.shard, r.height, r.index)
         /\ \A s \in Shard : \A h \in DOMAIN blocks[s] : \A i \in DOMAIN blocks[s][h].txs :
              RefAt(s, h, i) \in Refs
<1>1. ASSUME NEW s \in Shard, NEW h \in DOMAIN blocks[s], NEW i \in DOMAIN blocks[s][h].txs
      PROVE  RefAt(s, h, i) \in Ref
  <2>1. blocks[s] \in Seq(Block)
    BY DEF Shape
  <2>2. h \in Nat /\ blocks[s][h] \in Block
    BY <2>1
  <2>3. blocks[s][h].txs \in Seq([tx : Tx, stage : Stage]) /\ blocks[s][h].time \in Nat
    BY <2>2 DEF Block
  <2> DEFINE q == blocks[s][h].txs
             T == [tx : Tx, stage : Stage]
  <2>4. i \in Nat /\ q[i] \in T
    <3>1. q \in Seq(T) /\ i \in DOMAIN q
      BY <2>3
    <3> HIDE DEF q, T
    <3> QED
      BY <3>1
  <2> QED
    BY <2>2, <2>3, <2>4 DEF RefAt, Ref
<1>2. ASSUME NEW s \in Shard, NEW h \in DOMAIN blocks[s], NEW i \in DOMAIN blocks[s][h].txs
      PROVE  RefAt(s, h, i) \in Refs
  BY DEF Refs
<1>3. ASSUME NEW r \in Refs
      PROVE  \E s \in Shard : \E h \in DOMAIN blocks[s] : \E i \in DOMAIN blocks[s][h].txs :
               r = RefAt(s, h, i)
  BY DEF Refs
<1>4. ASSUME NEW r \in Refs
      PROVE  /\ r \in Ref /\ r.shard \in Shard /\ r.height \in DOMAIN blocks[r.shard]
             /\ r.index \in DOMAIN blocks[r.shard][r.height].txs
             /\ r = RefAt(r.shard, r.height, r.index)
  <2>a. PICK s \in Shard : \E h \in DOMAIN blocks[s] : \E i \in DOMAIN blocks[s][h].txs : r = RefAt(s, h, i)
    BY <1>3
  <2>b. PICK h \in DOMAIN blocks[s] : \E i \in DOMAIN blocks[s][h].txs : r = RefAt(s, h, i)
    BY <2>a
  <2>1. PICK i \in DOMAIN blocks[s][h].txs : r = RefAt(s, h, i)
    BY <2>b
  <2>2. r.shard = s /\ r.height = h /\ r.index = i
    BY <2>1 DEF RefAt
  <2> QED
    BY <1>1, <2>1, <2>2
<1> QED
  BY <1>2, <1>4

LEMMA RefsChain ==
  ASSUME Shape
  PROVE  Chain(Refs) /\ IsFiniteSet(Refs)
<1>1. ASSUME NEW q \in Refs, NEW r \in Refs, ~Before(q, r), ~Before(r, q)
      PROVE  q = r
  <2>1. /\ q = RefAt(q.shard, q.height, q.index) /\ r = RefAt(r.shard, r.height, r.index)
        /\ q \in Ref /\ r \in Ref
    BY RefIs
  <2>2. /\ q.shard \in Int /\ q.height \in Int /\ q.index \in Int /\ q.time \in Int
        /\ r.shard \in Int /\ r.height \in Int /\ r.index \in Int /\ r.time \in Int
    <3>1. \A x \in Shard : x \in Nat
      BY MeasureAssumption
    <3>2. \A x \in Ref : x.shard \in Shard /\ x.height \in Nat /\ x.index \in Nat /\ x.time \in Nat
      BY DEF Ref
    <3> QED
      BY <2>1, <3>1, <3>2
  <2>3. q.shard = r.shard /\ q.height = r.height /\ q.index = r.index
    BY <1>1, <2>2 DEF Before
  <2> QED
    BY <2>1, <2>3
<1>2. Chain(Refs)
  BY <1>1, RefIs DEF Chain
<1> DEFINE InBlock(s, h) == {RefAt(s, h, i) : i \in DOMAIN blocks[s][h].txs}
           InShard(s) == {InBlock(s, h) : h \in DOMAIN blocks[s]}
<1>3. ASSUME NEW s \in Shard, NEW h \in DOMAIN blocks[s] PROVE IsFiniteSet(InBlock(s, h))
  <2>1. blocks[s] \in Seq(Block)
    BY DEF Shape
  <2>2. blocks[s][h] \in Block
    BY <2>1
  <2> DEFINE q == blocks[s][h].txs
  <2>3. q \in Seq([tx : Tx, stage : Stage])
    BY <2>2 DEF Block
  <2>4. DOMAIN q = 1 .. Len(q) /\ Len(q) \in Nat
    BY <2>3
  <2>5. IsFiniteSet(DOMAIN q)
    BY <2>4, FS_Interval
  <2>6. [i \in DOMAIN q |-> RefAt(s, h, i)] \in Surjection(DOMAIN q, InBlock(s, h))
    BY DEF Surjection
  <2> QED
    BY <2>5, <2>6, FS_Surjection
<1>4. ASSUME NEW s \in Shard PROVE IsFiniteSet(UNION InShard(s))
  <2>1. DOMAIN blocks[s] = 1 .. Len(blocks[s]) /\ Len(blocks[s]) \in Nat
    BY DEF Shape
  <2>2. IsFiniteSet(DOMAIN blocks[s])
    BY <2>1, FS_Interval
  <2>3. [h \in DOMAIN blocks[s] |-> InBlock(s, h)] \in Surjection(DOMAIN blocks[s], InShard(s))
    BY DEF Surjection
  <2>4. IsFiniteSet(InShard(s))
    <3> HIDE DEF InBlock
    <3> QED
      BY <2>2, <2>3, FS_Surjection
  <2>5. \A X \in InShard(s) : IsFiniteSet(X)
    <3> HIDE DEF InBlock
    <3> QED
      BY <1>3
  <2> HIDE DEF InShard
  <2> QED
    BY <2>4, <2>5, FS_UNION
<1> DEFINE All == {UNION InShard(s) : s \in Shard}
<1>5. IsFiniteSet(All)
  <2>1. [s \in Shard |-> UNION InShard(s)] \in Surjection(Shard, All)
    <3> HIDE DEF InShard
    <3> QED
      BY DEF Surjection
  <2>2. IsFiniteSet(Shard)
    BY MeasureAssumption
  <2> QED
    BY <2>1, <2>2, FS_Surjection
<1>6. \A X \in All : IsFiniteSet(X)
  <2> HIDE DEF InShard
  <2> QED
    BY <1>4
<1>7. IsFiniteSet(UNION All)
  <2> HIDE DEF All
  <2> QED
    BY <1>5, <1>6, FS_UNION
<1>8. Refs = UNION All
  BY DEF Refs
<1> QED
  BY <1>2, <1>7, <1>8

\* In relay mode only inner transfers and the two stages of a relay are packed.
LEMMA RelayForms ==
  ASSUME Shape, FlowInv, kind = "relay"
  PROVE  /\ \A r \in Refs : r.tx.stage \in {"inner", "relay1", "relay2"}
         /\ \A c \in ready : c.stage \in {"raw", "relay2"}
<1>1. ASSUME NEW r \in Refs PROVE r.tx.stage \in {"inner", "relay1", "relay2"}
  <2> DEFINE s == r.shard
             h == r.height
             m == <<s, h>>
             t == r.tx.tx
  <2>1. /\ r \in Ref /\ s \in Shard /\ h \in DOMAIN blocks[s]
        /\ r.index \in DOMAIN blocks[s][h].txs /\ r.tx = blocks[s][h].txs[r.index]
    BY RefIs DEF RefAt
  <2>2. r.tx = [tx |-> t, stage |-> r.tx.stage] /\ t \in Tx /\ r.tx.stage \in Stage
    BY <2>1 DEF Ref
  <2>3. r.tx \in Range(BlockOf(m).txs)
    BY <2>1 DEF BlockOf, Range
  <2>4. m \in Committed
    BY <2>1 DEF Committed
  <2>5. <<m, r.tx.stage>> \in Held(t)
    BY <2>2, <2>3, <2>4 DEF Held
  <2>6. r.tx.stage \notin {"broker1", "broker2"}
    <3> HIDE DEF m, t
    <3> QED
      BY <2>2, <2>5, HeldForms
  <2> QED
    BY <2>2, <2>6 DEF Stage
<1>2. ASSUME NEW c \in ready PROVE c.stage \in {"raw", "relay2"}
  <2>1. c = [tx |-> c.tx, stage |-> c.stage] /\ c.tx \in Tx /\ c.stage \in Stage \cup {"raw"}
    BY DEF Shape, Copy
  <2>2. c.stage \in Waits(c.tx)
    BY <2>1 DEF Waits
  <2>3. Flow(c.tx, Waits(c.tx), Held(c.tx))
    BY <2>1 DEF FlowInv
  <2> QED
    BY <2>2, <2>3 DEF Flow
<1> QED
  BY <1>1, <1>2

\* The block that a shard commits.
NewBlock(txs, time) == [epoch |-> epoch, time |-> time, txs |-> txs]

\* A shard commits transactions that it has packed, later than what it has
\* committed before and than the last repartition.
LEMMA CommitDetails ==
  ASSUME Shape, NEW s \in Shard, CommitBlock(s)
  PROVE  \E n \in Nat : \E txs \in [1 .. n -> [tx : Tx, stage : Stage]] : \E time \in Nat :
           /\ LastTime(s) < time
           /\ blocks' = [blocks EXCEPT ![s] = Append(@, NewBlock(txs, time))]
           /\ clock' \in Nat /\ clock <= clock' /\ time <= clock'
           /\ trail' = FoldLeft(Execute, trail, txs)
           /\ \A i \in 1 .. n : \E c \in ready : home[KeyAcc(c)] = s /\ txs[i] = Packed(s, c)
<1> DEFINE Here == {Packed(s, c) : c \in {x \in ready : home[KeyAcc(x)] = s}}
           Block1(n, txs, time) ==
             /\ blocks' = [blocks EXCEPT ![s] = Append(@, NewBlock(txs, time))]
             /\ clock' = Max({clock, time})
             /\ trail' = FoldLeft(Execute, trail, txs)
<1>a. \E n \in 1 .. BlockSizeLimit : \E txs \in [1 .. n -> Here] :
        \E time \in (LastTime(s) + 1) .. (clock + 1) : Block1(n, txs, time)
  BY DEF CommitBlock, NewBlock
<1>b. PICK n \in 1 .. BlockSizeLimit : \E txs \in [1 .. n -> Here] :
        \E time \in (LastTime(s) + 1) .. (clock + 1) : Block1(n, txs, time)
  BY <1>a
<1>c. PICK txs \in [1 .. n -> Here] : \E time \in (LastTime(s) + 1) .. (clock + 1) : Block1(n, txs, time)
  BY <1>b
<1>1. PICK time \in (LastTime(s) + 1) .. (clock + 1) : Block1(n, txs, time)
  BY <1>c
<1>2. n \in Nat
  BY MeasureAssumption
<1>3. \A i \in 1 .. n : \E c \in ready : home[KeyAcc(c)] = s /\ txs[i] = Packed(s, c)
  OBVIOUS
<1>4. \A i \in 1 .. n : txs[i] \in [tx : Tx, stage : Stage]
  BY <1>3, PackedForm
<1>5. time \in Nat /\ LastTime(s) < time /\ clock \in Nat
  <2>1. LastTime(s) \in Nat /\ clock \in Nat
    BY LastTimeIs DEF Shape
  <2> HIDE DEF Here, Block1
  <2> QED
    BY <2>1
<1>6. clock' \in Nat /\ clock <= clock' /\ time <= clock'
  <2>1. \E x \in {clock, time} : \A y \in {clock, time} : x >= y
    BY <1>5
  <2>2. Max({clock, time}) \in {clock, time} /\ \A y \in {clock, time} : Max({clock, time}) >= y
    BY <2>1 DEF Max
  <2>3. clock' = Max({clock, time})
    BY <1>1
  <2> HIDE DEF Here, Block1
  <2> QED
    BY <1>5, <2>2, <2>3
<1>7. txs \in [1 .. n -> [tx : Tx, stage : Stage]]
  <2> HIDE DEF Here
  <2> QED
    BY <1>4
<1>8. /\ blocks' = [blocks EXCEPT ![s] = Append(@, NewBlock(txs, time))]
      /\ trail' = FoldLeft(Execute, trail, txs)
  BY <1>1
<1> HIDE DEF Here, Block1
<1> QED
  BY <1>2, <1>3, <1>5, <1>6, <1>7, <1>8

\* An account that a packed transaction touches is in the shard.
LEMMA PackedHere ==
  ASSUME Shape, FlowInv, kind = "relay", NEW s \in Shard, NEW c \in ready, home[KeyAcc(c)] = s,
         NEW a \in Debited(Packed(s, c)) \cup Credited(Packed(s, c))
  PROVE  home[a] = s
<1>1. c.tx \in Tx /\ c.stage \in {"raw", "relay2"} /\ c = [tx |-> c.tx, stage |-> c.stage]
  BY RelayForms DEF Shape, Copy
<1>2. CASE c.stage = "relay2"
  <2>1. Packed(s, c) = c
    BY <1>1, <1>2, PackedForm
  <2> QED
    BY <1>2, <2>1 DEF Debited, Credited, KeyAcc
<1>3. CASE c.stage = "raw"
  <2>1. KeyAcc(c) = Sender[c.tx]
    BY <1>3 DEF KeyAcc
  <2>2. CASE home[Recipient[c.tx]] = s
    BY <1>1, <1>3, <2>1, <2>2 DEF Packed, Debited, Credited
  <2>3. CASE home[Recipient[c.tx]] # s
    <3>1. Packed(s, c) = [tx |-> c.tx, stage |-> "relay1"]
      BY <1>1, <1>3, <2>3 DEF Packed
    <3> QED
      BY <2>1, <3>1 DEF Debited, Credited
  <2> QED
    BY <2>2, <2>3
<1> QED
  BY <1>1, <1>2, <1>3

\* The references of one more block.
NewRef(s, i, time, txs) ==
    [shard |-> s, height |-> Len(blocks[s]) + 1, index |-> i, time |-> time, tx |-> txs[i]]

LEMMA MoreRefs ==
  ASSUME Shape, NEW s \in Shard, NEW n \in Nat, NEW txs \in [1 .. n -> [tx : Tx, stage : Stage]],
         NEW time \in Nat,
         blocks' = [blocks EXCEPT ![s] = Append(@, NewBlock(txs, time))]
  PROVE  \A r : r \in Refs' <=> (r \in Refs \/ \E i \in 1 .. n : r = NewRef(s, i, time, txs))
<1> DEFINE b == NewBlock(txs, time)
           new == Len(blocks[s]) + 1
           N(i) == [shard |-> s, height |-> new, index |-> i, time |-> time, tx |-> txs[i]]
<1>1. blocks[s] \in Seq(Block) /\ s \in DOMAIN blocks
  BY DEF Shape
<1>2. /\ DOMAIN blocks[s] = 1 .. Len(blocks[s]) /\ Len(blocks[s]) \in Nat
      /\ DOMAIN blocks'[s] = DOMAIN blocks[s] \cup {new}
      /\ \A h \in DOMAIN blocks[s] : blocks'[s][h] = blocks[s][h]
      /\ blocks'[s][new] = b
  <2> DEFINE q == blocks[s]
  <2>1. blocks'[s] = Append(q, b)
    BY <1>1
  <2>2. q \in Seq(Block)
    BY <1>1
  <2> HIDE DEF q, b
  <2>3. DOMAIN Append(q, b) = DOMAIN q \cup {Len(q) + 1} /\ DOMAIN q = 1 .. Len(q) /\ Len(q) \in Nat
        /\ (\A h \in DOMAIN q : Append(q, b)[h] = q[h]) /\ Append(q, b)[Len(q) + 1] = b
    BY <2>2
  <2> QED
    BY <2>1, <2>3 DEF q
<1>3. \A x \in Shard \ {s} : blocks'[x] = blocks[x]
  BY <1>1 DEF Shape
<1>4. DOMAIN txs = 1 .. n
  OBVIOUS
<1>5. ASSUME NEW x \in Shard, NEW h \in DOMAIN blocks[x]
      PROVE  /\ h \in DOMAIN blocks'[x] /\ blocks'[x][h] = blocks[x][h]
  BY <1>2, <1>3
<1>6. ASSUME NEW x \in Shard, NEW h \in DOMAIN blocks'[x]
      PROVE  h \in DOMAIN blocks[x] \/ (x = s /\ h = new)
  <2> HIDE DEF b, new
  <2>1. CASE x = s
    <3>1. DOMAIN blocks'[s] = DOMAIN blocks[s] \cup {new}
      BY <1>2
    <3> QED
      BY <2>1, <3>1
  <2>2. CASE x # s
    <3>1. blocks'[x] = blocks[x]
      BY <1>3, <2>2
    <3> QED
      BY <3>1
  <2> QED
    BY <2>1, <2>2
<1> HIDE DEF b, new
<1>7. ASSUME NEW r \in Refs PROVE r \in Refs'
  <2>a. PICK x \in Shard : \E h \in DOMAIN blocks[x] : \E i \in DOMAIN blocks[x][h].txs : r = RefAt(x, h, i)
    BY DEF Refs
  <2>b. PICK h \in DOMAIN blocks[x] : \E i \in DOMAIN blocks[x][h].txs : r = RefAt(x, h, i)
    BY <2>a
  <2>1. PICK i \in DOMAIN blocks[x][h].txs : r = RefAt(x, h, i)
    BY <2>b
  <2>2. h \in DOMAIN blocks'[x] /\ blocks'[x][h] = blocks[x][h]
    BY <1>5
  <2>3. r = RefAt(x, h, i)' /\ i \in DOMAIN blocks'[x][h].txs
    BY <2>1, <2>2 DEF RefAt
  <2> QED
    BY <2>2, <2>3 DEF Refs
<1>8. ASSUME NEW i \in 1 .. n PROVE N(i) \in Refs'
  <2>0. PICK k : k = new
    OBVIOUS
  <2>1. k \in DOMAIN blocks'[s] /\ blocks'[s][k] = b
    BY <1>2, <2>0
  <2>2. b.txs = txs /\ b.time = time
    BY DEF b, NewBlock
  <2>3. N(i) = RefAt(s, k, i)' /\ i \in DOMAIN blocks'[s][k].txs
    BY <1>4, <2>0, <2>1, <2>2 DEF RefAt
  <2> QED
    BY <2>1, <2>3 DEF Refs
<1>9. ASSUME NEW r \in Refs' PROVE r \in Refs \/ \E i \in 1 .. n : r = N(i)
  <2>a. PICK x \in Shard : \E h \in DOMAIN blocks'[x] : \E i \in DOMAIN blocks'[x][h].txs : r = RefAt(x, h, i)'
    BY DEF Refs
  <2>b. PICK h \in DOMAIN blocks'[x] : \E i \in DOMAIN blocks'[x][h].txs : r = RefAt(x, h, i)'
    BY <2>a
  <2>1. PICK i \in DOMAIN blocks'[x][h].txs : r = RefAt(x, h, i)'
    BY <2>b
  <2>2. CASE h \in DOMAIN blocks[x]
    <3>1. blocks'[x][h] = blocks[x][h]
      BY <1>5, <2>2
    <3>2. r = RefAt(x, h, i) /\ i \in DOMAIN blocks[x][h].txs
      BY <2>1, <3>1 DEF RefAt
    <3> QED
      BY <2>2, <3>2 DEF Refs
  <2>3. CASE x = s /\ h = new
    <3>1. blocks'[x][h].txs = txs /\ blocks'[x][h].time = time
      BY <1>2, <2>3 DEF b, NewBlock
    <3>2. r = N(i) /\ i \in 1 .. n
      BY <1>4, <2>1, <2>3, <3>1 DEF RefAt
    <3> QED
      BY <3>2
  <2> QED
    BY <1>6, <2>2, <2>3
<1>10. \A r : r \in Refs' <=> r \in Refs \/ \E i \in 1 .. n : r = N(i)
  BY <1>7, <1>8, <1>9
<1> QED
  BY <1>10 DEF new, NewRef

\* Execution adds to the rows of each account.
LEMMA ExecuteAdds ==
  ASSUME NEW rows \in Rows, NEW c \in [tx : Tx, stage : Stage], NEW a \in Account
  PROVE  Execute(rows, c)[a] = AddTo(rows[a], c, Debited(c), Credited(c), a)
BY TwoMoves DEF Execute

\* A new block appends its transactions to the lists of their accounts.
LEMMA CommitLists ==
  ASSUME Shape, FlowInv, LedgerInv, NEW s \in Shard, CommitBlock(s)
  PROVE  LedgerInv'
<1>a. PICK n \in Nat : \E txs \in [1 .. n -> [tx : Tx, stage : Stage]] : \E time \in Nat :
           /\ LastTime(s) < time
           /\ blocks' = [blocks EXCEPT ![s] = Append(@, NewBlock(txs, time))]
           /\ clock' \in Nat /\ clock <= clock' /\ time <= clock'
           /\ trail' = FoldLeft(Execute, trail, txs)
           /\ \A i \in 1 .. n : \E c \in ready : home[KeyAcc(c)] = s /\ txs[i] = Packed(s, c)
  BY CommitDetails
<1>b. PICK txs \in [1 .. n -> [tx : Tx, stage : Stage]] : \E time \in Nat :
           /\ LastTime(s) < time
           /\ blocks' = [blocks EXCEPT ![s] = Append(@, NewBlock(txs, time))]
           /\ clock' \in Nat /\ clock <= clock' /\ time <= clock'
           /\ trail' = FoldLeft(Execute, trail, txs)
           /\ \A i \in 1 .. n : \E c \in ready : home[KeyAcc(c)] = s /\ txs[i] = Packed(s, c)
  BY <1>a
<1>1. PICK time \in Nat :
           /\ LastTime(s) < time
           /\ blocks' = [blocks EXCEPT ![s] = Append(@, NewBlock(txs, time))]
           /\ clock' \in Nat /\ clock <= clock' /\ time <= clock'
           /\ trail' = FoldLeft(Execute, trail, txs)
           /\ \A i \in 1 .. n : \E c \in ready : home[KeyAcc(c)] = s /\ txs[i] = Packed(s, c)
  BY <1>b
<1>2. home' = home /\ moved' = moved /\ kind' = kind
  BY DEF CommitBlock
<1> DEFINE N(i) == NewRef(s, i, time, txs)
<1>3. Refs' = Refs \cup {N(i) : i \in 1 .. n}
  <2>1. blocks' = [blocks EXCEPT ![s] = Append(@, NewBlock(txs, time))]
    BY <1>1
  <2>2. \A r : r \in Refs' <=> (r \in Refs \/ \E i \in 1 .. n : r = N(i))
    BY <2>1, MoreRefs
  <2> QED
    BY <2>2
<1>4. blocks[s] \in Seq(Block) /\ s \in DOMAIN blocks /\ Len(blocks[s]) \in Nat
      /\ DOMAIN blocks[s] = 1 .. Len(blocks[s])
  BY DEF Shape
<1>5. \A i \in 1 .. n : N(i) \in Ref /\ N(i).shard = s /\ N(i).time = time /\ N(i).index = i
                        /\ N(i).height = Len(blocks[s]) + 1 /\ N(i).tx = txs[i]
  BY <1>4 DEF Ref, NewRef
<1> HIDE DEF N
<1>6. /\ LastTime(s) \in Nat /\ moved <= LastTime(s) /\ moved \in Nat /\ clock \in Nat
      /\ \A h \in DOMAIN blocks[s] : blocks[s][h].time \in Nat /\ blocks[s][h].time <= LastTime(s)
  BY LastTimeIs DEF Shape
<1>7. PICK F \in [0 .. n -> Rows] :
           /\ F[0] = trail /\ F[n] = FoldLeft(Execute, trail, txs)
           /\ \A i \in 1 .. n : F[i] = Execute(F[i - 1], txs[i])
  BY ExecuteSteps DEF LedgerInv
<1>8. trail' \in Rows /\ trail' = F[n]
  BY <1>1, <1>7
<1>9. TimeInv'
  <2>1. moved' <= clock'
    BY <1>1, <1>2, <1>6 DEF LedgerInv, TimeInv
  <2>2. ASSUME NEW x \in Shard, NEW h \in DOMAIN blocks'[x] PROVE blocks'[x][h].time <= clock'
    <3>0. ASSUME NEW y \in Shard, NEW k \in DOMAIN blocks[y] PROVE blocks[y][k].time <= clock'
      <4>1. blocks[y][k].time <= clock /\ blocks[y][k].time \in Nat
        BY LastTimeIs DEF LedgerInv, TimeInv
      <4> QED
        BY <1>1, <1>6, <4>1
    <3>1. CASE x # s
      <4>1. blocks'[x] = blocks[x]
        BY <1>1, <3>1 DEF Shape
      <4> QED
        BY <3>0, <4>1
    <3>2. CASE x = s
      <4> DEFINE q == blocks[s]
                 b == NewBlock(txs, time)
      <4>1. blocks'[s] = Append(q, b)
        BY <1>1, <1>4
      <4>2. q \in Seq(Block) /\ b.time = time
        BY <1>4 DEF NewBlock
      <4> HIDE DEF q, b
      <4>3. (h \in DOMAIN q /\ Append(q, b)[h] = q[h]) \/ Append(q, b)[h] = b
        BY <3>2, <4>1, <4>2
      <4>4. CASE h \in DOMAIN q /\ Append(q, b)[h] = q[h]
        BY <3>0, <3>2, <4>1, <4>4 DEF q
      <4>5. CASE Append(q, b)[h] = b
        BY <1>1, <3>2, <4>1, <4>2, <4>5
      <4> QED
        BY <4>3, <4>4, <4>5
    <3> QED
      BY <3>1, <3>2
  <2> QED
    BY <2>1, <2>2 DEF TimeInv
<1>10. ASSUME kind = "relay" PROVE HomeInv' /\ ListedInv'
  <2>1. HomeInv /\ ListedInv
    BY <1>10 DEF LedgerInv
  <2>2. ASSUME NEW i \in 1 .. n, NEW a \in Touched(N(i)) PROVE home[a] = s
    <3>1. PICK c \in ready : home[KeyAcc(c)] = s /\ txs[i] = Packed(s, c)
      BY <1>1
    <3>2. a \in Debited(txs[i]) \cup Credited(txs[i])
      BY <1>5, <2>2 DEF Touched
    <3> QED
      BY <1>10, <3>1, <3>2, PackedHere
  <2>3. HomeInv'
    <3> SUFFICES ASSUME NEW r \in Refs', NEW a \in Touched(r)
                 PROVE  r.shard = home[a] \/ r.time <= moved
      BY <1>2 DEF HomeInv, Touched
    <3>1. CASE r \in Refs
      BY <2>1, <3>1 DEF HomeInv
    <3>2. CASE r \in {N(i) : i \in 1 .. n}
      <4>1. PICK i \in 1 .. n : r = N(i)
        BY <3>2
      <4> QED
        BY <1>5, <2>2, <4>1
    <3> QED
      BY <1>3, <3>1, <3>2
  <2>4. ASSUME NEW a \in Account PROVE Listed(Touching(a)', a, trail'[a])
    <3> DEFINE T(i) == Touching(a) \cup {N(j) : j \in {k \in 1 .. i : a \in Touched(N(k))}}
               G == {i \in 0 .. n : Chain(T(i)) /\ IsFiniteSet(T(i)) /\ Listed(T(i), a, F[i][a])}
    <3>1. 0 \in G
      <4>1. T(0) = Touching(a)
        OBVIOUS
      <4>2. Chain(T(0)) /\ IsFiniteSet(T(0))
        <5>1. Touching(a) \in SUBSET Refs
          BY DEF Touching
        <5> QED
          BY <4>1, <5>1, RefsChain, SubChain
      <4>3. Listed(T(0), a, F[0][a])
        BY <1>7, <2>1, <4>1 DEF ListedInv
      <4>4. 0 \in 0 .. n
        OBVIOUS
      <4> HIDE DEF T
      <4> QED
        BY <4>2, <4>3, <4>4
    <3>2. ASSUME NEW k \in 1 .. n, k - 1 \in G PROVE k \in G
      <4>1. F[k][a] = Add(F[k - 1][a], N(k), a)
        <5>1. F[k - 1] \in Rows /\ F[k] = Execute(F[k - 1], txs[k])
          <6>1. k - 1 \in 0 .. n
            OBVIOUS
          <6> QED
            BY <1>7, <6>1
        <5> DEFINE c == txs[k]
        <5>2. c \in [tx : Tx, stage : Stage] /\ N(k).tx = c
          BY <1>5
        <5> HIDE DEF c
        <5>3. Execute(F[k - 1], c)[a] = AddTo(F[k - 1][a], c, Debited(c), Credited(c), a)
          BY <5>1, <5>2, ExecuteAdds
        <5> QED
          BY <5>1, <5>2, <5>3 DEF c, Add
      <4>2. k \in Nat /\ k \in 0 .. n /\ k - 1 \in 0 .. n /\ 1 .. k = (1 .. (k - 1)) \cup {k}
        <5>1. k \in Nat /\ k \in 0 .. n /\ k - 1 \in 0 .. n
          OBVIOUS
        <5>2. \A j : j \in 1 .. k <=> j \in (1 .. (k - 1)) \cup {k}
          BY <5>1
        <5> QED
          BY <5>1, <5>2
      <4>3. CASE a \notin Touched(N(k))
        <5>1. T(k) = T(k - 1)
          BY <4>2, <4>3
        <5>2. F[k][a] = F[k - 1][a]
          BY <4>1, <4>3 DEF Add, AddTo, Touched
        <5> HIDE DEF T
        <5> QED
          BY <3>2, <4>2, <5>1, <5>2
      <4>4. CASE a \in Touched(N(k))
        <5>1. T(k) = T(k - 1) \cup {N(k)}
          BY <4>2, <4>4
        <5>2. ASSUME NEW q \in T(k - 1) PROVE Before(q, N(k))
          <6>1. CASE q \in Touching(a)
            <7>1. q \in Refs /\ (q.shard = home[a] \/ q.time <= moved)
              BY <2>1, <6>1 DEF Touching, HomeInv
            <7>2. q \in Ref /\ q.shard \in Shard /\ q.height \in DOMAIN blocks[q.shard]
                  /\ q.time = blocks[q.shard][q.height].time
              BY <7>1, RefIs DEF RefAt
            <7>3. home[a] = s
              BY <2>2, <4>4
            <7>4. q.time <= LastTime(s) /\ q.time \in Nat
              <8>1. q.time \in Nat
                BY <7>2 DEF Ref
              <8>2. q.shard = s => q.time <= LastTime(s)
                BY <1>6, <7>2
              <8>3. q.time <= moved => q.time <= LastTime(s)
                BY <1>6, <8>1
              <8> QED
                BY <7>1, <7>3, <8>1, <8>2, <8>3
            <7>5. q.time < N(k).time
              BY <1>1, <1>5, <1>6, <7>4
            <7> QED
              BY <7>5 DEF Before
          <6>2. CASE q \in {N(j) : j \in {i \in 1 .. (k - 1) : a \in Touched(N(i))}}
            <7>1. PICK j \in 1 .. (k - 1) : q = N(j)
              BY <6>2
            <7>2. j \in 1 .. n /\ j < k
              BY <4>2
            <7>3. /\ q.time = N(k).time /\ q.shard = N(k).shard /\ q.height = N(k).height
                  /\ q.index < N(k).index
              BY <1>5, <7>1, <7>2
            <7> QED
              BY <7>3 DEF Before
          <6> QED
            BY <6>1, <6>2
        <5>3. N(k) \in Ref
          BY <1>5
        <5> HIDE DEF T
        <5>4. Chain(T(k - 1)) /\ IsFiniteSet(T(k - 1)) /\ Listed(T(k - 1), a, F[k - 1][a])
          BY <3>2
        <5> DEFINE S == T(k - 1)
                   moves == F[k - 1][a]
        <5>5. Chain(S) /\ IsFiniteSet(S) /\ Listed(S, a, moves) /\ \A q \in S : Before(q, N(k))
          BY <5>2, <5>4
        <5>6. /\ Chain(S \cup {N(k)}) /\ IsFiniteSet(S \cup {N(k)})
              /\ Listed(S \cup {N(k)}, a, Add(moves, N(k), a))
          <6> HIDE DEF S, moves
          <6> QED
            BY <5>3, <5>5, ListedMore
        <5> QED
          BY <4>1, <4>2, <5>1, <5>6
      <4> QED
        BY <4>3, <4>4
    <3>3. 0 .. n \subseteq G
      <4> HIDE DEF G
      <4> QED
        BY <3>1, <3>2, CountUp
    <3>4. Touching(a)' = T(n)
      BY <1>3 DEF Touching, Touched
    <3>5. n \in 0 .. n
      OBVIOUS
    <3> HIDE DEF T
    <3> QED
      BY <1>8, <3>3, <3>4, <3>5
  <2> QED
    BY <2>3, <2>4 DEF ListedInv
<1> QED
  BY <1>2, <1>8, <1>9, <1>10 DEF LedgerInv

\* At the start nothing has been executed.
LEMMA LedgerInit == Init => LedgerInv
<1> SUFFICES ASSUME Init PROVE LedgerInv
  OBVIOUS
<1>1. trail \in Rows /\ \A a \in Account : trail[a] = <<>>
  BY DEF Init, Rows
<1>2. TimeInv
  BY DEF Init, TimeInv
<1>3. Refs = {}
  BY DEF Init, Refs
<1>4. HomeInv
  BY <1>3 DEF HomeInv
<1>5. ListedInv
  <2>1. \A a \in Account : Touching(a) = {}
    BY <1>3 DEF Touching
  <2> QED
    BY <1>1, <2>1, ListedNone DEF ListedInv
<1> QED
  BY <1>1, <1>2, <1>4, <1>5 DEF LedgerInv

\* Every step keeps the lists; a repartition may move any account, since
\* later blocks are stamped later than all earlier ones.
LEMMA LedgerNext ==
  ASSUME ReportInv, LedgerInv, [Next]_vars
  PROVE  LedgerInv'
<1>0. Shape /\ FlowInv
  BY DEF ReportInv
<1>1. CASE \E s \in Shard : CommitBlock(s)
  BY <1>0, <1>1, CommitLists
<1>2. CASE Repartition
  <2>1. UNCHANGED <<kind, blocks, clock, trail>> /\ moved' = clock
    BY <1>2 DEF Repartition
  <2>2. Refs' = Refs
    BY <2>1 DEF Refs, RefAt
  <2>3. clock \in Nat
    BY <1>0 DEF Shape
  <2>4. TimeInv'
    BY <2>1, <2>3 DEF LedgerInv, TimeInv
  <2>5. HomeInv'
    <3> SUFFICES ASSUME NEW r \in Refs PROVE r.time <= clock
      BY <2>1, <2>2 DEF HomeInv
    <3>1. r.shard \in Shard /\ r.height \in DOMAIN blocks[r.shard]
          /\ r.time = blocks[r.shard][r.height].time
      BY <1>0, RefIs DEF RefAt
    <3> QED
      BY <3>1 DEF LedgerInv, TimeInv
  <2>6. kind = "relay" => ListedInv'
    BY <2>1, <2>2 DEF LedgerInv, ListedInv, Touching
  <2> QED
    BY <2>1, <2>4, <2>5, <2>6 DEF LedgerInv
<1>3. CASE UNCHANGED <<kind, home, blocks, clock, moved, trail>>
  <2>1. Refs' = Refs
    BY <1>3 DEF Refs, RefAt
  <2>2. TimeInv => TimeInv'
    BY <1>3 DEF TimeInv
  <2>3. HomeInv => HomeInv'
    BY <1>3, <2>1 DEF HomeInv
  <2>4. ListedInv => ListedInv'
    BY <1>3, <2>1 DEF ListedInv, Touching
  <2> QED
    BY <1>3, <2>2, <2>3, <2>4 DEF LedgerInv
<1>4. CASE \E m \in net : HandleMsg(m)
  BY <1>3, <1>4 DEF HandleMsg
<1>5. CASE \/ DrainMsgBuffer \/ UpdateMeasureRecord \/ CloseMeasureMsgBuf \/ MeasureDone
           \/ OutputResultAndClose \/ UNCHANGED vars
  BY <1>3, <1>5 DEF DrainMsgBuffer, UpdateMeasureRecord, CloseMeasureMsgBuf, MeasureDone, OutputResultAndClose,
                    vars, shardVars
<1> QED
  BY <1>1, <1>2, <1>4, <1>5 DEF Next, Environment, Main, Sub

\* In relay mode the ledger adds what execution adds.
LEMMA AddRowsAdds ==
  ASSUME NEW rows \in Rows, NEW r \in Ref, r.tx.stage \in {"inner", "relay1", "relay2"},
         NEW a \in Account
  PROVE  AddRows(rows, r)[a] = Add(rows[a], r, a)
<1>1. SenderRow(r.tx) = Debited(r.tx) /\ RecipientRow(r.tx) = Credited(r.tx)
  BY DEF SenderRow, RecipientRow, Debited, Credited
<1> DEFINE c == r.tx
<1>2. c \in [tx : Tx, stage : Stage]
  BY DEF Ref
<1>3. AddRows(rows, r)[a] = AddTo(rows[a], c, SenderRow(c), RecipientRow(c), a)
  BY <1>2, TwoMoves DEF AddRows
<1> QED
  BY <1>1, <1>3 DEF Add

\* The ledger lists the transactions of an account in the same order as the
\* shards have executed them, so the rows are the same.
LEMMA LedgerFollows ==
  ASSUME Shape, FlowInv, LedgerInv, kind = "relay"
  PROVE  BuildAgentRows = trail
<1> DEFINE n == Cardinality(Refs)
           order == InOrder
           none == [a \in Account |-> <<>>]
<1>1. Chain(Refs) /\ IsFiniteSet(Refs)
  BY RefsChain
<1>2. /\ n \in Nat /\ order \in [1 .. n -> Refs]
      /\ \A r \in Refs : \E k \in 1 .. n : order[k] = r
      /\ \A k, m \in 1 .. n : k < m => Before(order[k], order[m])
  <2>1. order = SortedRefs(Refs)
    BY DEF InOrder, SortedRefs
  <2> HIDE DEF order
  <2> QED
    BY <1>1, <2>1, InOrderSorts
<1>3. order \in [1 .. n -> Ref]
  <2> HIDE DEF order, n
  <2> QED
    BY <1>1, <1>2 DEF Chain
<1>4. none \in Rows
  BY DEF Rows
<1>5. BuildAgentRows = FoldLeft(AddRows, none, order)
  BY DEF BuildAgentRows
<1> HIDE DEF n, order, none
<1>6. PICK F \in [0 .. n -> Rows] :
           /\ F[0] = none /\ F[n] = FoldLeft(AddRows, none, order)
           /\ \A i \in 1 .. n : F[i] = AddRows(F[i - 1], order[i])
  BY <1>2, <1>3, <1>4, AddRowsSteps
<1>7. ASSUME NEW a \in Account PROVE F[n][a] = trail[a]
  <2> DEFINE T(i) == {order[j] : j \in {k \in 1 .. i : a \in Touched(order[k])}}
             G == {i \in 0 .. n : Chain(T(i)) /\ IsFiniteSet(T(i)) /\ Listed(T(i), a, F[i][a])}
  <2>1. 0 \in G
    <3>1. T(0) = {}
      OBVIOUS
    <3>2. Chain({}) /\ IsFiniteSet({})
      BY FS_EmptySet DEF Chain
    <3>3. F[0][a] = <<>>
      BY <1>6 DEF none
    <3>4. 0 \in 0 .. n
      BY <1>2
    <3> HIDE DEF T
    <3> QED
      BY <3>1, <3>2, <3>3, <3>4, ListedNone
  <2>2. ASSUME NEW k \in 1 .. n, k - 1 \in G PROVE k \in G
    <3>1. k \in Nat /\ k \in 0 .. n /\ k - 1 \in 0 .. n /\ 1 .. k = (1 .. (k - 1)) \cup {k}
      <4>1. k \in Nat /\ k \in 0 .. n /\ k - 1 \in 0 .. n
        BY <1>2
      <4>2. \A j : j \in 1 .. k <=> j \in (1 .. (k - 1)) \cup {k}
        BY <4>1
      <4> QED
        BY <4>1, <4>2
    <3>2. order[k] \in Refs /\ order[k] \in Ref
      BY <1>2, <1>3
    <3>3. F[k][a] = Add(F[k - 1][a], order[k], a)
      <4>1. F[k - 1] \in Rows /\ F[k] = AddRows(F[k - 1], order[k])
        BY <1>6, <3>1
      <4>2. order[k].tx.stage \in {"inner", "relay1", "relay2"}
        BY <3>2, RelayForms
      <4> QED
        BY <3>2, <4>1, <4>2, AddRowsAdds
    <3>4. CASE a \notin Touched(order[k])
      <4>1. T(k) = T(k - 1)
        BY <3>1, <3>4
      <4>2. F[k][a] = F[k - 1][a]
        BY <3>3, <3>4 DEF Add, AddTo, Touched
      <4> HIDE DEF T
      <4> QED
        BY <2>2, <3>1, <4>1, <4>2
    <3>5. CASE a \in Touched(order[k])
      <4>1. T(k) = T(k - 1) \cup {order[k]}
        BY <3>1, <3>5
      <4>2. ASSUME NEW q \in T(k - 1) PROVE Before(q, order[k])
        <5>1. PICK j \in 1 .. (k - 1) : q = order[j]
          OBVIOUS
        <5>2. j \in 1 .. n /\ j < k
          BY <1>2, <3>1
        <5> QED
          BY <1>2, <5>1, <5>2
      <4> DEFINE S == T(k - 1)
                 moves == F[k - 1][a]
      <4>3. Chain(S) /\ IsFiniteSet(S) /\ Listed(S, a, moves) /\ \A q \in S : Before(q, order[k])
        <5> HIDE DEF T
        <5> QED
          BY <2>2, <4>2
      <4>4. /\ Chain(S \cup {order[k]}) /\ IsFiniteSet(S \cup {order[k]})
            /\ Listed(S \cup {order[k]}, a, Add(moves, order[k], a))
        <5> HIDE DEF S, moves
        <5> QED
          BY <3>2, <4>3, ListedMore
      <4> HIDE DEF T
      <4> QED
        BY <3>1, <3>3, <4>1, <4>4
    <3> QED
      BY <3>4, <3>5
  <2>3. 0 .. n \subseteq G
    <3> HIDE DEF G
    <3> QED
      BY <1>2, <2>1, <2>2, CountUp
  <2>4. T(n) = Touching(a)
    <3>1. \A r \in Touching(a) : r \in T(n)
      BY <1>2 DEF Touching
    <3>2. \A r \in T(n) : r \in Touching(a)
      BY <1>2 DEF Touching
    <3> QED
      BY <3>1, <3>2
  <2>5. n \in 0 .. n
    BY <1>2
  <2>6. Chain(T(n)) /\ IsFiniteSet(T(n)) /\ Listed(T(n), a, F[n][a])
    BY <2>3, <2>5
  <2>7. Listed(Touching(a), a, trail[a])
    BY DEF LedgerInv, ListedInv
  <2> HIDE DEF T
  <2> QED
    BY <2>4, <2>6, <2>7, ListedOnce
<1>8. F[n] \in Rows /\ trail \in Rows
  BY <1>2, <1>6 DEF LedgerInv
<1>9. F[n] = trail
  BY <1>7, <1>8 DEF Rows
<1> QED
  BY <1>5, <1>6, <1>9

\* Wherever accounts move and in whatever order blocks of different shards
\* are stamped and committed: in relay mode the ledgers that are built from
\* the blocks say what the shards have executed.
THEOREM LedgersAsExecuted == Spec => []LedgerAsExecuted
<1>1. ReportInv /\ LedgerInv => LedgerAsExecuted
  BY LedgerFollows DEF ReportInv, LedgerAsExecuted
<1>2. Init => ReportInv /\ LedgerInv
  BY ReportInit, LedgerInit
<1>3. (ReportInv /\ LedgerInv) /\ [Next]_vars => (ReportInv /\ LedgerInv)'
  BY ReportNext, LedgerNext
<1> QED
  BY <1>1, <1>2, <1>3, PTL DEF Spec

\* Whatever shards commit and the supervisor reports: blocks, times, counters
\* and life cycles are of their types, and so are the rows that execution,
\* a fold over the transactions of a block, gives every account.
THEOREM MeasureTyped == Spec => []TypeOK
<1>1. ReportInv /\ LedgerInv => TypeOK
  BY DEF ReportInv, Shape, LedgerInv, Rows, Row, TypeOK
<1>2. Init => ReportInv /\ LedgerInv
  BY ReportInit, LedgerInit
<1>3. (ReportInv /\ LedgerInv) /\ [Next]_vars => (ReportInv /\ LedgerInv)'
  BY ReportNext, LedgerNext
<1> QED
  BY <1>1, <1>2, <1>3, PTL DEF Spec

-----------------------------------------------------------------------------
(***************************************************************************)
(* The processes of a chain run                                            *)
(***************************************************************************)

\* Nothing is killed before the supervisor has been waited for.
NoEarlyKill == phase \in {"start", "wait"} => killed = {}

\* The supervisor is the last process to be started.
StartedLast == phase = "start" => Supervisor \notin procs

\* The channel of the supervisor is filled when it has ended.
ResultMeansEnd == done[Supervisor] \in {"nil", "error"} => Supervisor \notin running

\* Run only gets past wait when the supervisor has ended or the context has.
PastWait ==
    phase \in {"poll", "select", "return", "returned"} /\ Supervisor \in procs
        => cancelled \/ Supervisor \notin running

\* The inductive invariant.
GroupInv ==
    /\ GroupTypeOK
    /\ NoEarlyKill
    /\ StartedLast
    /\ ResultMeansEnd
    /\ PastWait

-----------------------------------------------------------------------------
\* Before anything is started the invariant holds.
LEMMA InitGroupInv == GroupInit => GroupInv
BY DEF GroupInit, GroupInv, GroupTypeOK, DoneState, Proc, NoEarlyKill, StartedLast,
       ResultMeansEnd, PastWait

\* Starting a process, or failing to, keeps the invariant.
LEMMA StartStep ==
    ASSUME GroupInv, NEW p \in Proc, Start(p) \/ StartFails
    PROVE  GroupInv'
<1>1. CASE Start(p)
  <2>1. GroupTypeOK'
    BY <1>1 DEF GroupInv, GroupTypeOK, Start, Recorded, DoneState
  <2>2. NoEarlyKill' /\ StartedLast' /\ PastWait'
    BY <1>1 DEF GroupInv, NoEarlyKill, StartedLast, PastWait, Start, Recorded
  <2>3. ResultMeansEnd'
    <3>1. p = Supervisor => done'[Supervisor] = "empty"
      BY <1>1 DEF GroupInv, GroupTypeOK, Start
    <3>2. p # Supervisor => done'[Supervisor] = done[Supervisor]
      BY <1>1 DEF GroupInv, GroupTypeOK, Start
    <3> QED
      BY <1>1, <3>1, <3>2 DEF GroupInv, ResultMeansEnd, Start
  <2> QED
    BY <2>1, <2>2, <2>3 DEF GroupInv
<1>2. CASE StartFails
  BY <1>2 DEF GroupInv, GroupTypeOK, NoEarlyKill, StartedLast, ResultMeansEnd, PastWait,
              StartFails, KillAll
<1> QED
  BY <1>1, <1>2

\* wait only ends with the supervisor or with the context.
LEMMA WaitStep ==
    ASSUME GroupInv, WaitReceives \/ WaitCancelled
    PROVE  GroupInv'
<1>1. CASE WaitReceives
  <2>1. done[Supervisor] \in {"nil", "error"} /\ supErr' = done[Supervisor]
        /\ done' = [done EXCEPT ![Supervisor] = "empty"]
    BY <1>1 DEF WaitReceives, Awaited
  <2>2. Supervisor \notin running
    BY <2>1 DEF GroupInv, ResultMeansEnd
  <2>3. GroupTypeOK'
    BY <1>1, <2>1 DEF GroupInv, GroupTypeOK, DoneState, WaitReceives
  <2> QED
    BY <1>1, <2>2, <2>3 DEF GroupInv, NoEarlyKill, StartedLast, ResultMeansEnd, PastWait,
                            WaitReceives
<1>2. CASE WaitCancelled
  BY <1>2 DEF GroupInv, GroupTypeOK, NoEarlyKill, StartedLast, ResultMeansEnd, PastWait,
              WaitCancelled
<1> QED
  BY <1>1, <1>2

\* The steps of waitGrace and the end of Run keep the invariant.
LEMMA GraceStep ==
    ASSUME GroupInv, Poll \/ KillLeftovers \/ PollAgain \/ Return
    PROVE  GroupInv'
<1>1. CASE Poll
  <2>1. GroupTypeOK'
    BY <1>1 DEF GroupInv, GroupTypeOK, DoneState, Poll
  <2>2. done'[Supervisor] \in {"empty", "absent"}
    BY <1>1 DEF Poll, Proc
  <2> QED
    BY <1>1, <2>1, <2>2 DEF GroupInv, NoEarlyKill, StartedLast, ResultMeansEnd, PastWait, Poll
<1>2. CASE KillLeftovers
  BY <1>2 DEF GroupInv, GroupTypeOK, NoEarlyKill, StartedLast, ResultMeansEnd, PastWait,
              KillLeftovers, KillAll
<1>3. CASE PollAgain
  BY <1>3 DEF GroupInv, GroupTypeOK, NoEarlyKill, StartedLast, ResultMeansEnd, PastWait,
              PollAgain
<1>4. CASE Return
  BY <1>4 DEF GroupInv, GroupTypeOK, NoEarlyKill, StartedLast, ResultMeansEnd, PastWait,
              Return, KillAll
<1> QED
  BY <1>1, <1>2, <1>3, <1>4

\* A process that ends never starts again.
LEMMA ReapStep ==
    ASSUME GroupInv, NEW p \in running, NEW err \in {"nil", "error"}, Reap(p, err)
    PROVE  GroupInv'
<1>1. GroupTypeOK'
  BY DEF GroupInv, GroupTypeOK, DoneState, Reap, runVars
<1>2. ResultMeansEnd'
  <2>1. p \in Proc
    BY DEF GroupInv, GroupTypeOK
  <2>2. p # Supervisor => done'[Supervisor] = done[Supervisor]
    BY <2>1 DEF GroupInv, GroupTypeOK, Reap
  <2> QED
    BY <2>2 DEF GroupInv, ResultMeansEnd, Reap
<1> QED
  BY <1>1, <1>2 DEF GroupInv, NoEarlyKill, StartedLast, PastWait, Reap, runVars

\* Every step keeps the invariant.
LEMMA StepGroupInv == GroupInv /\ [GroupNext]_groupVars => GroupInv'
<1> SUFFICES ASSUME GroupInv, [GroupNext]_groupVars PROVE GroupInv'
  OBVIOUS
<1>1. CASE Run
  BY <1>1, StartStep, WaitStep, GraceStep DEF Run, Proc
<1>2. CASE \E p \in Proc : Exit(p) \/ Die(p)
  BY <1>2, ReapStep DEF Exit, Die
<1>3. CASE Cancel
  BY <1>3 DEF GroupInv, GroupTypeOK, NoEarlyKill, StartedLast, ResultMeansEnd, PastWait,
              Cancel, runVars
<1>4. CASE GraceEnds
  BY <1>4 DEF GroupInv, GroupTypeOK, NoEarlyKill, StartedLast, ResultMeansEnd, PastWait,
              GraceEnds
<1>5. CASE UNCHANGED groupVars
  BY <1>5 DEF GroupInv, GroupTypeOK, NoEarlyKill, StartedLast, ResultMeansEnd, PastWait,
              groupVars, runVars
<1> QED
  BY <1>1, <1>2, <1>3, <1>4, <1>5 DEF GroupNext

\* However children exit, crash and are killed around Run, and whenever the
\* context ends: nothing is killed under a working supervisor.
THEOREM NotCutShort == GroupSpec => []RunsToTheEnd
<1>1. GroupInv => RunsToTheEnd
  BY DEF GroupInv, GroupTypeOK, NoEarlyKill, StartedLast, PastWait, RunsToTheEnd
<1> QED
  BY <1>1, InitGroupInv, StepGroupInv, PTL DEF GroupSpec

\* Only processes that were started run or are sent a kill signal.
THEOREM ProcessesTyped == GroupSpec => []GroupTypeOK
<1>1. GroupInv => GroupTypeOK
  BY DEF GroupInv
<1> QED
  BY <1>1, InitGroupInv, StepGroupInv, PTL DEF GroupSpec
=================================================================================

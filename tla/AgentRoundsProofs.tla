-------------------------- MODULE AgentRoundsProofs --------------------------
(***************************************************************************)
(* Proofs about AgentRounds for any agents, seeds and traces and any       *)
(* number of rounds and calls, wherever calls break off: addresses stay    *)
(* stable and nonces follow each other.                                    *)
(***************************************************************************)
EXTENDS AgentRounds, TransferSums, FiniteSetTheorems, TLAPS

Link == [agent : Agent \cup {NoDID}, txs : SUBSET Tx]

\* The positions among the first n of a plan that x has sent.
SentBy(plan, n, x) == {j \in 1 .. n : plan[j].sender = x}

\* A counter holds the number of transactions its sender has in the plan.
NonceInv ==
    \A x \in Addr : nonces[x] = Cardinality(SentBy(txs, Len(txs), x))

\* The entry of an agent's action with a transaction.
Named(link) == link.agent # NoDID /\ link.txs # {}

\* The entry's transactions come from the address reg has for the agent.
Fits(link, reg) ==
    /\ reg[link.agent].did # NoDID
    /\ ActsAs(link) = {reg[link.agent].did}

\* The steps of a round in which its registry is in memory.
Working == {"process", "registry", "links", "plan", "chain", "running", "end"}

\* The steps of a round that follow the writing of the registry.
Written == Working \ {"process", "registry"}

\* An entry of a file belongs to the registry in the file, if it can be read,
\* to the one in memory, and to the entries of all other files; entries in
\* memory belong to the registry in memory.
DIDInv ==
    /\ \A r \in Round : \A i \in DOMAIN linksFile[r] : Named(linksFile[r][i]) =>
          /\ registryFile.state # "absent"
          /\ registryFile.state = "written" => Fits(linksFile[r][i], registryFile.agents)
          /\ pc \in Working => Fits(linksFile[r][i], registry)
          /\ \A q \in Round : \A j \in DOMAIN linksFile[q] :
                Named(linksFile[q][j]) /\ linksFile[q][j].agent = linksFile[r][i].agent
                    => ActsAs(linksFile[q][j]) = ActsAs(linksFile[r][i])
    /\ \A i \in DOMAIN links : Named(links[i]) => Fits(links[i], registry)
    /\ pc \in Written =>
          registryFile = [state |-> "written", agents |-> registry]

\* An active agent has an address.
ActiveInv ==
    \A a \in Agent :
        /\ registry[a].active => registry[a].did # NoDID
        /\ registryFile.agents[a].active => registryFile.agents[a].did # NoDID

IInv ==
    /\ TypeOK
    /\ ActiveInv
    /\ NonceInv
    /\ NoncesInOrder
    /\ DIDInv

-----------------------------------------------------------------------------

\* What Append does to a sequence.
LEMMA AppendFacts ==
    ASSUME NEW S, NEW seq \in Seq(S), NEW e \in S
    PROVE  /\ Append(seq, e) \in Seq(S)
           /\ Len(seq) \in Nat
           /\ Len(Append(seq, e)) = Len(seq) + 1
           /\ DOMAIN Append(seq, e) = 1 .. (Len(seq) + 1)
           /\ DOMAIN seq = 1 .. Len(seq)
           /\ \A i \in 1 .. Len(seq) : Append(seq, e)[i] = seq[i]
           /\ Append(seq, e)[Len(seq) + 1] = e
  OBVIOUS

LEMMA InSeq ==
    ASSUME NEW S, NEW seq \in Seq(S)
    PROVE  \A i \in DOMAIN seq : seq[i] \in S
  OBVIOUS

\* Positions of a plan are finitely many.
LEMMA SentByFinite ==
    ASSUME NEW plan, NEW n \in Nat, NEW x
    PROVE  IsFiniteSet(SentBy(plan, n, x)) /\ Cardinality(SentBy(plan, n, x)) \in Nat
<1>1. IsFiniteSet(1 .. n)
  BY FS_Interval
<1>2. SentBy(plan, n, x) \in SUBSET (1 .. n)
  BY DEF SentBy
<1>3. IsFiniteSet(SentBy(plan, n, x))
  BY <1>1, <1>2, FS_Subset
<1> QED
  BY <1>3, FS_CardinalityType

\* One more transaction of sender x adds one to x's count and to no other.
LEMMA SentByAppend ==
    ASSUME NEW plan \in Seq(Tx), NEW tx \in Tx, NEW x
    PROVE  /\ \A n \in 0 .. Len(plan) : SentBy(Append(plan, tx), n, x) = SentBy(plan, n, x)
           /\ Cardinality(SentBy(Append(plan, tx), Len(plan) + 1, x))
                = Cardinality(SentBy(plan, Len(plan), x)) + (IF tx.sender = x THEN 1 ELSE 0)
<1> DEFINE k == Len(plan)
           longer == Append(plan, tx)
<1>1. k \in Nat /\ \A i \in 1 .. k : longer[i] = plan[i]
  BY AppendFacts
<1>2. longer[k + 1] = tx
  BY AppendFacts
<1> HIDE DEF longer, k
<1>3. \A n \in 0 .. k : SentBy(longer, n, x) = SentBy(plan, n, x)
  BY <1>1 DEF SentBy
<1>4. IsFiniteSet(SentBy(plan, k, x)) /\ Cardinality(SentBy(plan, k, x)) \in Nat
  BY <1>1, SentByFinite
<1>5. CASE tx.sender = x
  <2>1. SentBy(longer, k + 1, x) = SentBy(plan, k, x) \cup {k + 1}
    BY <1>1, <1>2, <1>5 DEF SentBy
  <2>2. k + 1 \notin SentBy(plan, k, x)
    BY <1>1 DEF SentBy
  <2>3. Cardinality(SentBy(longer, k + 1, x)) = Cardinality(SentBy(plan, k, x)) + 1
    BY <1>4, <2>1, <2>2, FS_AddElement
  <2> QED
    BY <1>3, <1>5, <2>3 DEF longer, k
<1>6. CASE tx.sender # x
  <2>1. SentBy(longer, k + 1, x) = SentBy(plan, k, x)
    BY <1>1, <1>2, <1>6 DEF SentBy
  <2> QED
    BY <1>3, <1>4, <1>6, <2>1 DEF longer, k
<1> QED
  BY <1>5, <1>6

\* An empty plan.
LEMMA NoTxs ==
    ASSUME TypeOK, txs' = <<>>, nonces' = [x \in Addr |-> 0]
    PROVE  NonceInv' /\ NoncesInOrder'
<1>1. Len(txs') = 0 /\ DOMAIN txs' = {}
  OBVIOUS
<1>2. \A x : SentBy(txs', 0, x) = {}
  BY DEF SentBy
<1>3. Cardinality({}) = 0
  BY FS_EmptySet
<1> QED
  BY <1>1, <1>2, <1>3 DEF NonceInv, NoncesInOrder

\* The transaction that appendTx makes.
NewTx(from, to, value, op) ==
    [sender |-> from, recipient |-> to, value |-> value, nonce |-> nonces[from], op |-> op]

\* What a record with transaction tx leaves behind.
Appended(agent, tx) ==
    /\ NonceInv' /\ NoncesInOrder'
    /\ txs' \in Seq(Tx) /\ nonces' \in [Addr -> Nat]
    /\ links' = Append(links, [agent |-> agent, txs |-> {tx}])

\* appendTx draws the nonce from the counter of the sender.
LEMMA NonceStep ==
    ASSUME IInv, NEW agent, NEW from \in Addr, NEW to \in Addr, NEW value \in {0, 1},
           NEW op \in {"none", "register", "revoke"}, AppendTx(agent, from, to, value, op)
    PROVE  /\ Appended(agent, NewTx(from, to, value, op))
           /\ NewTx(from, to, value, op) \in Tx
           /\ NewTx(from, to, value, op).sender = from
<1> USE DEF IInv
<1> DEFINE tx == NewTx(from, to, value, op)
           k == Len(txs)
<1>1. txs \in Seq(Tx) /\ nonces \in [Addr -> Nat]
  BY DEF TypeOK
<1>2. tx \in Tx
  BY <1>1 DEF Tx, NewTx
<1>3. /\ txs' = Append(txs, tx)
      /\ nonces' = [nonces EXCEPT ![from] = @ + 1]
      /\ links' = Append(links, [agent |-> agent, txs |-> {tx}])
  BY DEF AppendTx, NextNonce, NewTx
<1>4. tx.sender = from /\ tx.nonce = nonces[from]
  BY DEF NewTx
<1> HIDE DEF tx
<1>5. /\ k \in Nat /\ Len(txs') = k + 1 /\ DOMAIN txs' = 1 .. (k + 1) /\ DOMAIN txs = 1 .. k
      /\ txs' \in Seq(Tx)
      /\ \A i \in 1 .. k : txs'[i] = txs[i]
      /\ txs'[k + 1] = tx
  BY <1>1, <1>2, <1>3, AppendFacts
<1>6. NonceInv'
  <2>1. \A x \in Addr : Cardinality(SentBy(txs', k + 1, x))
                          = nonces[x] + (IF from = x THEN 1 ELSE 0)
    BY <1>1, <1>2, <1>3, <1>4, SentByAppend DEF NonceInv
  <2>2. \A x \in Addr : nonces'[x] = nonces[x] + (IF from = x THEN 1 ELSE 0)
    BY <1>1, <1>3
  <2> QED
    BY <1>5, <2>1, <2>2 DEF NonceInv
<1>7. NoncesInOrder'
  <2>1. ASSUME NEW i \in 1 .. (k + 1)
        PROVE  txs'[i].nonce = Cardinality(SentBy(txs', i - 1, txs'[i].sender))
    <3>1. i - 1 \in 0 .. k
      BY <1>5
    <3>2. \A x : SentBy(txs', i - 1, x) = SentBy(txs, i - 1, x)
      BY <1>1, <1>2, <1>3, <3>1, SentByAppend
    <3>3. CASE i = k + 1
      <4>1. txs'[i] = tx /\ i - 1 = k
        BY <1>5, <3>3
      <4>2. nonces[from] = Cardinality(SentBy(txs, k, from))
        BY DEF NonceInv
      <4> QED
        BY <1>4, <3>2, <4>1, <4>2
    <3>4. CASE i \in 1 .. k
      <4>1. txs'[i] = txs[i]
        BY <1>5, <3>4
      <4>2. txs[i].nonce = Cardinality(SentBy(txs, i - 1, txs[i].sender))
        BY <1>5, <3>4 DEF NoncesInOrder, SentBy
      <4> QED
        BY <3>2, <4>1, <4>2
    <3> QED
      BY <1>5, <3>3, <3>4
  <2> QED
    BY <1>5, <2>1 DEF NoncesInOrder, SentBy
<1>8. nonces' \in [Addr -> Nat]
  BY <1>1, <1>3
<1> QED
  BY <1>2, <1>3, <1>4, <1>5, <1>6, <1>7, <1>8 DEF tx, Appended

LEMMA InitIInv == Init => IInv
<1> SUFFICES ASSUME Init PROVE IInv
  OBVIOUS
<1> USE DEF Init
<1>1. Empty \in Registry
  BY DEF Empty, Registry, Entry
<1>2. TypeOK
  <2>1. 1 \in Round /\ 0 \in 0 .. MaxRounds /\ 0 \in 0 .. MaxStarts /\ 0 \in 0 .. MaxRecords
    BY RoundAssumption DEF Round
  <2>2. nonces \in [Addr -> Nat] /\ txs \in Seq(Tx) /\ links \in Seq(Link)
    OBVIOUS
  <2>3. linksFile \in [Round -> Seq(Link)] /\ planFile \in [Round -> Seq(Tx)]
    OBVIOUS
  <2>4. csv \in [Round -> SUBSET (Agent \X Tx)]
    BY DEF NoFiles
  <2>6. /\ created \in [Round -> SUBSET Process]
        /\ opened \in [Round -> SUBSET Shard]
        /\ store \in [Round -> [Shard -> SUBSET Leg]]
        /\ proc \in [Process -> {"off", "up", "down"}]
    BY DEF NoFiles, NoBlocks, AllOff
  <2>5. registryFile \in [state : {"absent", "torn", "written"}, agents : Registry]
    BY <1>1 DEF Absent
  <2> QED
    BY <1>1, <2>1, <2>2, <2>3, <2>4, <2>5, <2>6 DEF TypeOK, Link
<1>3. NonceInv /\ NoncesInOrder
  <2>1. Len(txs) = 0 /\ DOMAIN txs = {}
    OBVIOUS
  <2>2. \A x : SentBy(txs, 0, x) = {}
    BY DEF SentBy
  <2>3. Cardinality({}) = 0
    BY FS_EmptySet
  <2> QED
    BY <2>1, <2>2, <2>3 DEF NonceInv, NoncesInOrder
<1>4. DIDInv
  BY DEF DIDInv, Working, Written
<1>5. ActiveInv
  BY DEF ActiveInv, Absent, Empty
<1> QED
  BY <1>2, <1>3, <1>4, <1>5 DEF IInv

-----------------------------------------------------------------------------
(***************************************************************************)
(* The records of a trace                                                  *)
(***************************************************************************)

\* A record changes neither files nor what agents are known by: an agent that
\* has an address keeps it, and a new entry acts under the address of its
\* agent.
LEMMA RecordKeepsDIDs ==
    ASSUME IInv, TakeRecord,
           \A a \in Agent : registry[a].did # NoDID => registry'[a].did = registry[a].did,
           \A i \in DOMAIN links' : \/ i \in DOMAIN links /\ links'[i] = links[i]
                                    \/ Named(links'[i]) => Fits(links'[i], registry')
    PROVE  DIDInv'
<1> USE DEF IInv
<1>1. /\ UNCHANGED <<registryFile, linksFile, pc>> /\ pc = "process"
  BY DEF TakeRecord, fileVars
<1>2. \A link \in Link : Named(link) /\ Fits(link, registry) => Fits(link, registry')
  BY DEF Link, Named, Fits, ActsAs
<1>3. \A r \in Round : \A i \in DOMAIN linksFile[r] : linksFile[r][i] \in Link
  <2>1. \A r \in Round : linksFile[r] \in Seq(Link)
    BY DEF TypeOK, Link
  <2> QED
    BY <2>1, InSeq
<1>4. \A i \in DOMAIN links : links[i] \in Link
  <2>1. links \in Seq(Link)
    BY DEF TypeOK, Link
  <2> QED
    BY <2>1, InSeq
<1>5. \A r \in Round : \A i \in DOMAIN linksFile[r] :
        Named(linksFile[r][i]) => Fits(linksFile[r][i], registry')
  BY <1>1, <1>2, <1>3 DEF DIDInv, Working
<1>6. \A i \in DOMAIN links' : Named(links'[i]) => Fits(links'[i], registry')
  BY <1>2, <1>4 DEF DIDInv
<1> QED
  BY <1>1, <1>5, <1>6 DEF DIDInv, Written

\* A record with a transaction: the registry is changed so that every agent
\* keeps its address, and the sender is the address of the agent.
LEMMA AppendStep ==
    ASSUME IInv, TakeRecord,
           NEW agent \in Agent \cup {NoDID}, NEW tx \in Tx, Appended(agent, tx),
           registry' \in Registry,
           \A a \in Agent : registry'[a].active => registry'[a].did # NoDID,
           \A a \in Agent : registry[a].did # NoDID => registry'[a].did = registry[a].did,
           agent # NoDID => tx.sender = registry'[agent].did /\ tx.sender # NoDID
    PROVE  IInv'
<1> DEFINE link == [agent |-> agent, txs |-> {tx}]
<1>1. links' = Append(links, [agent |-> agent, txs |-> {tx}])
  BY DEF Appended
<1>2. /\ NonceInv' /\ NoncesInOrder'
      /\ txs' \in Seq(Tx) /\ nonces' \in [Addr -> Nat]
  BY DEF Appended
<1>3. link \in Link
  BY DEF Link
<1>4. Named(link) => Fits(link, registry')
  BY DEF Named, Fits, ActsAs
<1>5. links \in Seq(Link)
  BY DEF IInv, TypeOK, Link
<1> HIDE DEF link
<1>6. links' \in Seq(Link)
  BY <1>1, <1>3, <1>5 DEF link
<1>7. \A i \in DOMAIN links' : \/ i \in DOMAIN links /\ links'[i] = links[i]
                               \/ links'[i] = link
  BY <1>1, <1>3, <1>5, AppendFacts DEF link
<1>8. TypeOK'
  <2>1. /\ UNCHANGED <<fileVars, starts, seed, chain, pc, round, proc, base>>
        /\ read' \in 0 .. MaxRecords
    BY RoundAssumption DEF TakeRecord, IInv, TypeOK
  <2> QED
    BY <1>2, <1>6, <2>1 DEF IInv, TypeOK, fileVars, chainFiles, Link
<1>9. DIDInv'
  BY <1>4, <1>7, RecordKeepsDIDs
<1>10. ActiveInv'
  BY DEF IInv, ActiveInv, TakeRecord, fileVars
<1> QED
  BY <1>2, <1>8, <1>9, <1>10 DEF IInv

LEMMA RecordStep ==
    ASSUME IInv,
           \/ \E a \in Agent : ProcessJoin(a) \/ ProcessLeave(a)
           \/ \E a, b \in Agent : ProcessPay(a, b)
           \/ \E spec \in RawSpec : ProcessRawTx(spec)
    PROVE  IInv'
<1>1. TakeRecord
  BY DEF ProcessJoin, ProcessLeave, ProcessPay, ProcessRawTx
<1>2. /\ UNCHANGED <<fileVars, starts, seed, chain, pc, round, proc, base>>
      /\ read' \in 0 .. MaxRecords
  BY <1>1, RoundAssumption DEF TakeRecord, IInv, TypeOK
<1>3. /\ registry \in Registry /\ txs \in Seq(Tx) /\ links \in Seq(Link)
      /\ nonces \in [Addr -> Nat] /\ seed \in Seed
  BY DEF IInv, TypeOK, Link
<1>4. DID \subseteq Addr /\ Contract \in Addr
      /\ \A spec \in RawSpec : spec[1] \in Addr /\ spec[2] \in Addr
  BY DEF Addr
<1>5. \A a \in Agent : registry[a] \in Entry /\ (registry[a].did # NoDID => registry[a].did \in DID)
  BY <1>3 DEF Registry, Entry
<1>6. ASSUME NEW a \in Agent, ProcessJoin(a) PROVE IInv'
  <2> DEFINE did == IF registry[a].did = NoDID THEN AllocatedDID(seed, a) ELSE registry[a].did
  <2>1. registry' = [registry EXCEPT ![a] = [did |-> did, active |-> TRUE]]
    BY <1>6 DEF ProcessJoin
  <2>2. did \in DID /\ did # NoDID
    BY <1>3, <1>5, RoundAssumption DEF DID
  <2> HIDE DEF did
  <2>3. registry' \in Registry /\ registry'[a].did = did
    BY <1>3, <2>1, <2>2 DEF Registry, Entry
  <2>4. \A b \in Agent : /\ registry[b].did # NoDID => registry'[b].did = registry[b].did
                         /\ registry'[b].active => registry'[b].did # NoDID
    BY <1>3, <2>1, <2>2 DEF IInv, Registry, ActiveInv, did
  <2>5. CASE Changed(a)
    <3>1. AppendTx(a, did, Contract, 0, "register")
      BY <1>6, <2>5 DEF ProcessJoin, did
    <3> DEFINE tx == NewTx(did, Contract, 0, "register")
    <3>2. Appended(a, tx) /\ tx \in Tx /\ tx.sender = did
      BY <1>4, <2>2, <3>1, NonceStep
    <3> HIDE DEF tx
    <3> QED
      BY <1>1, <2>2, <2>3, <2>4, <3>2, AppendStep
  <2>6. CASE ~Changed(a)
    <3> DEFINE link == [agent |-> a, txs |-> {}]
    <3>1. links' = Append(links, link) /\ UNCHANGED <<txs, nonces>>
      BY <1>6, <2>6 DEF ProcessJoin
    <3>2. link \in Link /\ ~Named(link)
      BY DEF Link, Named
    <3> HIDE DEF link
    <3>3. links' \in Seq(Link)
      BY <1>3, <3>1, <3>2
    <3>4. \A i \in DOMAIN links' : \/ i \in DOMAIN links /\ links'[i] = links[i]
                                   \/ links'[i] = link
      BY <1>3, <3>1, <3>2, AppendFacts
    <3>5. TypeOK'
      BY <1>2, <2>3, <3>1, <3>3 DEF IInv, TypeOK, fileVars, chainFiles, Link
    <3>6. DIDInv'
      BY <1>1, <2>4, <3>2, <3>4, RecordKeepsDIDs
    <3>7. NonceInv' /\ NoncesInOrder'
      BY <3>1 DEF IInv, NonceInv, NoncesInOrder
    <3>8. ActiveInv'
      BY <1>2, <2>4 DEF IInv, ActiveInv, fileVars
    <3> QED
      BY <3>5, <3>6, <3>7, <3>8 DEF IInv
  <2> QED
    BY <2>5, <2>6
<1>7. ASSUME NEW a \in Agent, ProcessLeave(a) PROVE IInv'
  <2>1. /\ registry[a].active
        /\ registry' = [registry EXCEPT ![a].active = FALSE]
        /\ AppendTx(a, registry[a].did, Contract, 0, "revoke")
    BY <1>7 DEF ProcessLeave
  <2>2. registry[a].did \in DID /\ registry[a].did # NoDID
    BY <1>5, <2>1 DEF IInv, ActiveInv
  <2>3. /\ registry' \in Registry /\ ~registry'[a].active
        /\ \A b \in Agent : registry'[b].did = registry[b].did
        /\ \A b \in Agent \ {a} : registry'[b] = registry[b]
    BY <1>3, <2>1 DEF Registry, Entry
  <2>4. \A b \in Agent : registry'[b].active => registry'[b].did # NoDID
    BY <2>3 DEF IInv, ActiveInv
  <2> DEFINE tx == NewTx(registry[a].did, Contract, 0, "revoke")
  <2>5. Appended(a, tx) /\ tx \in Tx /\ tx.sender = registry[a].did
    BY <1>4, <2>1, <2>2, NonceStep
  <2> HIDE DEF tx
  <2> QED
    BY <1>1, <2>2, <2>3, <2>4, <2>5, AppendStep
<1>8. ASSUME NEW a \in Agent, NEW b \in Agent, ProcessPay(a, b) PROVE IInv'
  <2>1. /\ registry[a].active /\ registry[b].active /\ registry' = registry
        /\ AppendTx(a, registry[a].did, registry[b].did, 1, "none")
    BY <1>8 DEF ProcessPay
  <2>2. registry[a].did \in DID /\ registry[a].did # NoDID /\ registry[b].did \in DID
    BY <1>5, <2>1 DEF IInv, ActiveInv
  <2>3. \A c \in Agent : registry'[c].active => registry'[c].did # NoDID
    BY <2>1 DEF IInv, ActiveInv
  <2> DEFINE tx == NewTx(registry[a].did, registry[b].did, 1, "none")
  <2>4. Appended(a, tx) /\ tx \in Tx /\ tx.sender = registry[a].did
    BY <1>4, <2>1, <2>2, NonceStep
  <2> HIDE DEF tx
  <2> QED
    BY <1>1, <1>3, <2>1, <2>2, <2>3, <2>4, AppendStep
<1>9. ASSUME NEW spec \in RawSpec, ProcessRawTx(spec) PROVE IInv'
  <2>1. /\ registry' = registry
        /\ AppendTx(NoDID, spec[1], spec[2], 1, "none")
    BY <1>9 DEF ProcessRawTx
  <2>2. \A c \in Agent : registry'[c].active => registry'[c].did # NoDID
    BY <2>1 DEF IInv, ActiveInv
  <2> DEFINE tx == NewTx(spec[1], spec[2], 1, "none")
  <2>3. Appended(NoDID, tx) /\ tx \in Tx
    BY <1>4, <2>1, NonceStep
  <2> HIDE DEF tx
  <2> QED
    BY <1>1, <1>3, <2>1, <2>2, <2>3, AppendStep
<1> QED
  BY <1>6, <1>7, <1>8, <1>9

-----------------------------------------------------------------------------
(***************************************************************************)
(* The other steps of a call                                               *)
(***************************************************************************)

\* A step of the cluster.
ClusterStep ==
    \/ \E s \in Shard : NodeStarts(s)
    \/ SupervisorStarts
    \/ \E s \in Shard : \E tx \in Range(planFile[round]) : Commit(s, tx)

LEMMA PlanType ==
    ASSUME TypeOK
    PROVE  Range(planFile[round]) \subseteq Tx
<1>1. planFile[round] \in Seq(Tx)
  BY DEF TypeOK
<1> QED
  BY <1>1, InSeq DEF Range

LEMMA ClusterTypes ==
    ASSUME TypeOK, ClusterStep
    PROVE  TypeOK'
<1> USE DEF TypeOK, callVars, hostVars
<1>0. Shard \subseteq Process /\ Supervisor \in Process
  BY DEF Process
<1>1. ASSUME NEW s \in Shard, NodeStarts(s) PROVE TypeOK'
  <2>1. store' \in [Round -> [Shard -> SUBSET Leg]]
    BY <1>1 DEF NodeStarts
  <2>2. opened' \in [Round -> SUBSET Shard]
    BY <1>1 DEF NodeStarts
  <2>3. /\ \/ created' = created
           \/ created' = [created EXCEPT ![round] = @ \cup {s}]
        /\ \/ proc' = [proc EXCEPT ![s] = "up"]
           \/ proc' = [proc EXCEPT ![s] = "down"]
    BY <1>1 DEF NodeStarts
  <2>4. s \in Process
    BY <1>0
  <2>5. created' \in [Round -> SUBSET Process]
    <3>1. created \in [Round -> SUBSET Process] /\ created[round] \in SUBSET Process
      OBVIOUS
    <3> DEFINE files == created[round] \cup {s}
    <3>2. files \in SUBSET Process
      BY <2>4, <3>1
    <3>3. created' = created \/ created' = [created EXCEPT ![round] = files]
      BY <2>3
    <3> HIDE DEF files, TypeOK
    <3> QED
      BY <3>1, <3>2, <3>3
  <2>6. proc' \in [Process -> {"off", "up", "down"}]
    BY <2>3, <2>4
  <2> QED
    BY <1>1, <2>1, <2>2, <2>5, <2>6 DEF NodeStarts
<1>2. CASE SupervisorStarts
  <2>1. created' \in [Round -> SUBSET Process] /\ proc' \in [Process -> {"off", "up", "down"}]
    BY <1>0, <1>2 DEF SupervisorStarts
  <2> QED
    BY <1>2, <2>1 DEF SupervisorStarts
<1>3. ASSUME NEW s \in Shard, NEW tx \in Range(planFile[round]), Commit(s, tx) PROVE TypeOK'
  <2>1. PICK stage \in {"whole", "relay1", "relay2"} :
           store' = [store EXCEPT ![round][s] = @ \cup {[tx |-> tx, stage |-> stage]}]
    BY <1>3 DEF Commit
  <2>2. [tx |-> tx, stage |-> stage] \in Leg
    BY PlanType DEF Leg
  <2>3. store' \in [Round -> [Shard -> SUBSET Leg]]
    BY <2>1, <2>2
  <2> QED
    BY <1>3, <2>3 DEF Commit
<1> QED
  BY <1>1, <1>2, <1>3 DEF ClusterStep

\* Types first.
LEMMA OtherTypes ==
    ASSUME TypeOK,
           \/ Call \/ RemoveResults \/ NewAgentSupervisor \/ TruncateRegistry
           \/ WriteRegistry \/ WriteActionTxMap \/ WritePlan \/ ChainStarts
           \/ ClusterStep
           \/ WriteAgentCSVs \/ Finish \/ NextTrace \/ Abort
    PROVE  TypeOK'
<1> USE RoundAssumption DEF TypeOK, Round, fileVars, chainFiles, callVars, hostVars
<1>1. /\ Empty \in Registry /\ <<>> \in Seq(Tx) /\ <<>> \in Seq(Link)
      /\ [x \in Addr |-> 0] \in [Addr -> Nat]
      /\ AllOff \in [Process -> {"off", "up", "down"}]
  BY DEF Empty, Registry, Entry, AllOff
<1>0. /\ 1 \in 1 .. MaxRounds
      /\ starts < MaxStarts => starts + 1 \in 0 .. MaxStarts
  OBVIOUS
<1>2. CASE Call
  BY <1>0, <1>2 DEF Call
<1>3. CASE RemoveResults
  BY <1>1, <1>3 DEF RemoveResults, Absent, Link, NoFiles, NoBlocks
<1>4. CASE NewAgentSupervisor
  BY <1>1, <1>4 DEF NewAgentSupervisor, Link
<1>5. CASE TruncateRegistry
  <2>1. registryFile' = [state |-> "torn", agents |-> Empty]
    BY <1>5 DEF TruncateRegistry
  <2> QED
    BY <1>1, <1>5, <2>1 DEF TruncateRegistry
<1>6. CASE WriteRegistry
  BY <1>6 DEF WriteRegistry
<1>7. CASE WriteActionTxMap
  BY <1>7 DEF WriteActionTxMap
<1>8. CASE WritePlan
  BY <1>8 DEF WritePlan
<1>9. CASE ChainStarts
  BY <1>9 DEF ChainStarts
<1>10. CASE WriteAgentCSVs
  <2>1. \A s \in Shard : \A leg \in store[round][s] : leg.tx \in Tx
    BY DEF Leg
  <2>2. \A a \in Agent : RowsOf(a) \subseteq Agent \X Tx
    BY <2>1 DEF RowsOf
  <2> DEFINE rows == {row \in csv[round] : RowsOf(row[1]) = {}} \cup UNION {RowsOf(a) : a \in Agent}
  <2>3. rows \in SUBSET (Agent \X Tx) /\ csv' = [csv EXCEPT ![round] = rows]
    <3>1. csv[round] \in SUBSET (Agent \X Tx)
      OBVIOUS
    <3>2. csv' = [csv EXCEPT ![round] = rows]
      BY <1>10 DEF WriteAgentCSVs
    <3> QED
      BY <2>2, <3>1, <3>2
  <2> HIDE DEF rows
  <2>4. csv' \in [Round -> SUBSET (Agent \X Tx)]
    BY <2>3
  <2> QED
    BY <1>1, <1>10, <2>4 DEF WriteAgentCSVs
<1>11. CASE Finish
  <2>1. round \in 0 .. MaxRounds
    OBVIOUS
  <2> QED
    BY <1>1, <1>0, <1>11, <2>1 DEF Finish, Exit, Link
<1>12. CASE NextTrace
  <2>1. round < MaxRounds => round + 1 \in 1 .. MaxRounds
    OBVIOUS
  <2> QED
    BY <1>0, <1>12, <2>1 DEF NextTrace
<1>13. CASE Abort
  BY <1>1, <1>0, <1>13 DEF Abort, Exit, Link
<1> QED
  BY <1>2, <1>3, <1>4, <1>5, <1>6, <1>7, <1>8, <1>9, <1>10, <1>11, <1>12, <1>13,
     ClusterTypes

\* A step that leaves the memory of the round and the files of registry and
\* actions alone.
LEMMA MemoryKept ==
    ASSUME IInv, TypeOK', UNCHANGED <<registryFile, linksFile, hostVars>>,
           pc' \in Working => pc \in Working,
           pc' \in Written => pc \in Written
    PROVE  IInv'
<1> USE DEF IInv, hostVars
<1>1. NonceInv' /\ NoncesInOrder' /\ ActiveInv'
  BY DEF NonceInv, NoncesInOrder, ActiveInv
<1>2. DIDInv'
  BY DEF DIDInv
<1> QED
  BY <1>1, <1>2

\* The end of a call: the memory is gone.
LEMMA MemoryGone ==
    ASSUME IInv, TypeOK', UNCHANGED <<registryFile, linksFile>>, Exit, pc' \notin Working
    PROVE  IInv'
<1> USE DEF IInv
<1>1. registry' = Empty /\ links' = <<>> /\ txs' = <<>> /\ nonces' = [x \in Addr |-> 0]
  BY DEF Exit
<1>2. NonceInv' /\ NoncesInOrder'
  BY <1>1, NoTxs
<1>3. ActiveInv'
  BY <1>1 DEF ActiveInv, Empty
<1>4. DIDInv'
  <2>1. DOMAIN links' = {}
    BY <1>1
  <2> QED
    BY <2>1 DEF DIDInv, Written
<1> QED
  BY <1>2, <1>3, <1>4

\* A round begins with the registry of the file; without a file there is no
\* entry it could disagree with.
LEMMA LoadStep ==
    ASSUME IInv, NewAgentSupervisor
    PROVE  IInv'
<1> USE DEF IInv
<1>1. TypeOK'
  BY OtherTypes
<1>2. /\ registry' = registryFile.agents /\ links' = <<>> /\ txs' = <<>>
      /\ nonces' = [x \in Addr |-> 0] /\ pc' = "process"
      /\ registryFile.state # "torn"
      /\ UNCHANGED <<registryFile, linksFile>>
  BY DEF NewAgentSupervisor, Decodable, fileVars
<1>3. NonceInv' /\ NoncesInOrder'
  BY <1>2, NoTxs
<1>4. ActiveInv'
  BY <1>2 DEF ActiveInv
<1>5. DIDInv'
  <2>1. DOMAIN links' = {}
    BY <1>2
  <2>2. registryFile.state \in {"absent", "written"}
    BY <1>2 DEF TypeOK
  <2> QED
    BY <1>2, <2>1, <2>2 DEF DIDInv, Working, Written
<1> QED
  BY <1>1, <1>3, <1>4, <1>5

\* The registry is written in two steps, before any entry that relies on it.
LEMMA RegistryStep ==
    ASSUME IInv, TruncateRegistry \/ WriteRegistry
    PROVE  IInv'
<1> USE DEF IInv
<1>1. TypeOK'
  BY OtherTypes
<1>2. UNCHANGED <<linksFile, registry, links, txs, nonces>>
  BY DEF TruncateRegistry, WriteRegistry, hostVars
<1>3. NonceInv' /\ NoncesInOrder'
  BY <1>2 DEF NonceInv, NoncesInOrder
<1>4. CASE TruncateRegistry
  <2>1. /\ registryFile' = [state |-> "torn", agents |-> Empty]
        /\ pc = "process" /\ pc' = "registry"
    BY <1>4 DEF TypeOK, TruncateRegistry
  <2>2. ActiveInv'
    BY <1>2, <2>1 DEF ActiveInv, Empty
  <2>3. DIDInv'
    BY <1>2, <2>1 DEF DIDInv, Working, Written
  <2> QED
    BY <1>1, <1>3, <2>2, <2>3
<1>5. CASE WriteRegistry
  <2>1. /\ registryFile' = [state |-> "written", agents |-> registry]
        /\ pc = "registry" /\ pc' = "links"
    BY <1>5 DEF WriteRegistry
  <2>2. ActiveInv'
    BY <1>2, <2>1 DEF ActiveInv
  <2>3. DIDInv'
    BY <1>2, <2>1 DEF DIDInv, Working, Written
  <2> QED
    BY <1>1, <1>3, <2>2, <2>3
<1> QED
  BY <1>4, <1>5

\* The entries of the round are written: they and the entries of all other
\* files fit the same registry.
LEMMA LinksStep ==
    ASSUME IInv, WriteActionTxMap
    PROVE  IInv'
<1> USE DEF IInv
<1>1. TypeOK'
  BY OtherTypes
<1>2. /\ UNCHANGED <<registryFile, registry, links, txs, nonces>>
      /\ linksFile' = [linksFile EXCEPT ![round] = links]
      /\ pc = "links" /\ pc' = "plan"
  BY DEF WriteActionTxMap, hostVars
<1>3. NonceInv' /\ NoncesInOrder' /\ ActiveInv'
  BY <1>2 DEF NonceInv, NoncesInOrder, ActiveInv
<1>4. registryFile = [state |-> "written", agents |-> registry]
  BY <1>2 DEF DIDInv, Working, Written
<1>5. \A r \in Round : \A i \in DOMAIN linksFile'[r] :
        Named(linksFile'[r][i]) => Fits(linksFile'[r][i], registry)
  <2>1. \A r \in Round : linksFile'[r] = linksFile[r] \/ linksFile'[r] = links
    BY <1>2 DEF TypeOK
  <2> QED
    BY <1>2, <2>1 DEF DIDInv, Working
<1>6. DIDInv'
  <2>1. \A r, q \in Round : \A i \in DOMAIN linksFile'[r] : \A j \in DOMAIN linksFile'[q] :
          Named(linksFile'[r][i]) /\ Named(linksFile'[q][j])
          /\ linksFile'[q][j].agent = linksFile'[r][i].agent
             => ActsAs(linksFile'[q][j]) = ActsAs(linksFile'[r][i])
    BY <1>5 DEF Fits
  <2> QED
    BY <1>2, <1>4, <1>5, <2>1 DEF DIDInv
<1> QED
  BY <1>1, <1>3, <1>6

LEMMA RemoveStep ==
    ASSUME IInv, RemoveResults
    PROVE  IInv'
<1> USE DEF IInv
<1>1. TypeOK'
  BY OtherTypes
<1>2. /\ UNCHANGED <<registry, links, txs, nonces>>
      /\ registryFile' = Absent /\ pc' = "idle"
      /\ \A r \in Round : DOMAIN linksFile'[r] = {}
  BY DEF RemoveResults, hostVars
<1>3. NonceInv' /\ NoncesInOrder'
  BY <1>2 DEF NonceInv, NoncesInOrder
<1>4. ActiveInv'
  BY <1>2 DEF ActiveInv, Absent, Empty
<1>5. DIDInv'
  BY <1>2 DEF DIDInv, Working, Written
<1> QED
  BY <1>1, <1>3, <1>4, <1>5

-----------------------------------------------------------------------------

\* Every step of a call, and the end of a call anywhere, keeps the invariant.
LEMMA NextIInv == IInv /\ [Next]_vars => IInv'
<1> SUFFICES ASSUME IInv, [Next]_vars PROVE IInv'
  OBVIOUS
<1>1. CASE Call \/ WritePlan \/ ChainStarts \/ ClusterStep \/ WriteAgentCSVs \/ NextTrace
  <2>1. TypeOK'
    BY <1>1, OtherTypes DEF IInv
  <2>2. /\ UNCHANGED <<registryFile, linksFile, hostVars>>
        /\ pc' \in Working => pc \in Working
        /\ pc' \in Written => pc \in Written
    BY <1>1 DEF Call, WritePlan, ChainStarts, ClusterStep, NodeStarts, SupervisorStarts,
                Commit, WriteAgentCSVs, NextTrace, fileVars, Working, Written
  <2> QED
    BY <2>1, <2>2, MemoryKept
<1>2. CASE Finish \/ Abort
  <2>1. TypeOK'
    BY <1>2, OtherTypes DEF IInv
  <2>2. UNCHANGED <<registryFile, linksFile>> /\ Exit /\ pc' \notin Working
    BY <1>2 DEF Finish, Abort, fileVars, Working
  <2> QED
    BY <2>1, <2>2, MemoryGone
<1>3. CASE UNCHANGED vars
  <2>1. TypeOK'
    BY <1>3 DEF IInv, TypeOK, vars, fileVars, chainFiles, callVars, hostVars
  <2>2. UNCHANGED <<registryFile, linksFile, hostVars>> /\ pc' = pc
    BY <1>3 DEF vars, fileVars
  <2> QED
    BY <2>1, <2>2, MemoryKept
<1> QED
  BY <1>1, <1>2, <1>3, RecordStep, LoadStep, RegistryStep, LinksStep, RemoveStep
     DEF Next, ClusterStep

\* Files, memory and counters of a call fit together in every reachable state.
THEOREM RoundsInvariance == Spec => []IInv
  BY InitIInv, NextIInv, PTL DEF Spec

\* Files and memory keep their types, for any agents, seeds, traces and bounds.
THEOREM RoundsTyped == Spec => []TypeOK
<1>1. IInv => TypeOK
  BY DEF IInv
<1> QED
  BY <1>1, RoundsInvariance, PTL

\* The nonces of a plan count the transactions of each sender without a gap,
\* whatever agents and plain transfers do under one address.
THEOREM NoncesFollow == Spec => []NoncesInOrder
<1>1. IInv => NoncesInOrder
  BY DEF IInv
<1> QED
  BY <1>1, RoundsInvariance, PTL

\* All action maps and the registry that the next round loads name the same
\* address for an agent, whatever seeds the calls have and wherever they
\* break off.
THEOREM AddressesStable == Spec => []DIDsStable
<1>1. ASSUME IInv, NEW r \in Round, NEW i \in DOMAIN linksFile[r],
             linksFile[r][i].agent # NoDID
      PROVE  /\ \A q \in Round : \A j \in DOMAIN linksFile[q] :
                    linksFile[q][j].agent = linksFile[r][i].agent
                    /\ linksFile[r][i].txs # {} /\ linksFile[q][j].txs # {}
                        => ActsAs(linksFile[q][j]) = ActsAs(linksFile[r][i])
             /\ registryFile.state = "written" /\ linksFile[r][i].txs # {}
                    => ActsAs(linksFile[r][i])
                         = {registryFile.agents[linksFile[r][i].agent].did}
  BY <1>1 DEF IInv, DIDInv, Named, Fits
<1>2. IInv => DIDsStable
  BY <1>1 DEF DIDsStable
<1> QED
  BY <1>2, RoundsInvariance, PTL

-----------------------------------------------------------------------------
(***************************************************************************)
(* The plan of a round obeys the life cycle of identities.  It rests on    *)
(* the nonces: an agent's payment and a plain transfer between the same    *)
(* addresses differ in nothing else.                                       *)
(***************************************************************************)

\* Every address of a registry was made for its agent.
IdsOwn(reg) ==
    \A a \in Agent : reg[a].did # NoDID => \E s \in Seed : reg[a].did = AllocatedDID(s, a)

\* The calls on identities among the first n transactions of a plan from d.
OpsBy(plan, n, d) == {i \in 1 .. n : plan[i].sender = d /\ plan[i].op # "none"}

\* An entry in memory holds transactions of the plan.
LinksInPlan ==
    \A j \in DOMAIN links : \A tx \in links[j].txs : \E i \in DOMAIN txs : txs[i] = tx

\* The registry in memory has every agent of the one the round began with, and
\* every identity the plan has called on.
RegistryGrows ==
    /\ \A a \in Agent : base[a].did # NoDID => registry[a].did = base[a].did
    /\ \A i \in DOMAIN txs : txs[i].op # "none" =>
          \E a \in Agent : registry[a].did = txs[i].sender /\ registry[a].did # NoDID

\* If d has been called on among the first n transactions, there is a last time.
HasLast(plan, n, d) ==
    OpsBy(plan, n, d) # {} => \E x \in OpsBy(plan, n, d) : \A y \in OpsBy(plan, n, d) : x >= y

LifeInv ==
    /\ IdsOwn(registryFile.agents) /\ IdsOwn(registry) /\ IdsOwn(base)
    /\ LinksInPlan
    /\ RegistryGrows
    /\ \A n \in 0 .. Len(txs) : \A d \in Addr : HasLast(txs, n, d)
    /\ PlanFollowsLifecycle

-----------------------------------------------------------------------------
(***************************************************************************)
(* What one more transaction does to the reading of a plan                 *)
(***************************************************************************)

\* The last of a set of positions that ends with k is k.
LEMMA LastIsMax ==
    ASSUME NEW k \in Nat, NEW S \in SUBSET (1 .. k), k \in S
    PROVE  Max(S) = k
<1>1. \E x \in S : \A y \in S : x >= y
  OBVIOUS
<1>2. Max(S) \in S /\ \A y \in S : Max(S) >= y
  BY <1>1 DEF Max
<1>3. Max(S) \in 1 .. k /\ Max(S) >= k
  BY <1>2
<1> QED
  BY <1>3

\* The state of an identity before the new transaction is what it was.
LEMMA PrefixSame ==
    ASSUME NEW reg, NEW plan \in Seq(Tx), NEW tx \in Tx, NEW d, NEW n \in 0 .. Len(plan),
           HasLast(plan, n, d)
    PROVE  /\ ActiveAfter(reg, Append(plan, tx), n, d) <=> ActiveAfter(reg, plan, n, d)
           /\ HasLast(Append(plan, tx), n, d)
<1> DEFINE longer == Append(plan, tx)
           ops == OpsBy(plan, n, d)
<1>1. Len(plan) \in Nat /\ \A i \in 1 .. Len(plan) : longer[i] = plan[i]
  BY AppendFacts
<1> HIDE DEF longer
<1>2. \A i \in 1 .. n : longer[i] = plan[i]
  BY <1>1
<1>3. OpsBy(longer, n, d) = ops
  BY <1>2 DEF OpsBy
<1>4. ops # {} => Max(ops) \in 1 .. n
  <2>1. ops # {} => Max(ops) \in ops
    BY DEF Max, HasLast
  <2>2. ops \subseteq 1 .. n
    BY DEF OpsBy
  <2> QED
    BY <2>1, <2>2
<1>5. ops # {} => longer[Max(ops)] = plan[Max(ops)]
  BY <1>2, <1>4
<1>6. HasLast(longer, n, d)
  BY <1>3 DEF HasLast
<1>7. /\ ActiveAfter(reg, longer, n, d) <=>
           IF ops = {} THEN \E a \in Agent : reg[a].did = d /\ reg[a].active
                       ELSE longer[Max(ops)].op = "register"
      /\ ActiveAfter(reg, plan, n, d) <=>
           IF ops = {} THEN \E a \in Agent : reg[a].did = d /\ reg[a].active
                       ELSE plan[Max(ops)].op = "register"
  BY <1>3 DEF ActiveAfter, OpsBy
<1> QED
  BY <1>5, <1>6, <1>7 DEF longer

\* After it, the identity it calls on is in the state it asks for, and every
\* other one is where it was.
LEMMA ActiveAppend ==
    ASSUME NEW reg, NEW plan \in Seq(Tx), NEW tx \in Tx, NEW d,
           HasLast(plan, Len(plan), d)
    PROVE  /\ HasLast(Append(plan, tx), Len(plan) + 1, d)
           /\ tx.sender = d /\ tx.op # "none" =>
                 (ActiveAfter(reg, Append(plan, tx), Len(plan) + 1, d) <=> tx.op = "register")
           /\ ~(tx.sender = d /\ tx.op # "none") =>
                 (ActiveAfter(reg, Append(plan, tx), Len(plan) + 1, d)
                    <=> ActiveAfter(reg, plan, Len(plan), d))
<1> DEFINE k == Len(plan)
           longer == Append(plan, tx)
           ops == OpsBy(plan, k, d)
           more == OpsBy(longer, k + 1, d)
<1>1. k \in Nat /\ longer[k + 1] = tx /\ \A i \in 1 .. k : longer[i] = plan[i]
  BY AppendFacts
<1>2. k \in 0 .. Len(plan)
  BY <1>1
<1>3. /\ ActiveAfter(reg, longer, k, d) <=> ActiveAfter(reg, plan, k, d)
      /\ HasLast(longer, k, d)
  BY <1>2, PrefixSame
<1> HIDE DEF longer, k
<1>4. CASE tx.sender = d /\ tx.op # "none"
  <2>1. more \in SUBSET (1 .. (k + 1)) /\ k + 1 \in more
    BY <1>1, <1>4 DEF OpsBy
  <2>2. Max(more) = k + 1
    BY <1>1, <2>1, LastIsMax
  <2>3. ActiveAfter(reg, longer, k + 1, d) <=> longer[Max(more)].op = "register"
    BY <2>1 DEF ActiveAfter, OpsBy
  <2>4. HasLast(longer, k + 1, d)
    BY <1>1, <2>1 DEF HasLast
  <2> QED
    BY <1>1, <1>4, <2>2, <2>3, <2>4 DEF longer, k
<1>5. CASE ~(tx.sender = d /\ tx.op # "none")
  <2>1. more = OpsBy(longer, k, d)
    BY <1>1, <1>5 DEF OpsBy
  <2>2. ActiveAfter(reg, longer, k + 1, d) <=> ActiveAfter(reg, longer, k, d)
    BY <2>1 DEF ActiveAfter, OpsBy
  <2>3. HasLast(longer, k + 1, d)
    BY <1>3, <2>1 DEF HasLast
  <2> QED
    BY <1>3, <1>5, <2>2, <2>3 DEF longer, k
<1> QED
  BY <1>4, <1>5

\* A new transaction is not in the plan yet: no earlier one of its sender has
\* its nonce.
LEMMA FreshTx ==
    ASSUME IInv, NEW from \in Addr, NEW to, NEW value, NEW op
    PROVE  \A i \in DOMAIN txs : txs[i] # NewTx(from, to, value, op)
<1> SUFFICES ASSUME NEW i \in DOMAIN txs, txs[i] = NewTx(from, to, value, op)
             PROVE  FALSE
  OBVIOUS
<1>1. txs[i].sender = from /\ txs[i].nonce = nonces[from]
  BY DEF NewTx
<1>2. txs \in Seq(Tx)
  BY DEF IInv, TypeOK
<1>3. Len(txs) \in Nat /\ i \in 1 .. Len(txs)
  BY <1>2
<1> DEFINE before == SentBy(txs, i - 1, from)
           all == SentBy(txs, Len(txs), from)
<1>4. nonces[from] = Cardinality(all)
  BY DEF IInv, NonceInv
<1>5. nonces[from] = Cardinality(before)
  BY <1>1 DEF IInv, NoncesInOrder, SentBy
<1>6. before \cup {i} \in SUBSET all /\ i \notin before
  BY <1>1, <1>3 DEF SentBy
<1>7. /\ IsFiniteSet(before) /\ Cardinality(before) \in Nat
      /\ IsFiniteSet(all) /\ Cardinality(all) \in Nat
  BY <1>3, SentByFinite
<1> HIDE DEF before, all
<1>8. Cardinality(before \cup {i}) = Cardinality(before) + 1
  BY <1>6, <1>7, FS_AddElement
<1>9. Cardinality(before \cup {i}) <= Cardinality(all)
  BY <1>6, <1>7, FS_Subset
<1> QED
  BY <1>4, <1>5, <1>7, <1>8, <1>9

\* What a record with a transaction has to show: the call is due, and the
\* registry follows it.
LEMMA LifeAppend ==
    ASSUME IInv, LifeInv, TakeRecord,
           NEW agent \in Agent \cup {NoDID}, NEW from \in Addr, NEW to \in Addr,
           NEW value \in {0, 1}, NEW op \in {"none", "register", "revoke"},
           AppendTx(agent, from, to, value, op),
           registry' \in Registry, IdsOwn(registry'),
           \A a \in Agent : registry[a].did # NoDID => registry'[a].did = registry[a].did,
           op # "none" => \E a \in Agent : registry'[a].did = from /\ from # NoDID,
           op = "register" => ~ActiveAfter(base, txs, Len(txs), from),
           op = "revoke" => ActiveAfter(base, txs, Len(txs), from),
           op = "none" /\ agent # NoDID =>
              ActiveAfter(base, txs, Len(txs), from) /\ ActiveAfter(base, txs, Len(txs), to),
           \A a \in Agent : registry'[a].did # NoDID =>
              /\ registry'[a].did = from /\ op # "none" =>
                    (registry'[a].active <=> op = "register")
              /\ ~(registry'[a].did = from /\ op # "none") =>
                    (registry'[a].active <=> ActiveAfter(base, txs, Len(txs), registry'[a].did))
    PROVE  LifeInv'
<1> DEFINE tx == NewTx(from, to, value, op)
           k == Len(txs)
<1>1. tx \in Tx /\ tx.sender = from /\ tx.recipient = to /\ tx.op = op
  <2>1. tx \in Tx
    BY NonceStep
  <2> QED
    BY <2>1 DEF NewTx
<1>2. txs \in Seq(Tx) /\ links \in Seq(Link) /\ base \in Registry
  BY DEF IInv, TypeOK, Link
<1>3. txs' = Append(txs, tx) /\ links' = Append(links, [agent |-> agent, txs |-> {tx}])
  BY DEF AppendTx, NextNonce, NewTx
<1>4. UNCHANGED <<registryFile, base>>
  BY DEF TakeRecord, fileVars
<1>5. \A i \in DOMAIN txs : txs[i] # tx
  BY FreshTx
<1> HIDE DEF tx
<1>6. /\ k \in Nat /\ Len(txs') = k + 1 /\ DOMAIN txs' = 1 .. (k + 1) /\ DOMAIN txs = 1 .. k
      /\ \A i \in 1 .. k : txs'[i] = txs[i]
      /\ txs'[k + 1] = tx
  BY <1>1, <1>2, <1>3, AppendFacts
<1>7. [agent |-> agent, txs |-> {tx}] \in Link
  BY <1>1 DEF Link
<1>8. \A j \in DOMAIN links' :
         \/ j \in DOMAIN links /\ links'[j] = links[j]
         \/ links'[j] = [agent |-> agent, txs |-> {tx}]
  BY <1>2, <1>3, <1>7, AppendFacts
<1>9. LinksInPlan'
  <2>1. ASSUME NEW j \in DOMAIN links', NEW t \in links'[j].txs
        PROVE  \E i \in DOMAIN txs' : txs'[i] = t
    <3>1. CASE j \in DOMAIN links /\ links'[j] = links[j]
      <4>1. PICK i \in DOMAIN txs : txs[i] = t
        BY <2>1, <3>1 DEF LifeInv, LinksInPlan
      <4> QED
        BY <1>6, <4>1
    <3>2. CASE links'[j] = [agent |-> agent, txs |-> {tx}]
      <4>1. t = tx
        BY <2>1, <3>2
      <4> QED
        BY <1>6, <4>1
    <3> QED
      BY <1>8, <2>1, <3>1, <3>2
  <2> QED
    BY <2>1 DEF LinksInPlan
<1>10. RegistryGrows'
  <2>1. \A a \in Agent : base[a].did # NoDID => registry'[a].did = base[a].did
    BY DEF LifeInv, RegistryGrows
  <2>2. ASSUME NEW i \in DOMAIN txs', txs'[i].op # "none"
        PROVE  \E a \in Agent : registry'[a].did = txs'[i].sender /\ registry'[a].did # NoDID
    <3>1. CASE i = k + 1
      BY <1>1, <1>6, <2>2, <3>1
    <3>2. CASE i \in 1 .. k
      BY <1>6, <2>2, <3>2 DEF LifeInv, RegistryGrows
    <3> QED
      BY <1>6, <2>2, <3>1, <3>2
  <2> QED
    BY <1>4, <2>1, <2>2 DEF RegistryGrows
<1>11. \A d \in Addr : HasLast(txs, k, d)
  BY <1>6 DEF LifeInv
<1>12. \A n \in 0 .. Len(txs') : \A d \in Addr : HasLast(txs', n, d)
  <2>1. ASSUME NEW n \in 0 .. (k + 1), NEW d \in Addr
        PROVE  HasLast(txs', n, d)
    <3>1. CASE n = k + 1
      BY <1>1, <1>2, <1>3, <1>11, <3>1, ActiveAppend
    <3>2. CASE n \in 0 .. k
      BY <1>1, <1>2, <1>3, <3>2, PrefixSame DEF LifeInv
    <3> QED
      BY <1>6, <3>1, <3>2
  <2> QED
    BY <1>6, <2>1
<1>13. \A n \in 0 .. k : \A d \in Addr :
          ActiveAfter(base, txs', n, d) <=> ActiveAfter(base, txs, n, d)
  BY <1>1, <1>2, <1>3, PrefixSame DEF LifeInv
<1>14. ASSUME NEW i \in DOMAIN txs'
       PROVE  LET On(d) == ActiveAfter(base, txs', i - 1, d)
              IN  /\ txs'[i].op = "register" => ~On(txs'[i].sender)
                  /\ txs'[i].op = "revoke" => On(txs'[i].sender)
                  /\ (\E j \in DOMAIN links' : links'[j].agent # NoDID /\ txs'[i] \in links'[j].txs)
                        /\ txs'[i].op = "none"
                       => On(txs'[i].sender) /\ On(txs'[i].recipient)
  <2>1. CASE i = k + 1
    <3>1. txs'[i] = tx /\ i - 1 = k /\ k \in 0 .. k
      BY <1>6, <2>1
    <3>2. \A d \in Addr : ActiveAfter(base, txs', i - 1, d) <=> ActiveAfter(base, txs, k, d)
      BY <1>13, <3>1
    <3>3. ASSUME NEW j \in DOMAIN links', links'[j].agent # NoDID, tx \in links'[j].txs
          PROVE  agent # NoDID
      <4>1. ~(j \in DOMAIN links /\ links'[j] = links[j])
        BY <1>5, <3>3 DEF LifeInv, LinksInPlan
      <4> QED
        BY <1>8, <3>3, <4>1
    <3> QED
      BY <1>1, <3>1, <3>2, <3>3
  <2>2. CASE i \in 1 .. k
    <3>1. txs'[i] = txs[i] /\ i - 1 \in 0 .. k /\ i \in DOMAIN txs
      BY <1>6, <2>2
    <3>2. txs[i].sender \in Addr /\ txs[i].recipient \in Addr
      <4>1. txs[i] \in Tx
        BY <1>2, <3>1, InSeq
      <4> QED
        BY <4>1 DEF Tx
    <3>3. \A d \in Addr : ActiveAfter(base, txs', i - 1, d) <=> ActiveAfter(base, txs, i - 1, d)
      BY <1>13, <3>1
    <3>4. ASSUME NEW j \in DOMAIN links', links'[j].agent # NoDID, txs[i] \in links'[j].txs
          PROVE  j \in DOMAIN links /\ links[j].agent # NoDID /\ txs[i] \in links[j].txs
      <4>1. links'[j] # [agent |-> agent, txs |-> {tx}]
        BY <1>5, <3>1, <3>4
      <4> QED
        BY <1>8, <3>4, <4>1
    <3> QED
      BY <3>1, <3>2, <3>3, <3>4 DEF LifeInv, PlanFollowsLifecycle
  <2> QED
    BY <1>6, <1>14, <2>1, <2>2
<1>15. ASSUME NEW a \in Agent, registry'[a].did # NoDID
       PROVE  registry'[a].active = ActiveAfter(base, txs', Len(txs'), registry'[a].did)
  <2>1. registry'[a].did \in Addr /\ registry'[a].active \in BOOLEAN
    BY <1>15 DEF Registry, Entry, Addr
  <2> DEFINE d == registry'[a].did
  <2>2. /\ d = from /\ op # "none" =>
              (ActiveAfter(base, txs', k + 1, d) <=> op = "register")
        /\ ~(d = from /\ op # "none") =>
              (ActiveAfter(base, txs', k + 1, d) <=> ActiveAfter(base, txs, k, d))
    BY <1>1, <1>2, <1>3, <1>11, <2>1, ActiveAppend
  <2>3. registry'[a].active <=> ActiveAfter(base, txs', k + 1, d)
    BY <1>15, <2>2
  <2>4. ActiveAfter(base, txs', k + 1, d) \in BOOLEAN
    BY DEF ActiveAfter
  <2> HIDE DEF d
  <2> QED
    BY <1>6, <2>1, <2>3, <2>4 DEF d
<1>16. PlanFollowsLifecycle'
  BY <1>4, <1>14, <1>15 DEF PlanFollowsLifecycle
<1>17. IdsOwn(registryFile.agents)' /\ IdsOwn(registry)' /\ IdsOwn(base)'
  BY <1>4 DEF LifeInv, IdsOwn
<1> QED
  BY <1>9, <1>10, <1>12, <1>16, <1>17 DEF LifeInv

-----------------------------------------------------------------------------
(***************************************************************************)
(* The records of a trace                                                  *)
(***************************************************************************)

\* What conjunct two of the life cycle and the invariant of AgentRounds say of
\* an agent before a record.
LEMMA Before ==
    ASSUME IInv, LifeInv
    PROVE  /\ \A a \in Agent : registry[a] \in Entry /\ registry[a].active \in BOOLEAN
           /\ \A a \in Agent : registry[a].did # NoDID => registry[a].did \in DID
           /\ \A a \in Agent : registry[a].active => registry[a].did # NoDID
           /\ \A a \in Agent : registry[a].did # NoDID =>
                 (registry[a].active <=> ActiveAfter(base, txs, Len(txs), registry[a].did))
           /\ \A a, b \in Agent :
                 registry[a].did # NoDID /\ registry[a].did = registry[b].did => a = b
<1>1. \A a \in Agent : registry[a] \in Entry
  BY DEF IInv, TypeOK, Registry
<1>2. \A a \in Agent : registry[a].active \in BOOLEAN
                       /\ (registry[a].did # NoDID => registry[a].did \in DID)
  BY <1>1 DEF Entry
<1>3. \A a \in Agent : registry[a].active => registry[a].did # NoDID
  BY DEF IInv, ActiveInv
<1>4. \A a \in Agent : registry[a].did # NoDID =>
         (registry[a].active <=> ActiveAfter(base, txs, Len(txs), registry[a].did))
  BY DEF LifeInv, PlanFollowsLifecycle
<1>5. \A a, b \in Agent : registry[a].did # NoDID /\ registry[a].did = registry[b].did => a = b
  BY DEF LifeInv, IdsOwn, AllocatedDID
<1> QED
  BY <1>1, <1>2, <1>3, <1>4, <1>5

\* Nothing has been said yet of an address just allocated.
LEMMA NewIsOff ==
    ASSUME IInv, LifeInv, NEW a \in Agent, registry[a].did = NoDID
    PROVE  ~ActiveAfter(base, txs, Len(txs), AllocatedDID(seed, a))
<1> DEFINE d == AllocatedDID(seed, a)
<1>1. d # NoDID
  BY RoundAssumption DEF IInv, TypeOK, DID
<1>2. \A b \in Agent : registry[b].did # d
  <2>1. \A b \in Agent : \A s \in Seed : AllocatedDID(s, b) = d => b = a
    BY DEF AllocatedDID
  <2>2. \A b \in Agent : registry[b].did = d => \E s \in Seed : d = AllocatedDID(s, b)
    BY <1>1 DEF LifeInv, IdsOwn
  <2> QED
    BY <1>1, <2>1, <2>2
<1>3. \A b \in Agent : base[b].did # d
  BY <1>1, <1>2 DEF LifeInv, RegistryGrows
<1> HIDE DEF d
<1>4. \A i \in DOMAIN txs : ~(txs[i].sender = d /\ txs[i].op # "none")
  BY <1>2 DEF LifeInv, RegistryGrows
<1>5. DOMAIN txs = 1 .. Len(txs)
  BY DEF IInv, TypeOK
<1>6. {i \in 1 .. Len(txs) : txs[i].sender = d /\ txs[i].op # "none"} = {}
  BY <1>4, <1>5
<1>7. ~ActiveAfter(base, txs, Len(txs), d)
  BY <1>3, <1>6 DEF ActiveAfter
<1> QED
  BY <1>7 DEF d

LEMMA JoinLife ==
    ASSUME IInv, LifeInv, NEW a \in Agent, ProcessJoin(a)
    PROVE  LifeInv'
<1> DEFINE did == IF registry[a].did = NoDID THEN AllocatedDID(seed, a) ELSE registry[a].did
<1>0. TakeRecord
  BY DEF ProcessJoin
<1>1. registry' = [registry EXCEPT ![a] = [did |-> did, active |-> TRUE]]
  BY DEF ProcessJoin
<1>2. registry \in Registry /\ seed \in Seed /\ txs \in Seq(Tx) /\ links \in Seq(Link)
  BY DEF IInv, TypeOK, Link
<1>3. did \in DID /\ did # NoDID
  BY <1>2, Before, RoundAssumption DEF DID
<1>4. \E s \in Seed : did = AllocatedDID(s, a)
  BY <1>2 DEF LifeInv, IdsOwn
<1>5. ~registry[a].active => ~ActiveAfter(base, txs, Len(txs), did)
  BY Before, NewIsOff
<1>6. registry[a].did # NoDID => did = registry[a].did
  OBVIOUS
<1>7. registry[a].active => did = registry[a].did
  BY Before
<1> HIDE DEF did
<1>8. /\ registry' \in Registry
      /\ registry'[a].did = did /\ registry'[a].active
      /\ \A b \in Agent \ {a} : registry'[b] = registry[b]
  BY <1>1, <1>2, <1>3 DEF Registry, Entry
<1>9. /\ IdsOwn(registry')
      /\ \A b \in Agent : registry[b].did # NoDID => registry'[b].did = registry[b].did
  BY <1>4, <1>6, <1>8 DEF LifeInv, IdsOwn
<1>10. \A b \in Agent : registry'[b].did = did => b = a
  BY <1>3, <1>4, <1>9 DEF IdsOwn, AllocatedDID
<1>11. did \in Addr /\ Contract \in Addr
  BY <1>3 DEF Addr
<1>12. CASE Changed(a)
  <2>1. AppendTx(a, did, Contract, 0, "register")
    BY <1>12 DEF ProcessJoin, did
  <2>2. ~ActiveAfter(base, txs, Len(txs), did)
    BY <1>5, <1>12 DEF Changed
  <2>3. \A b \in Agent : registry'[b].did # NoDID =>
           /\ registry'[b].did = did => registry'[b].active
           /\ registry'[b].did # did =>
                 (registry'[b].active <=> ActiveAfter(base, txs, Len(txs), registry'[b].did))
    BY <1>8, <1>10, Before
  <2> QED
    BY <1>0, <1>3, <1>8, <1>9, <1>11, <2>1, <2>2, <2>3, LifeAppend
<1>13. CASE ~Changed(a)
  <2>1. links' = Append(links, [agent |-> a, txs |-> {}]) /\ UNCHANGED <<txs, nonces>>
    BY <1>13 DEF ProcessJoin
  <2>2. /\ \A b \in Agent : registry'[b].did = registry[b].did
        /\ \A b \in Agent : registry'[b].active <=> registry[b].active
    BY <1>7, <1>8, <1>13 DEF Changed
  <2>3. UNCHANGED <<registryFile, base>>
    BY <1>0 DEF TakeRecord, fileVars
  <2> DEFINE link == [agent |-> a, txs |-> {}]
  <2>4. link \in Link /\ link.txs = {}
    BY DEF Link
  <2> HIDE DEF link
  <2>5. \A j \in DOMAIN links' : \/ j \in DOMAIN links /\ links'[j] = links[j]
                                 \/ links'[j] = link
    BY <1>2, <2>1, <2>4, AppendFacts DEF link
  <2>6. LinksInPlan'
    BY <2>1, <2>4, <2>5 DEF LifeInv, LinksInPlan
  <2>7. RegistryGrows'
    BY <2>1, <2>2, <2>3 DEF LifeInv, RegistryGrows
  <2>8. PlanFollowsLifecycle'
    <3>1. ASSUME NEW i \in DOMAIN txs
          PROVE  (\E j \in DOMAIN links' : links'[j].agent # NoDID /\ txs[i] \in links'[j].txs)
                   => (\E j \in DOMAIN links : links[j].agent # NoDID /\ txs[i] \in links[j].txs)
      BY <2>4, <2>5
    <3>2. ASSUME NEW b \in Agent, registry'[b].did # NoDID
          PROVE  registry'[b].active = ActiveAfter(base, txs, Len(txs), registry'[b].did)
      <4>1. registry'[b].active \in BOOLEAN
        BY <1>8 DEF Registry, Entry
      <4>2. ActiveAfter(base, txs, Len(txs), registry'[b].did) \in BOOLEAN
        BY DEF ActiveAfter
      <4>3. registry'[b].active <=> ActiveAfter(base, txs, Len(txs), registry'[b].did)
        BY <2>2, <3>2, Before
      <4> QED
        BY <4>1, <4>2, <4>3
    <3> QED
      BY <2>1, <2>3, <3>1, <3>2 DEF LifeInv, PlanFollowsLifecycle
  <2> QED
    BY <1>9, <2>1, <2>3, <2>6, <2>7, <2>8 DEF LifeInv, IdsOwn
<1> QED
  BY <1>12, <1>13

LEMMA LeaveLife ==
    ASSUME IInv, LifeInv, NEW a \in Agent, ProcessLeave(a)
    PROVE  LifeInv'
<1> DEFINE did == registry[a].did
<1>0. TakeRecord /\ AppendTx(a, did, Contract, 0, "revoke")
  BY DEF ProcessLeave
<1>1. registry[a].active /\ registry' = [registry EXCEPT ![a].active = FALSE]
  BY DEF ProcessLeave
<1>2. registry \in Registry
  BY DEF IInv, TypeOK
<1>3. /\ registry' \in Registry /\ ~registry'[a].active
      /\ \A b \in Agent : registry'[b].did = registry[b].did
      /\ \A b \in Agent \ {a} : registry'[b] = registry[b]
  BY <1>1, <1>2 DEF Registry, Entry
<1>4. did \in DID /\ did # NoDID /\ ActiveAfter(base, txs, Len(txs), did)
  BY <1>1, Before
<1>5. did \in Addr /\ Contract \in Addr
  BY <1>4 DEF Addr
<1>6. IdsOwn(registry')
  BY <1>3 DEF LifeInv, IdsOwn
<1>7. \A b \in Agent : registry'[b].did # NoDID =>
         /\ registry'[b].did = did => ~registry'[b].active
         /\ registry'[b].did # did =>
               (registry'[b].active <=> ActiveAfter(base, txs, Len(txs), registry'[b].did))
  BY <1>3, Before
<1>8. registry'[a].did = did
  BY <1>3
<1> HIDE DEF did
<1> QED
  BY <1>0, <1>3, <1>4, <1>5, <1>6, <1>7, <1>8, LifeAppend

LEMMA PayLife ==
    ASSUME IInv, LifeInv, NEW a \in Agent, NEW b \in Agent, ProcessPay(a, b)
    PROVE  LifeInv'
<1> DEFINE from == registry[a].did
           to == registry[b].did
<1>1. /\ TakeRecord /\ registry[a].active /\ registry[b].active /\ registry' = registry
      /\ AppendTx(a, from, to, 1, "none")
  BY DEF ProcessPay
<1>2. /\ from \in DID /\ ActiveAfter(base, txs, Len(txs), from)
      /\ to \in DID /\ ActiveAfter(base, txs, Len(txs), to)
  BY <1>1, Before
<1>3. from \in Addr /\ to \in Addr
  BY <1>2 DEF Addr
<1>4. registry \in Registry /\ IdsOwn(registry)
  BY DEF IInv, TypeOK, LifeInv
<1> HIDE DEF from, to
<1> QED
  BY <1>1, <1>2, <1>3, <1>4, Before, LifeAppend

\* A plain transfer may use any address; it is no agent's action.
LEMMA RawLife ==
    ASSUME IInv, LifeInv, NEW spec \in RawSpec, ProcessRawTx(spec)
    PROVE  LifeInv'
<1>1. TakeRecord /\ registry' = registry /\ AppendTx(NoDID, spec[1], spec[2], 1, "none")
  BY DEF ProcessRawTx
<1>2. spec[1] \in Addr /\ spec[2] \in Addr
  BY DEF Addr
<1>3. registry \in Registry /\ IdsOwn(registry)
  BY DEF IInv, TypeOK, LifeInv
<1> QED
  BY <1>1, <1>2, <1>3, Before, LifeAppend

-----------------------------------------------------------------------------
(***************************************************************************)
(* The other steps of a call                                               *)
(***************************************************************************)

\* An empty plan that starts from a registry is in its life cycle.
LEMMA EmptyLife ==
    ASSUME IInv', txs' = <<>>, links' = <<>>, registry' = base',
           IdsOwn(registryFile.agents)', IdsOwn(base)'
    PROVE  LifeInv'
<1>1. Len(txs') = 0 /\ DOMAIN txs' = {} /\ DOMAIN links' = {}
  OBVIOUS
<1>2. \A d : OpsBy(txs', 0, d) = {}
  BY DEF OpsBy
<1>3. \A n \in 0 .. Len(txs') : \A d \in Addr : HasLast(txs', n, d)
  BY <1>1, <1>2 DEF HasLast
<1>4. ASSUME NEW a \in Agent, registry'[a].did # NoDID
      PROVE  registry'[a].active = ActiveAfter(base', txs', Len(txs'), registry'[a].did)
  <2>1. registry' \in Registry /\ IdsOwn(registry')
    BY DEF IInv, TypeOK, IdsOwn
  <2>2. \A b \in Agent : registry'[b].did = registry'[a].did => b = a
    BY <1>4, <2>1 DEF IdsOwn, AllocatedDID
  <2>3. registry'[a].active \in BOOLEAN
    BY <2>1 DEF Registry, Entry
  <2>4. ActiveAfter(base', txs', Len(txs'), registry'[a].did)
          <=> \E b \in Agent : base'[b].did = registry'[a].did /\ base'[b].active
    BY <1>1, <1>2 DEF ActiveAfter, OpsBy
  <2>5. ActiveAfter(base', txs', Len(txs'), registry'[a].did) \in BOOLEAN
    BY DEF ActiveAfter
  <2> QED
    BY <2>2, <2>3, <2>4, <2>5
<1>5. PlanFollowsLifecycle'
  BY <1>1, <1>4 DEF PlanFollowsLifecycle
<1>6. LinksInPlan' /\ RegistryGrows' /\ IdsOwn(registry)'
  BY <1>1 DEF LinksInPlan, RegistryGrows, IdsOwn
<1> QED
  BY <1>3, <1>5, <1>6 DEF LifeInv

\* An empty registry has no address.
LEMMA EmptyOwn == IdsOwn(Empty)
  BY DEF IdsOwn, Empty

LEMMA NextLife == IInv /\ LifeInv /\ [Next]_vars => LifeInv'
<1> SUFFICES ASSUME IInv, LifeInv, [Next]_vars PROVE LifeInv'
  OBVIOUS
<1>1. IInv'
  BY NextIInv
<1>2. ASSUME UNCHANGED hostVars, IdsOwn(registryFile.agents)'
      PROVE  LifeInv'
  BY <1>2 DEF LifeInv, IdsOwn, LinksInPlan, RegistryGrows, PlanFollowsLifecycle, hostVars
<1>3. CASE \/ Call \/ WriteActionTxMap \/ WritePlan \/ ChainStarts \/ ClusterStep \/ WriteAgentCSVs
           \/ NextTrace \/ UNCHANGED vars
  <2>1. UNCHANGED <<hostVars, registryFile>>
    BY <1>3 DEF Call, WriteActionTxMap, WritePlan, ChainStarts, ClusterStep, NodeStarts,
                SupervisorStarts, Commit, WriteAgentCSVs, NextTrace, vars, fileVars
  <2> QED
    BY <1>2, <2>1 DEF LifeInv, IdsOwn
<1>4. CASE RemoveResults \/ TruncateRegistry \/ WriteRegistry
  <2>1. UNCHANGED hostVars
    BY <1>4 DEF RemoveResults, TruncateRegistry, WriteRegistry
  <2>2. registryFile \in [state : {"absent", "torn", "written"}, agents : Registry]
    BY DEF IInv, TypeOK
  <2>3. registryFile'.agents = Empty \/ registryFile'.agents = registry
    <3>1. CASE RemoveResults
      BY <3>1 DEF RemoveResults, Absent
    <3>2. CASE TruncateRegistry
      <4>1. registryFile' = [state |-> "torn", agents |-> Empty]
        BY <2>2, <3>2 DEF TruncateRegistry
      <4> QED
        BY <4>1
    <3>3. CASE WriteRegistry
      BY <3>3 DEF WriteRegistry
    <3> QED
      BY <1>4, <3>1, <3>2, <3>3
  <2>4. IdsOwn(registryFile'.agents)
    BY <2>3, EmptyOwn DEF LifeInv
  <2> QED
    BY <1>2, <2>1, <2>4 DEF IdsOwn
<1>5. CASE NewAgentSupervisor
  BY <1>1, <1>5, EmptyLife DEF NewAgentSupervisor, fileVars, LifeInv, IdsOwn
<1>6. CASE Finish \/ Abort
  <2>1. Exit /\ registryFile' = registryFile
    BY <1>6 DEF Finish, Abort, fileVars
  <2>2. txs' = <<>> /\ links' = <<>> /\ registry' = base' /\ base' = Empty
    BY <2>1 DEF Exit
  <2>3. IdsOwn(registryFile.agents)' /\ IdsOwn(base)'
    BY <2>1, <2>2, EmptyOwn DEF LifeInv
  <2> QED
    BY <1>1, <2>2, <2>3, EmptyLife
<1> QED
  BY <1>3, <1>4, <1>5, <1>6, JoinLife, LeaveLife, PayLife, RawLife DEF Next, ClusterStep

LEMMA InitLife == Init => LifeInv
<1> SUFFICES ASSUME Init PROVE LifeInv
  OBVIOUS
<1>1. Len(txs) = 0 /\ DOMAIN txs = {} /\ DOMAIN links = {}
  BY DEF Init
<1>2. \A d : OpsBy(txs, 0, d) = {}
  BY DEF OpsBy
<1>3. registry = Empty /\ base = Empty /\ registryFile.agents = Empty
  BY DEF Init, Absent
<1>4. \A a \in Agent : registry[a].did = NoDID /\ base[a].did = NoDID
  BY <1>3 DEF Empty
<1>5. PlanFollowsLifecycle
  BY <1>1, <1>4 DEF PlanFollowsLifecycle
<1>6. LinksInPlan /\ RegistryGrows
  BY <1>1, <1>4 DEF LinksInPlan, RegistryGrows
<1> QED
  BY <1>1, <1>2, <1>3, <1>5, <1>6, EmptyOwn DEF LifeInv, HasLast

\* Every plan obeys the life cycle of identities: registered only when not
\* active, revoked only when active, payments only between active agents, and
\* the registry is what the calls add up to.
THEOREM LifecycleFollowed == Spec => []PlanFollowsLifecycle
<1>1. Init => IInv /\ LifeInv
  BY InitIInv, InitLife
<1>2. (IInv /\ LifeInv) /\ [Next]_vars => (IInv /\ LifeInv)'
  BY NextIInv, NextLife
<1>3. IInv /\ LifeInv => PlanFollowsLifecycle
  BY DEF LifeInv
<1> QED
  BY <1>1, <1>2, <1>3, PTL DEF Spec
-----------------------------------------------------------------------------
(***************************************************************************)
(* The files of a successful call belong together                          *)
(***************************************************************************)

\* Every transaction of the plan in memory belongs to one entry.
EntryInv ==
    \A i \in DOMAIN txs : \E j \in DOMAIN links :
        \A k \in DOMAIN links : txs[i] \in links[k].txs <=> k = j

\* The files of round r belong together, by the addresses of reg.
Belongs(r, reg) ==
    /\ \A tx \in Range(planFile[r]) : \E j \in DOMAIN linksFile[r] :
          \A k \in DOMAIN linksFile[r] : tx \in linksFile[r][k].txs <=> k = j
    /\ \A i \in DOMAIN linksFile[r] : \A tx \in linksFile[r][i].txs :
          /\ tx \in Range(planFile[r])
          /\ linksFile[r][i].agent # NoDID /\ SenderSide(r, tx)
               => <<linksFile[r][i].agent, tx>> \in csv[r]
    /\ \A row \in csv[r] :
          /\ row[2] \in Range(planFile[r]) /\ AnySide(r, row[2])
          /\ reg[row[1]].did # NoDID
          /\ reg[row[1]].did \in {row[2].sender, row[2].recipient}

\* Rows and committed transactions are only where a supervisor has been, and a
\* supervisor only runs where none has been before it: it finds no rows, and
\* the blocks have transactions of its own plan only.
CsvInv ==
    /\ \A r \in Round : Supervisor \notin created[r] =>
          csv[r] = {} /\ \A s \in Shard : store[r][s] = {}
    /\ proc[Supervisor] = "up" =>
          /\ pc = "running"
          /\ Supervisor \in created[round]
          /\ csv[round] = {}
          /\ \A s \in Shard : \A leg \in store[round][s] : leg.tx \in Range(planFile[round])

\* What the round has written is what it has in memory.
RoundFilesInv ==
    /\ pc \in {"plan", "chain", "running", "end"} => linksFile[round] = links
    /\ pc \in {"chain", "running", "end"} => planFile[round] = txs

\* The finished rounds of a call belong together, by the addresses that the
\* call, or its next round, has.
BelongInv ==
    chain =>
        /\ pc \in Working => \A r \in 1 .. (round - 1) : Belongs(r, registry)
        /\ pc = "load" => \A r \in 1 .. (round - 1) : Belongs(r, registryFile.agents)
        /\ pc = "end" => Belongs(round, registry)
        /\ pc = "done" => \A r \in 1 .. summary : Belongs(r, registryFile.agents)

FilesInv == EntryInv /\ CsvInv /\ RoundFilesInv /\ BelongInv

\* What a finished round has is not touched any more, and no agent's address
\* changes.
LEMMA StillBelongs ==
    ASSUME NEW r, NEW reg, NEW reg2, Belongs(r, reg), csv \in [Round -> SUBSET (Agent \X Tx)],
           r \in Round,
           planFile'[r] = planFile[r], linksFile'[r] = linksFile[r], csv'[r] = csv[r],
           store'[r] = store[r],
           \A a \in Agent : reg[a].did # NoDID => reg2[a].did = reg[a].did
    PROVE  \A x : x = reg2 => Belongs(r, x)'
<1>1. \A row \in csv[r] : row[1] \in Agent
  OBVIOUS
<1>2. \A row \in csv[r] : reg2[row[1]].did # NoDID
                          /\ reg2[row[1]].did \in {row[2].sender, row[2].recipient}
  BY <1>1 DEF Belongs
<1> QED
  BY <1>2 DEF Belongs, SenderSide, AnySide

\* A new transaction comes with an entry of its own.
LEMMA EntryAppend ==
    ASSUME IInv, LifeInv, EntryInv, NEW agent \in Agent \cup {NoDID}, NEW from \in Addr,
           NEW to \in Addr, NEW value \in {0, 1}, NEW op \in {"none", "register", "revoke"},
           AppendTx(agent, from, to, value, op)
    PROVE  EntryInv'
<1> DEFINE tx == NewTx(from, to, value, op)
           link == [agent |-> agent, txs |-> {tx}]
<1>1. tx \in Tx
  BY NonceStep
<1>2. txs \in Seq(Tx) /\ links \in Seq(Link)
  BY DEF IInv, TypeOK, Link
<1>3. txs' = Append(txs, tx) /\ links' = Append(links, link)
  BY DEF AppendTx, NextNonce, NewTx
<1>4. \A i \in DOMAIN txs : txs[i] # tx
  BY FreshTx
<1>5. link \in Link /\ link.txs = {tx}
  BY <1>1 DEF Link
<1> HIDE DEF tx, link
<1>6. /\ DOMAIN txs' = 1 .. (Len(txs) + 1) /\ DOMAIN txs = 1 .. Len(txs) /\ Len(txs) \in Nat
      /\ \A i \in 1 .. Len(txs) : txs'[i] = txs[i]
      /\ txs'[Len(txs) + 1] = tx
  BY <1>1, <1>2, <1>3, AppendFacts
<1>7. /\ DOMAIN links' = 1 .. (Len(links) + 1) /\ DOMAIN links = 1 .. Len(links) /\ Len(links) \in Nat
      /\ \A i \in 1 .. Len(links) : links'[i] = links[i]
      /\ links'[Len(links) + 1] = link
  BY <1>2, <1>3, <1>5, AppendFacts
<1>8. \A j \in DOMAIN links : tx \notin links[j].txs
  BY <1>4 DEF LifeInv, LinksInPlan
<1>9. ASSUME NEW i \in 1 .. Len(txs)
      PROVE  \E j \in DOMAIN links' : \A k \in DOMAIN links' : txs'[i] \in links'[k].txs <=> k = j
  <2>1. PICK j \in DOMAIN links : \A k \in DOMAIN links : txs[i] \in links[k].txs <=> k = j
    BY <1>6 DEF EntryInv
  <2>2. txs[i] # tx /\ txs'[i] = txs[i]
    BY <1>4, <1>6
  <2>3. j \in DOMAIN links' /\ j # Len(links) + 1
    BY <1>7
  <2>4. \A k \in DOMAIN links' : txs'[i] \in links'[k].txs <=> k = j
    BY <1>5, <1>7, <2>1, <2>2, <2>3
  <2> QED
    BY <2>3, <2>4
<1>10. \E j \in DOMAIN links' : \A k \in DOMAIN links' : tx \in links'[k].txs <=> k = j
  <2>1. Len(links) + 1 \in DOMAIN links'
    BY <1>7
  <2>2. \A k \in DOMAIN links' : tx \in links'[k].txs <=> k = Len(links) + 1
    BY <1>5, <1>7, <1>8
  <2> QED
    BY <2>1, <2>2
<1> QED
  BY <1>6, <1>9, <1>10 DEF EntryInv

\* A join that changes nothing adds an entry without transactions.
LEMMA EntryEmpty ==
    ASSUME IInv, EntryInv, NEW a \in Agent, txs' = txs,
           links' = Append(links, [agent |-> a, txs |-> {}])
    PROVE  EntryInv'
<1> DEFINE link == [agent |-> a, txs |-> {}]
<1>1. links \in Seq(Link) /\ link \in Link /\ link.txs = {}
  BY DEF IInv, TypeOK, Link
<1> HIDE DEF link
<1>2. /\ DOMAIN links' = 1 .. (Len(links) + 1) /\ DOMAIN links = 1 .. Len(links) /\ Len(links) \in Nat
      /\ \A i \in 1 .. Len(links) : links'[i] = links[i]
      /\ links'[Len(links) + 1] = link
  BY <1>1, AppendFacts DEF link
<1> SUFFICES ASSUME NEW i \in DOMAIN txs
             PROVE  \E j \in DOMAIN links' : \A k \in DOMAIN links' : txs[i] \in links'[k].txs <=> k = j
  BY DEF EntryInv
<1>3. PICK j \in DOMAIN links : \A k \in DOMAIN links : txs[i] \in links[k].txs <=> k = j
  BY DEF EntryInv
<1>4. j \in DOMAIN links' /\ j # Len(links) + 1
  BY <1>2
<1>5. \A k \in DOMAIN links' : txs[i] \in links'[k].txs <=> k = j
  BY <1>1, <1>2, <1>3, <1>4
<1> QED
  BY <1>4, <1>5

\* The records of a trace.
LEMMA FilesRecord ==
    ASSUME IInv, LifeInv, FilesInv,
           \/ \E a \in Agent : ProcessJoin(a) \/ ProcessLeave(a)
           \/ \E a, b \in Agent : ProcessPay(a, b)
           \/ \E spec \in RawSpec : ProcessRawTx(spec)
    PROVE  FilesInv'
<1>1. TakeRecord
  BY DEF ProcessJoin, ProcessLeave, ProcessPay, ProcessRawTx
<1>2. Contract \in Addr /\ \A a \in Agent : registry[a] \in Entry /\ registry[a].did \in DID \cup {NoDID}
  BY DEF Addr, IInv, TypeOK, Registry, Entry
<1>3. \A a \in Agent : registry[a].active => registry[a].did \in Addr
  BY <1>2 DEF Addr, IInv, ActiveInv
<1>4. EntryInv' /\ \A a \in Agent : registry[a].did # NoDID => registry'[a].did = registry[a].did
  <2>1. ASSUME NEW a \in Agent, ProcessJoin(a)
        PROVE  EntryInv' /\ \A x \in Agent : registry[x].did # NoDID => registry'[x].did = registry[x].did
    <3> DEFINE did == IF registry[a].did = NoDID THEN AllocatedDID(seed, a) ELSE registry[a].did
    <3>1. registry' = [registry EXCEPT ![a] = [did |-> did, active |-> TRUE]]
      BY <2>1 DEF ProcessJoin
    <3>2. \/ AppendTx(a, did, Contract, 0, "register")
          \/ links' = Append(links, [agent |-> a, txs |-> {}]) /\ UNCHANGED <<txs, nonces>>
      BY <2>1 DEF ProcessJoin
    <3>3. did \in Addr
      BY <1>2 DEF Addr, DID, IInv, TypeOK
    <3>4. registry[a].did # NoDID => did = registry[a].did
      OBVIOUS
    <3> HIDE DEF did
    <3>5. \A x \in Agent : registry[x].did # NoDID => registry'[x].did = registry[x].did
      BY <3>1, <3>4 DEF IInv, TypeOK, Registry
    <3>6. EntryInv'
      <4>1. CASE AppendTx(a, did, Contract, 0, "register")
        BY <1>2, <3>3, <4>1, EntryAppend DEF FilesInv
      <4>2. CASE links' = Append(links, [agent |-> a, txs |-> {}]) /\ UNCHANGED <<txs, nonces>>
        BY <4>2, EntryEmpty DEF FilesInv
      <4> QED
        BY <3>2, <4>1, <4>2
    <3> QED
      BY <3>5, <3>6
  <2>2. ASSUME NEW a \in Agent, ProcessLeave(a)
        PROVE  EntryInv' /\ \A x \in Agent : registry[x].did # NoDID => registry'[x].did = registry[x].did
    <3>1. registry[a].active /\ registry' = [registry EXCEPT ![a].active = FALSE]
          /\ AppendTx(a, registry[a].did, Contract, 0, "revoke")
      BY <2>2 DEF ProcessLeave
    <3>2. EntryInv'
      BY <1>2, <1>3, <3>1, EntryAppend DEF FilesInv
    <3>3. \A x \in Agent : registry'[x].did = registry[x].did
      BY <1>2, <3>1 DEF IInv, TypeOK, Registry, Entry
    <3> QED
      BY <3>2, <3>3
  <2>3. ASSUME NEW a \in Agent, NEW b \in Agent, ProcessPay(a, b)
        PROVE  EntryInv' /\ registry' = registry
    BY <1>3, <2>3, EntryAppend DEF ProcessPay, FilesInv
  <2>4. ASSUME NEW spec \in RawSpec, ProcessRawTx(spec)
        PROVE  EntryInv' /\ registry' = registry
    <3>1. spec[1] \in Addr /\ spec[2] \in Addr
      BY DEF Addr
    <3> QED
      BY <3>1, <2>4, EntryAppend DEF ProcessRawTx, FilesInv
  <2> QED
    BY <2>1, <2>2, <2>3, <2>4
<1>5. UNCHANGED <<fileVars, chain, pc, round, proc>> /\ pc = "process"
  BY <1>1 DEF TakeRecord
<1>6. CsvInv' /\ RoundFilesInv'
  BY <1>5 DEF FilesInv, CsvInv, RoundFilesInv, fileVars, chainFiles
<1>7. BelongInv'
  <2>1. ASSUME chain, NEW r \in 1 .. (round - 1)
        PROVE  Belongs(r, registry)'
    <3>1. Belongs(r, registry)
      BY <1>5, <2>1 DEF FilesInv, BelongInv, Working
    <3>2. r \in Round /\ csv \in [Round -> SUBSET (Agent \X Tx)]
      BY RoundAssumption DEF IInv, TypeOK, Round
    <3>3. \A x : x = registry' => Belongs(r, x)'
      BY <1>4, <1>5, <3>1, <3>2, StillBelongs DEF fileVars, chainFiles
    <3> QED
      BY <3>3 DEF Belongs, SenderSide, AnySide
  <2> QED
    BY <1>5, <2>1 DEF BelongInv
<1> QED
  BY <1>4, <1>6, <1>7 DEF FilesInv

\* A finished round belongs to another state of the call.
LEMMA RoundsStay ==
    ASSUME TypeOK, NEW k \in Int, k <= MaxRounds, NEW reg, \A r \in 1 .. k : Belongs(r, reg),
           \A r \in 1 .. k : /\ planFile'[r] = planFile[r] /\ linksFile'[r] = linksFile[r]
                             /\ csv'[r] = csv[r] /\ store'[r] = store[r]
    PROVE  \A r \in 1 .. k : \A x : x = reg => Belongs(r, x)'
<1>1. \A r \in 1 .. k : r \in Round
  BY RoundAssumption DEF Round
<1>2. csv \in [Round -> SUBSET (Agent \X Tx)]
  BY DEF TypeOK
<1> QED
  BY <1>1, <1>2, StillBelongs

\* The CSVs of a round: an action of an agent whose sender's side is in a block
\* is among its rows, since the sender is the agent's address.
LEMMA RowsBelong ==
    ASSUME IInv, LifeInv, FilesInv, WriteAgentCSVs
    PROVE  Belongs(round, registry)'
<1>1. /\ linksFile[round] = links /\ planFile[round] = txs /\ csv[round] = {}
      /\ UNCHANGED <<linksFile, planFile, store, round, registry>>
      /\ \A s \in Shard : \A leg \in store[round][s] : leg.tx \in Range(txs)
  BY DEF WriteAgentCSVs, FilesInv, RoundFilesInv, CsvInv, hostVars, chainFiles
<1>2. csv'[round] = UNION {RowsOf(a) : a \in Agent}
  BY <1>1 DEF WriteAgentCSVs, IInv, TypeOK
<1>3. \A a \in Agent : \A s \in Shard : \A leg \in store[round][s] :
         HasSide(a, leg) => <<a, leg.tx>> \in csv'[round]
  BY <1>2 DEF RowsOf
<1>4. \A row \in csv'[round] : \E a \in Agent : \E s \in Shard : \E leg \in store[round][s] :
         row = <<a, leg.tx>> /\ HasSide(a, leg)
  BY <1>2 DEF RowsOf
<1>5. \A tx \in Range(txs) : \E j \in DOMAIN links :
         \A k \in DOMAIN links : tx \in links[k].txs <=> k = j
  BY DEF FilesInv, EntryInv, Range
<1>6. \A j \in DOMAIN links : \A tx \in links[j].txs : tx \in Range(txs)
  BY DEF LifeInv, LinksInPlan, Range
<1>7. ASSUME NEW j \in DOMAIN links, NEW tx \in links[j].txs, links[j].agent # NoDID,
             SenderSide(round, tx)
      PROVE  <<links[j].agent, tx>> \in csv'[round]
  <2>1. links[j].agent \in Agent
    <3>1. links \in Seq(Link)
      BY DEF IInv, TypeOK, Link
    <3>2. links[j] \in Link
      BY <3>1, InSeq
    <3> QED
      BY <1>7, <3>2 DEF Link
  <2>2. Fits(links[j], registry)
    BY <1>7 DEF IInv, DIDInv, Named
  <2>3. tx.sender = registry[links[j].agent].did /\ registry[links[j].agent].did # NoDID
    BY <2>2 DEF Fits, ActsAs
  <2> PICK s \in Shard : \E leg \in store[round][s] : leg.tx = tx /\ leg.stage # "relay2"
    BY <1>7 DEF SenderSide
  <2>4. PICK leg \in store[round][s] : leg.tx = tx /\ leg.stage # "relay2"
    OBVIOUS
  <2>5. HasSide(links[j].agent, leg)
    BY <2>3, <2>4 DEF HasSide
  <2> QED
    BY <1>3, <2>1, <2>4, <2>5
<1>8. \A row \in csv'[round] : /\ row[2] \in Range(txs) /\ AnySide(round, row[2])
                               /\ registry[row[1]].did # NoDID
                               /\ registry[row[1]].did \in {row[2].sender, row[2].recipient}
  BY <1>1, <1>4 DEF HasSide, AnySide
<1> QED
  BY <1>1, <1>5, <1>6, <1>7, <1>8 DEF Belongs, SenderSide, AnySide

LEMMA FilesInit == Init => FilesInv
<1> SUFFICES ASSUME Init PROVE FilesInv
  OBVIOUS
<1>1. /\ DOMAIN txs = {} /\ ~chain /\ pc = "idle" /\ proc[Supervisor] = "off"
      /\ \A r \in Round : csv[r] = {} /\ \A s \in Shard : store[r][s] = {}
  BY DEF Init, NoFiles, NoBlocks, AllOff, Process
<1> QED
  BY <1>1 DEF FilesInv, EntryInv, CsvInv, RoundFilesInv, BelongInv

\* The cluster touches the files of its round only, and neither plan nor rows.
LEMMA ClusterFiles ==
    ASSUME TypeOK, ClusterStep
    PROVE  /\ UNCHANGED <<planFile, linksFile, csv, pc, round>>
           /\ \A r \in Round : r # round => store'[r] = store[r] /\ created'[r] = created[r]
<1> USE DEF TypeOK
<1>1. ASSUME NEW s \in Shard, NodeStarts(s)
      PROVE  \A r \in Round : r # round => store'[r] = store[r] /\ created'[r] = created[r]
  BY <1>1 DEF NodeStarts
<1>2. ASSUME SupervisorStarts
      PROVE  \A r \in Round : r # round => store'[r] = store[r] /\ created'[r] = created[r]
  BY <1>2 DEF SupervisorStarts
<1>3. ASSUME NEW s \in Shard, NEW tx \in Range(planFile[round]), Commit(s, tx)
      PROVE  \A r \in Round : r # round => store'[r] = store[r] /\ created'[r] = created[r]
  BY <1>3 DEF Commit
<1> QED
  BY <1>1, <1>2, <1>3 DEF ClusterStep, NodeStarts, SupervisorStarts, Commit

\* A leader that starts empties its store; the supervisor starts where no other
\* has been; and what is committed is of the plan.
LEMMA ClusterCsv ==
    ASSUME TypeOK, CsvInv, ClusterStep, round \in Round
    PROVE  CsvInv'
<1> USE DEF TypeOK
<1>0. Supervisor \in Process /\ Shard \subseteq Process /\ \A s \in Shard : s # Supervisor
  BY RoundAssumption DEF Process
<1>1. ASSUME NEW s \in Shard, NodeStarts(s) PROVE CsvInv'
  <2>0. /\ UNCHANGED <<csv, planFile, pc, round>>
        /\ \/ created' = created
           \/ created' = [created EXCEPT ![round] = @ \cup {s}]
        /\ \/ proc' = [proc EXCEPT ![s] = "up"]
           \/ proc' = [proc EXCEPT ![s] = "down"]
    BY <1>1 DEF NodeStarts
  <2>3. s # Supervisor /\ Supervisor \in Process
    BY <1>0
  <2>4. proc'[Supervisor] = proc[Supervisor]
    BY <2>0, <2>3
  <2>5. ASSUME NEW r \in Round PROVE Supervisor \in created'[r] <=> Supervisor \in created[r]
    <3>1. created \in [Round -> SUBSET Process]
      OBVIOUS
    <3>2. created'[r] = created[r] \/ created'[r] = created[r] \cup {s}
      <4> HIDE DEF TypeOK
      <4> QED
        BY <2>0, <3>1
    <3> QED
      BY <2>3, <3>2
  <2>1. /\ UNCHANGED <<csv, planFile, pc, round>>
        /\ proc'[Supervisor] = proc[Supervisor]
        /\ \A r \in Round : Supervisor \in created'[r] <=> Supervisor \in created[r]
    BY <2>0, <2>4, <2>5
  <2>2. \A r \in Round : \A o \in Shard : store'[r][o] = store[r][o] \/ store'[r][o] = {}
    BY <1>1 DEF NodeStarts
  <2> QED
    BY <2>1, <2>2 DEF CsvInv
<1>2. CASE SupervisorStarts
  <2>1. /\ UNCHANGED <<csv, store, planFile, pc, round>> /\ pc = "running"
        /\ Supervisor \notin created[round]
        /\ Supervisor \in created'[round]
        /\ \A r \in Round : created[r] \subseteq created'[r]
    BY <1>2 DEF SupervisorStarts, Creatable
  <2> QED
    BY <2>1 DEF CsvInv
<1>3. ASSUME NEW s \in Shard, NEW tx \in Range(planFile[round]), Commit(s, tx) PROVE CsvInv'
  <2>1. /\ UNCHANGED <<csv, created, planFile, pc, round, proc>>
        /\ proc[Supervisor] = "up" /\ Supervisor \in created[round]
    BY <1>3 DEF Commit, CsvInv
  <2>2. PICK stage \in {"whole", "relay1", "relay2"} :
           store' = [store EXCEPT ![round][s] = @ \cup {[tx |-> tx, stage |-> stage]}]
    BY <1>3 DEF Commit
  <2>3. \A r \in Round : r # round => store'[r] = store[r]
    BY <2>2
  <2>4. \A o \in Shard : \A leg \in store'[round][o] : leg \in store[round][o] \/ leg.tx = tx
    BY <2>2
  <2>5. \A r \in Round : Supervisor \notin created'[r] =>
            csv'[r] = {} /\ \A o \in Shard : store'[r][o] = {}
    BY <2>1, <2>3 DEF CsvInv
  <2>6. \A o \in Shard : \A leg \in store'[round][o] : leg.tx \in Range(planFile[round])
    BY <2>1, <2>4 DEF CsvInv
  <2>7. pc = "running" /\ csv[round] = {}
    BY <2>1 DEF CsvInv
  <2> HIDE DEF TypeOK
  <2> QED
    BY <2>1, <2>5, <2>6, <2>7 DEF CsvInv
<1> QED
  BY <1>1, <1>2, <1>3 DEF ClusterStep

LEMMA FilesNext == IInv /\ LifeInv /\ FilesInv /\ [Next]_vars => FilesInv'
<1> SUFFICES ASSUME IInv, LifeInv, FilesInv, [Next]_vars PROVE FilesInv'
  OBVIOUS
<1>1. round \in Round /\ round \in Nat /\ round <= MaxRounds /\ MaxRounds \in Nat /\ TypeOK
      /\ round - 1 \in Int /\ round - 1 <= MaxRounds
  <2>1. TypeOK /\ round \in 1 .. MaxRounds
    BY DEF IInv, TypeOK, Round
  <2>2. MaxRounds \in Nat
    BY RoundAssumption
  <2> QED
    BY <2>1, <2>2 DEF Round
<1>2. CASE Call \/ Abort \/ RemoveResults
  <2>1. pc' \in {"load", "idle"} /\ (pc' = "load" => round' = 1)
    BY <1>2 DEF Call, Abort, RemoveResults
  <2>2. EntryInv'
    <3>1. UNCHANGED <<txs, links>> \/ txs' = <<>>
      BY <1>2 DEF Call, Abort, RemoveResults, Exit, hostVars
    <3> QED
      BY <3>1 DEF FilesInv, EntryInv
  <2>3. CsvInv'
    <3>1. /\ \/ UNCHANGED <<csv, created, store>>
             \/ \A r \in Round : csv'[r] = {} /\ \A s \in Shard : store'[r][s] = {}
          /\ \/ proc' = proc /\ pc # "running"
             \/ proc'[Supervisor] = "off"
      BY <1>2 DEF Call, Abort, RemoveResults, fileVars, chainFiles, NoFiles, NoBlocks, Exit,
                  AllOff, Process
    <3> QED
      BY <2>1, <3>1 DEF FilesInv, CsvInv
  <2>4. RoundFilesInv' /\ BelongInv'
    BY <2>1 DEF RoundFilesInv, BelongInv, Working
  <2> QED
    BY <2>2, <2>3, <2>4 DEF FilesInv
<1>3. CASE NewAgentSupervisor
  <2>1. /\ txs' = <<>> /\ pc' = "process" /\ pc = "load" /\ registry' = registryFile.agents
        /\ UNCHANGED <<planFile, linksFile, csv, created, store, proc, chain, round>>
    BY <1>3 DEF NewAgentSupervisor, fileVars, chainFiles, callVars
  <2>2. EntryInv' /\ CsvInv' /\ RoundFilesInv'
    BY <2>1 DEF FilesInv, EntryInv, CsvInv, RoundFilesInv
  <2>3. ASSUME chain PROVE \A r \in 1 .. (round - 1) : Belongs(r, registry)'
    <3>1. \A r \in 1 .. (round - 1) : Belongs(r, registryFile.agents)
      BY <2>1, <2>3 DEF FilesInv, BelongInv
    <3>2. \A r \in 1 .. (round - 1) : \A x : x = registryFile.agents => Belongs(r, x)'
      BY <1>1, <2>1, <3>1, RoundsStay
    <3> SUFFICES ASSUME NEW r \in 1 .. (round - 1) PROVE Belongs(r, registry)'
      OBVIOUS
    <3>3. \A x : x = registry' => Belongs(r, x)'
      BY <2>1, <3>2
    <3> QED
      BY <3>3 DEF Belongs
  <2> QED
    BY <2>1, <2>2, <2>3 DEF FilesInv, BelongInv, Working
<1>4. CASE \/ TruncateRegistry \/ WriteRegistry \/ WriteActionTxMap \/ WritePlan
           \/ ChainStarts \/ ClusterStep \/ WriteAgentCSVs
  <2>1. /\ UNCHANGED <<hostVars, chain, round>>
        /\ pc \in Working /\ pc' \in Working
        /\ pc' = "end" => ~chain \/ WriteAgentCSVs
    BY <1>4 DEF TruncateRegistry, WriteRegistry, WriteActionTxMap, WritePlan, ChainStarts,
                ClusterStep, NodeStarts, SupervisorStarts, Commit, WriteAgentCSVs, callVars,
                Working
  <2>2. EntryInv'
    BY <2>1 DEF FilesInv, EntryInv, hostVars
  <2>3. CsvInv'
    <3>1. CASE ClusterStep
      BY <3>1, <1>1, ClusterCsv DEF FilesInv
    <3>2. CASE WriteAgentCSVs
      <4>1. Supervisor \in created[round] /\ proc'[Supervisor] = "off" /\ UNCHANGED <<created, store>>
        BY <3>2 DEF FilesInv, CsvInv, WriteAgentCSVs, AllOff, Process, chainFiles
      <4>2. \A r \in Round : r # round => csv'[r] = csv[r]
        BY <3>2, <1>1 DEF WriteAgentCSVs, TypeOK
      <4> QED
        BY <4>1, <4>2 DEF FilesInv, CsvInv
    <3>3. CASE TruncateRegistry \/ WriteRegistry \/ WriteActionTxMap \/ WritePlan \/ ChainStarts
      <4>1. UNCHANGED <<created, store, csv, proc>> /\ pc # "running"
        BY <3>3 DEF TruncateRegistry, WriteRegistry, WriteActionTxMap, WritePlan, ChainStarts,
                    fileVars, chainFiles
      <4> QED
        BY <4>1 DEF FilesInv, CsvInv
    <3> QED
      BY <1>4, <3>1, <3>2, <3>3
  <2>4. RoundFilesInv'
    <3>1. CASE WriteActionTxMap
      BY <3>1, <2>1, <1>1 DEF WriteActionTxMap, RoundFilesInv, TypeOK, hostVars
    <3>2. CASE WritePlan
      BY <3>2, <2>1, <1>1 DEF WritePlan, FilesInv, RoundFilesInv, TypeOK, hostVars
    <3>3. CASE TruncateRegistry \/ WriteRegistry \/ ChainStarts \/ ClusterStep \/ WriteAgentCSVs
      BY <3>3, <2>1 DEF TruncateRegistry, WriteRegistry, ChainStarts, ClusterStep, NodeStarts,
                        SupervisorStarts, Commit, WriteAgentCSVs, FilesInv, RoundFilesInv,
                        hostVars, fileVars
    <3> QED
      BY <1>4, <3>1, <3>2, <3>3
  <2>5. \A r \in 1 .. (round - 1) :
           /\ planFile'[r] = planFile[r] /\ linksFile'[r] = linksFile[r]
           /\ csv'[r] = csv[r] /\ store'[r] = store[r]
    <3>1. \A r \in 1 .. (round - 1) : r # round /\ r \in Round
      BY <1>1 DEF Round
    <3>2. \A r \in Round : r # round =>
             /\ planFile'[r] = planFile[r] /\ linksFile'[r] = linksFile[r]
             /\ csv'[r] = csv[r] /\ store'[r] = store[r]
      BY <1>1, <1>4, ClusterFiles
         DEF TruncateRegistry, WriteRegistry, WriteActionTxMap, WritePlan, ChainStarts,
             WriteAgentCSVs, TypeOK, fileVars, chainFiles
    <3> QED
      BY <3>1, <3>2
  <2>6. ASSUME chain PROVE \A r \in 1 .. (round - 1) : Belongs(r, registry)'
    <3>1. \A r \in 1 .. (round - 1) : Belongs(r, registry)
      BY <2>1, <2>6 DEF FilesInv, BelongInv
    <3>2. \A r \in 1 .. (round - 1) : \A x : x = registry => Belongs(r, x)'
      BY <1>1, <2>5, <3>1, RoundsStay
    <3> QED
      BY <2>1, <3>2 DEF Belongs, SenderSide, AnySide, hostVars
  <2>7. chain /\ pc' = "end" => Belongs(round, registry)'
    BY <2>1, RowsBelong
  <2>8. BelongInv'
    BY <2>1, <2>6, <2>7 DEF BelongInv, Working
  <2> QED
    BY <2>2, <2>3, <2>4, <2>8 DEF FilesInv
<1>5. CASE Finish \/ NextTrace
  <2>1. /\ pc = "end" /\ pc' \in {"done", "load"}
        /\ UNCHANGED <<planFile, linksFile, csv, created, store, chain, registryFile>>
        /\ proc' = proc \/ proc'[Supervisor] = "off"
        /\ pc' = "done" => summary' = round
        /\ pc' = "load" => round' = round + 1
    BY <1>5 DEF Finish, NextTrace, fileVars, chainFiles, callVars, Exit, AllOff, Process
  <2>2. EntryInv'
    <3>1. UNCHANGED <<txs, links>> \/ txs' = <<>>
      BY <1>5 DEF Finish, NextTrace, Exit, hostVars
    <3> QED
      BY <3>1 DEF FilesInv, EntryInv
  <2>3. CsvInv' /\ RoundFilesInv'
    BY <2>1 DEF FilesInv, CsvInv, RoundFilesInv
  <2>4. ASSUME chain PROVE \A r \in 1 .. round : Belongs(r, registryFile.agents)'
    <3>1. registryFile.agents = registry
      BY <2>1 DEF IInv, DIDInv, Written, Working
    <3>2. \A r \in 1 .. round : Belongs(r, registryFile.agents)
      BY <1>1, <2>1, <2>4, <3>1 DEF FilesInv, BelongInv, Working
    <3>3. \A r \in 1 .. round : \A x : x = registryFile.agents => Belongs(r, x)'
      BY <1>1, <2>1, <3>2, RoundsStay
    <3> QED
      BY <2>1, <3>3 DEF Belongs
  <2>5. BelongInv'
    <3>1. pc' = "load" => round' - 1 = round
      BY <1>1, <2>1
    <3> QED
      BY <2>1, <2>4, <3>1 DEF BelongInv, Working
  <2> QED
    BY <2>2, <2>3, <2>5 DEF FilesInv
<1>6. CASE UNCHANGED vars
  <2>1. /\ UNCHANGED <<linksFile, planFile, csv, created, store, proc, summary, pc, chain, round>>
        /\ UNCHANGED <<registry, txs, links, registryFile>>
    BY <1>6 DEF vars, fileVars, chainFiles, callVars, hostVars
  <2>2. EntryInv' /\ CsvInv' /\ RoundFilesInv'
    BY <2>1 DEF FilesInv, EntryInv, CsvInv, RoundFilesInv
  <2>3. \A r : /\ Belongs(r, registry) => Belongs(r, registry)'
               /\ Belongs(r, registryFile.agents) => Belongs(r, registryFile.agents)'
    BY <2>1 DEF Belongs, SenderSide, AnySide
  <2>4. BelongInv'
    BY <2>1, <2>3 DEF FilesInv, BelongInv
  <2> QED
    BY <2>2, <2>4 DEF FilesInv
<1> QED
  BY <1>2, <1>3, <1>4, <1>5, <1>6, FilesRecord DEF Next, ClusterStep

\* When a call succeeds, action map, plan, blocks and CSVs of each of its rounds
\* belong together, whatever files, blocks and rows earlier calls have left in
\* the directory and whatever part of the cluster was up.
THEOREM SuccessAlwaysConsistent == Spec => []SuccessIsConsistent
<1>1. Init => IInv /\ LifeInv /\ FilesInv
  BY InitIInv, InitLife, FilesInit
<1>2. (IInv /\ LifeInv /\ FilesInv) /\ [Next]_vars => (IInv /\ LifeInv /\ FilesInv)'
  BY NextIInv, NextLife, FilesNext
<1>3. ASSUME IInv, FilesInv, pc = "done", chain, NEW r \in 1 .. summary
      PROVE  /\ \A tx \in Range(planFile[r]) :
                  Cardinality({i \in DOMAIN linksFile[r] : tx \in linksFile[r][i].txs}) = 1
             /\ \A i \in DOMAIN linksFile[r] : \A tx \in linksFile[r][i].txs :
                  /\ tx \in Range(planFile[r])
                  /\ linksFile[r][i].agent # NoDID /\ SenderSide(r, tx)
                       => <<linksFile[r][i].agent, tx>> \in csv[r]
             /\ \A row \in csv[r] :
                  /\ row[2] \in Range(planFile[r]) /\ AnySide(r, row[2])
                  /\ registryFile.agents[row[1]].did \in {row[2].sender, row[2].recipient}
  <2>1. Belongs(r, registryFile.agents)
    BY <1>3 DEF FilesInv, BelongInv
  <2>2. ASSUME NEW tx \in Range(planFile[r])
        PROVE  Cardinality({i \in DOMAIN linksFile[r] : tx \in linksFile[r][i].txs}) = 1
    <3>1. PICK j \in DOMAIN linksFile[r] :
             \A k \in DOMAIN linksFile[r] : tx \in linksFile[r][k].txs <=> k = j
      BY <2>1, <2>2 DEF Belongs
    <3>2. {i \in DOMAIN linksFile[r] : tx \in linksFile[r][i].txs} = {j}
      BY <3>1
    <3> QED
      BY <3>2, FS_Singleton
  <2> QED
    BY <2>1, <2>2 DEF Belongs
<1>4. IInv /\ LifeInv /\ FilesInv => SuccessIsConsistent
  BY <1>3 DEF SuccessIsConsistent
<1> QED
  BY <1>1, <1>2, <1>4, PTL DEF Spec

-----------------------------------------------------------------------------
(***************************************************************************)
(* The order of a trace                                                    *)
(***************************************************************************)

\* Trace files with n lines.
File(n) == [1 .. n -> Line]

\* Timestamps are numbers; an agent action has its own, and a plain transfer
\* that of the line before it.
LEMMA Timestamps ==
  ASSUME NEW n \in Nat, NEW lines \in File(n), NEW i \in 1 .. n
  PROVE  /\ Timestamp(lines, i) \in Nat
         /\ ~lines[i].plain => Timestamp(lines, i) = lines[i].ts
         /\ lines[i].plain /\ i > 1 => Timestamp(lines, i) = Timestamp(lines, i - 1)
         /\ lines[i].plain /\ i = 1 => Timestamp(lines, i) = 0
<1> DEFINE before(k) == {j \in 1 .. k : ~lines[j].plain}
<1>1. ASSUME NEW k \in 1 .. n, before(k) # {}
      PROVE  Max(before(k)) \in before(k) /\ \A y \in before(k) : Max(before(k)) >= y
  <2>1. before(k) \in SUBSET Nat /\ IsFiniteSet(before(k))
    BY FS_Interval, FS_Subset
  <2>2. \E x \in before(k) : \A y \in before(k) : y <= x
    BY <1>1, <2>1, GreatestElement
  <2>3. \E x \in before(k) : \A y \in before(k) : x >= y
    BY <2>1, <2>2
  <2> HIDE DEF before
  <2> QED
    BY <2>3 DEF Max
<1>2. \A k \in 1 .. n : lines[k].ts \in Nat /\ lines[k].plain \in BOOLEAN
  BY RoundAssumption DEF File, Line
<1>3. Timestamp(lines, i) = IF before(i) = {} THEN 0 ELSE lines[Max(before(i))].ts
  BY DEF Timestamp
<1>4. Timestamp(lines, i) \in Nat
  BY <1>1, <1>2, <1>3
<1>5. ASSUME ~lines[i].plain
      PROVE  Timestamp(lines, i) = lines[i].ts
  <2>1. i \in before(i)
    BY <1>5
  <2>2. Max(before(i)) = i
    BY <1>1, <2>1
  <2> QED
    BY <1>3, <2>1, <2>2
<1>6. ASSUME lines[i].plain, i > 1
      PROVE  Timestamp(lines, i) = Timestamp(lines, i - 1)
  <2>1. before(i) = before(i - 1)
    BY <1>6
  <2> QED
    BY <2>1 DEF Timestamp
<1>7. ASSUME lines[i].plain, i = 1
      PROVE  Timestamp(lines, i) = 0
  <2>1. before(i) = {}
    BY <1>7
  <2> QED
    BY <1>3, <2>1
<1> QED
  BY <1>4, <1>5, <1>6, <1>7

\* The order of the records is total.
LEMMA PrecedesTotal ==
  ASSUME NEW n \in Nat, NEW lines \in File(n)
  PROVE  /\ \A i \in 1 .. n : ~Precedes(lines, i, i)
         /\ \A i, j \in 1 .. n : i # j => Precedes(lines, i, j) \/ Precedes(lines, j, i)
         /\ \A i, j, k \in 1 .. n :
              Precedes(lines, i, j) /\ Precedes(lines, j, k) => Precedes(lines, i, k)
<1>1. \A i \in 1 .. n : Timestamp(lines, i) \in Nat
  BY Timestamps
<1> QED
  BY <1>1 DEF Precedes

\* Every line is one record, and records are in order: a line precedes
\* another exactly when its record comes earlier.
LEMMA LoadTraceSorts ==
  ASSUME NEW n \in Nat, NEW lines \in File(n)
  PROVE  /\ LoadTrace(lines) \in [1 .. n -> 1 .. n]
         /\ \A i \in 1 .. n : \E k \in 1 .. n : LoadTrace(lines)[k] = i
         /\ \A k, m \in 1 .. n :
              k < m <=> Precedes(lines, LoadTrace(lines)[k], LoadTrace(lines)[m])
<1> DEFINE Earlier(i) == {j \in DOMAIN lines : Precedes(lines, j, i)}
           place == [i \in 1 .. n |-> Cardinality(Earlier(i)) + 1]
           order == LoadTrace(lines)
<1>a. DOMAIN lines = 1 .. n
  BY DEF File
<1>b. order = [m \in DOMAIN lines |->
                   CHOOSE i \in DOMAIN lines : Cardinality(Earlier(i)) = m - 1]
  BY DEF LoadTrace
<1>1. \A i \in 1 .. n : IsFiniteSet(Earlier(i)) /\ Cardinality(Earlier(i)) \in Nat
  <2>1. IsFiniteSet(1 .. n)
    BY FS_Interval
  <2>2. \A i \in 1 .. n : Earlier(i) \in SUBSET (1 .. n)
    BY <1>a
  <2>3. \A i \in 1 .. n : IsFiniteSet(Earlier(i))
    <3> HIDE DEF Earlier
    <3> QED
      BY <2>1, <2>2, FS_Subset
  <2> HIDE DEF Earlier
  <2> QED
    BY <2>3, FS_CardinalityType
<1>2. ASSUME NEW i \in 1 .. n PROVE place[i] \in 1 .. n
  <2>1. /\ IsFiniteSet(1 .. n) /\ Cardinality(1 .. n) = n
    BY FS_Interval
  <2>2. IsFiniteSet((1 .. n) \ {i}) /\ Cardinality((1 .. n) \ {i}) = n - 1
    BY <2>1, FS_RemoveElement
  <2>3. Earlier(i) \subseteq (1 .. n) \ {i}
    BY <1>a, PrecedesTotal
  <2>4. Cardinality(Earlier(i)) <= n - 1
    BY <2>2, <2>3, FS_Subset
  <2> QED
    BY <1>1, <2>4
<1>3. ASSUME NEW i \in 1 .. n, NEW j \in 1 .. n, Precedes(lines, i, j)
      PROVE  place[i] < place[j]
  <2>1. Earlier(i) \subseteq Earlier(j) /\ i \in Earlier(j) /\ i \notin Earlier(i)
    BY <1>a, <1>3, PrecedesTotal
  <2>2. Cardinality(Earlier(i)) <= Cardinality(Earlier(j))
        /\ Cardinality(Earlier(i)) # Cardinality(Earlier(j))
    BY <1>1, <2>1, FS_Subset
  <2>3. Cardinality(Earlier(i)) \in Nat /\ Cardinality(Earlier(j)) \in Nat
    BY <1>1
  <2> HIDE DEF Earlier
  <2> QED
    BY <2>2, <2>3
<1>4. \A i, j \in 1 .. n : place[i] < place[j] <=> Precedes(lines, i, j)
  <2>1. \A i \in 1 .. n : place[i] \in Nat
    BY <1>2
  <2> HIDE DEF place
  <2> QED
    BY <1>3, <2>1, PrecedesTotal
<1>5. place \in Injection(1 .. n, 1 .. n)
  <2>1. place \in [1 .. n -> 1 .. n]
    BY <1>2
  <2>2. \A i, j \in 1 .. n : place[i] = place[j] => i = j
    <3>1. \A i \in 1 .. n : place[i] \in Nat
      BY <1>2
    <3> HIDE DEF place
    <3> QED
      BY <1>3, <3>1, PrecedesTotal
  <2> QED
    BY <2>1, <2>2 DEF Injection, IsInjective
<1>6. place \in Surjection(1 .. n, 1 .. n)
  BY <1>5, FS_Interval, FS_Injection
<1>7. ASSUME NEW k \in 1 .. n PROVE order[k] \in 1 .. n /\ place[order[k]] = k
  <2>1. \E i \in 1 .. n : place[i] = k
    BY <1>6 DEF Surjection
  <2>2. \E i \in 1 .. n : Cardinality(Earlier(i)) = k - 1
    <3>1. PICK i \in 1 .. n : place[i] = k
      BY <2>1
    <3>2. Cardinality(Earlier(i)) \in Nat /\ k = Cardinality(Earlier(i)) + 1
      BY <1>1, <3>1
    <3> HIDE DEF Earlier, place
    <3> QED
      BY <3>2
  <2>3. order[k] = CHOOSE i \in 1 .. n : Cardinality(Earlier(i)) = k - 1
    <3> HIDE DEF order, Earlier
    <3> QED
      BY <1>a, <1>b
  <2>4. order[k] \in 1 .. n /\ Cardinality(Earlier(order[k])) = k - 1
    <3> HIDE DEF Earlier, order
    <3> QED
      BY <2>2, <2>3
  <2> QED
    BY <2>4
<1>8. order \in [1 .. n -> 1 .. n]
  <2>1. order = [k \in 1 .. n |-> order[k]]
    <3> HIDE DEF order, Earlier
    <3> QED
      BY <1>a, <1>b
  <2> HIDE DEF order
  <2> QED
    BY <1>7, <2>1
<1>9. ASSUME NEW i \in 1 .. n PROVE \E k \in 1 .. n : order[k] = i
  <2>1. place[i] \in 1 .. n /\ order[place[i]] \in 1 .. n /\ place[order[place[i]]] = place[i]
    BY <1>2, <1>7
  <2>2. \A a, b \in 1 .. n : place[a] = place[b] => a = b
    BY <1>5 DEF Injection, IsInjective
  <2> HIDE DEF order, place
  <2> QED
    BY <2>1, <2>2
<1>10. \A k, m \in 1 .. n : k < m <=> Precedes(lines, order[k], order[m])
  <2> HIDE DEF order, place
  <2> QED
    BY <1>4, <1>7
<1> QED
  BY <1>8, <1>9, <1>10

\* However timestamps go up and down in a trace file of any length, no plain
\* transfer is torn off the line it follows, and agent actions of the same
\* timestamp keep their order.
THEOREM TraceOrderKept == Spec => []TraceOrder
<1>1. ASSUME NEW n \in Nat, NEW lines \in File(n), NEW i \in 1 .. n,
             lines[LoadTrace(lines)[i]].plain
      PROVE  IF i = 1 THEN LoadTrace(lines)[i] = 1
                      ELSE LoadTrace(lines)[i - 1] = LoadTrace(lines)[i] - 1
  <2> DEFINE order == LoadTrace(lines)
             p == order[i]
  <2>1. /\ \A k \in 1 .. n : order[k] \in 1 .. n
        /\ \A k \in 1 .. n : \E m \in 1 .. n : order[m] = k
        /\ \A k, m \in 1 .. n : k < m <=> Precedes(lines, order[k], order[m])
    BY LoadTraceSorts
  <2>2. \A k \in 1 .. n : Timestamp(lines, k) \in Nat
    BY Timestamps
  <2>3. p \in 1 .. n /\ lines[p].plain
    BY <1>1, <2>1
  <2> HIDE DEF order
  <2>4. CASE p = 1
    <3>1. Timestamp(lines, p) = 0
      BY <2>3, <2>4, Timestamps
    <3>2. \A k \in 1 .. n : ~Precedes(lines, k, p)
      BY <2>2, <2>3, <2>4, <3>1 DEF Precedes
    <3>3. i = 1
      <4>1. 1 \in 1 .. n
        BY <2>3
      <4>2. ~(1 < i)
        BY <2>1, <3>2, <4>1
      <4> QED
        BY <4>2
    <3> QED
      BY <2>4, <3>3 DEF order
  <2>5. CASE p # 1
    <3>1. p - 1 \in 1 .. n /\ Timestamp(lines, p - 1) = Timestamp(lines, p)
      BY <2>3, <2>5, Timestamps
    <3>2. Precedes(lines, p - 1, p)
      BY <2>2, <3>1, <2>3 DEF Precedes
    <3>3. PICK m \in 1 .. n : order[m] = p - 1
      BY <2>1, <3>1
    <3>4. m < i
      BY <2>1, <3>2, <3>3
    <3>5. i # 1 /\ i - 1 \in 1 .. n
      BY <3>4
    <3>6. order[i - 1] = p - 1
      <4>1. SUFFICES ASSUME m # i - 1 PROVE FALSE
        BY <3>3
      <4>2. m < i - 1 /\ i - 1 < i
        BY <3>4, <4>1
      <4> DEFINE q == order[i - 1]
      <4>3. q \in 1 .. n /\ Precedes(lines, p - 1, q) /\ Precedes(lines, q, p)
        BY <2>1, <3>3, <3>5, <4>2
      <4> QED
        BY <2>2, <2>3, <3>1, <4>3 DEF Precedes
    <3> QED
      BY <3>5, <3>6 DEF order
  <2> QED
    BY <2>4, <2>5
<1>2. ASSUME NEW n \in Nat, NEW lines \in File(n), NEW i \in 1 .. n, NEW j \in 1 .. (i - 1),
             ~lines[LoadTrace(lines)[i]].plain, ~lines[LoadTrace(lines)[j]].plain
      PROVE  LET order == LoadTrace(lines)
             IN  \/ lines[order[j]].ts < lines[order[i]].ts
                 \/ lines[order[j]].ts = lines[order[i]].ts /\ order[j] < order[i]
  <2> DEFINE order == LoadTrace(lines)
  <2>1. j \in 1 .. n /\ order[i] \in 1 .. n /\ order[j] \in 1 .. n
        /\ Precedes(lines, order[j], order[i])
    <3>1. /\ \A k \in 1 .. n : order[k] \in 1 .. n
          /\ \A k, m \in 1 .. n : k < m <=> Precedes(lines, order[k], order[m])
      BY LoadTraceSorts
    <3>2. j \in 1 .. n /\ j < i
      OBVIOUS
    <3> HIDE DEF order
    <3> QED
      BY <3>1, <3>2
  <2>2. Timestamp(lines, order[i]) = lines[order[i]].ts
        /\ Timestamp(lines, order[j]) = lines[order[j]].ts
    BY <1>2, <2>1, Timestamps
  <2> QED
    BY <2>1, <2>2 DEF Precedes
<1>3. TraceOrder
  <2>1. \A n \in 0 .. MaxFileLines : n \in Nat /\ [1 .. n -> Line] = File(n)
    BY RoundAssumption DEF File
  <2> QED
    BY <1>1, <1>2, <2>1 DEF TraceOrder
<1> QED
  BY <1>3, PTL
=============================================================================

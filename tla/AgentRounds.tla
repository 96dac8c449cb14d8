------------------------------ MODULE AgentRounds ------------------------------
(***************************************************************************)
(* The agent side of an experiment (agentsupervisor): a trace of agent     *)
(* actions is compiled into a transaction plan, the plan is run on a       *)
(* freshly launched cluster, and a feedback hook may ask for another       *)
(* round.  The registry of agents lives in a file that all rounds, and all *)
(* later calls of agentemu on the same result directory, read and rewrite. *)
(*                                                                         *)
(* A call may end at any point: by an error, by Ctrl-C, by a crash.  What  *)
(* the files contain then is what the next call finds.  Of the cluster    *)
(* only what the files of a round depend on is here: which of its leaders  *)
(* and the supervisor get past the creation of their files, and which      *)
(* transactions of the plan they then commit, perhaps not all of them      *)
(* (ProcessGroup models how the processes end, PBFT, RelayShards and       *)
(* BrokerShards what they do).  Cross-shard transfers are relayed.         *)
(***************************************************************************)
EXTENDS Integers, Sequences, FiniteSets, SequencesExt

CONSTANTS
    Agent,
    Seed,           \* experiment.seed of the calls
    ChainEnabled,   \* chain.enabled of the calls
    TS,             \* timestamps of trace lines
    Contract,       \* protocols.identity.contract_address
    RawSpec,        \* <<sender, recipient>> of plain transfer lines
    Shard,          \* the leader of a shard bears its name
    Supervisor,
    MaxRounds,      \* loop.max_rounds
    MaxFileLines,   \* bound: lines of a trace file (TraceOrder)
    MaxRecords,     \* bound: records of all rounds together
    MaxStarts       \* bound: rounds started, in all calls together

\* allocatedDID hashes seed and agent; didAddress takes the address out of it.
AllocatedDID(seed, a) == <<seed, a>>
DID   == {AllocatedDID(seed, a) : seed \in Seed, a \in Agent}
NoDID == <<>>

ASSUME RoundAssumption ==
    /\ TS \subseteq Nat
    /\ MaxRounds \in Nat \ {0} /\ MaxFileLines \in Nat /\ MaxRecords \in Nat /\ MaxStarts \in Nat
    /\ NoDID \notin DID
    /\ Contract \notin DID
    /\ Supervisor \notin Shard
    /\ ChainEnabled \subseteq BOOLEAN

Round == 1 .. MaxRounds

\* An agent of the registry; one that never joined has no DID.
Entry    == [did : DID \cup {NoDID}, active : BOOLEAN]
Registry == [Agent -> Entry]
Empty    == [a \in Agent |-> [did |-> NoDID, active |-> FALSE]]

\* A transaction; its hash covers all the fields.  op is the contract call in
\* its data.
Addr == DID \cup {Contract} \cup {spec[i] : spec \in RawSpec, i \in {1, 2}}
Tx   == [sender : Addr, recipient : Addr, value : {0, 1}, nonce : Nat,
         op : {"none", "register", "revoke"}]

\* The processes of a cluster whose files matter here.
Process == Shard \cup {Supervisor}

\* A transaction of a block, with its RelayStage ("whole": no relay).
Leg == [tx : Tx, stage : {"whole", "relay1", "relay2"}]

VARIABLES
    \* the result directory
    registryFile,   \* agent_registry.json
    linksFile,      \* agent_action_txs.jsonl of each round
    planFile,       \* agent_transactions.jsonl of each round
    created,        \* created[r]: processes whose CSV (block record of a leader,
                    \* measurements of the supervisor) is in the directory of r
    opened,         \* opened[r]: shards with a block store
    store,          \* store[r][s]: transactions from its newest block to the genesis
    csv,            \* rows of the agents' CSVs of each round
    summary,        \* rounds in rounds_summary.json
    \* a call of agentemu
    pc,
    starts,         \* rounds started so far
    read,           \* records read so far
    seed,
    chain,          \* chain.enabled of this call
    round,
    proc,           \* proc[p]: not started yet, up, or down
    \* AgentSupervisor of the round
    registry,
    nonces,
    txs,
    links,
    \* the registry as the round found it
    base

chainFiles == <<created, opened, store>>
fileVars == <<registryFile, linksFile, planFile, chainFiles, csv, summary>>
callVars == <<starts, read, seed, chain>>
hostVars == <<registry, nonces, txs, links, base>>
vars     == <<fileVars, callVars, hostVars, pc, round, proc>>

TypeOK ==
    /\ registryFile \in [state : {"absent", "torn", "written"}, agents : Registry]
    /\ linksFile \in [Round -> Seq([agent : Agent \cup {NoDID}, txs : SUBSET Tx])]
    /\ planFile  \in [Round -> Seq(Tx)]
    /\ created \in [Round -> SUBSET Process]
    /\ opened  \in [Round -> SUBSET Shard]
    /\ store   \in [Round -> [Shard -> SUBSET Leg]]
    /\ csv       \in [Round -> SUBSET (Agent \X Tx)]
    /\ summary   \in 0 .. MaxRounds
    /\ pc \in {"idle", "load", "process", "registry", "links", "plan",
               "chain", "running", "end", "done"}
    /\ starts \in 0 .. MaxStarts
    /\ read \in 0 .. MaxRecords
    /\ seed  \in Seed
    /\ chain \in BOOLEAN
    /\ round \in Round
    /\ proc  \in [Process -> {"off", "up", "down"}]
    /\ registry \in Registry
    /\ nonces   \in [Addr -> Nat]
    /\ txs      \in Seq(Tx)
    /\ links    \in Seq([agent : Agent \cup {NoDID}, txs : SUBSET Tx])
    /\ base     \in Registry

Absent == [state |-> "absent", agents |-> Empty]

NoFiles  == [r \in Round |-> {}]
NoBlocks == [s \in Shard |-> {}]
AllOff   == [p \in Process |-> "off"]

Init ==
    /\ registryFile = Absent
    /\ linksFile = [r \in Round |-> <<>>]
    /\ planFile  = [r \in Round |-> <<>>]
    /\ created = NoFiles
    /\ opened  = NoFiles
    /\ store   = [r \in Round |-> NoBlocks]
    /\ csv       = NoFiles
    /\ summary   = 0
    /\ pc = "idle"
    /\ starts = 0
    /\ read = 0
    /\ seed \in Seed
    /\ chain = FALSE
    /\ round = 1
    /\ proc = AllOff
    /\ registry = Empty
    /\ nonces = [x \in Addr |-> 0]
    /\ txs = <<>>
    /\ links = <<>>
    /\ base = Empty

-----------------------------------------------------------------------------
(***************************************************************************)
(* The start of a call and of a round                                      *)
(***************************************************************************)

\* What a line of a trace file says of the order: its timestamp, and whether
\* it is a plain transfer, which carries none.
Line == [ts : TS, plain : BOOLEAN]

\* Mutant of Timestamp: a plain transfer does not inherit a timestamp.
TimestampZero(lines, i) == IF lines[i].plain THEN 0 ELSE lines[i].ts

\* A plain transfer has the timestamp of the agent action before it.
Timestamp(lines, i) ==
    LET before == {j \in 1 .. i : ~lines[j].plain}
    IN  IF before = {} THEN 0 ELSE lines[Max(before)].ts

\* The order of the records: by timestamp, a stable sort.
Precedes(lines, i, j) ==
    LET ti == Timestamp(lines, i)
        tj == Timestamp(lines, j)
    IN  ti < tj \/ (ti = tj /\ i < j)

\* LoadTrace: the positions of the lines in the order of the records.  The n-th
\* record is the line that n - 1 others precede.
LoadTrace(lines) ==
    [n \in DOMAIN lines |->
        CHOOSE i \in DOMAIN lines :
            Cardinality({j \in DOMAIN lines : Precedes(lines, j, i)}) = n - 1]

\* main of agentemu: configuration and trace are loaded, then Run begins.  The
\* trace may be any; its records are chosen as they are processed.
Call ==
    /\ pc \in {"idle", "done"}
    /\ starts < MaxStarts
    /\ starts' = starts + 1
    /\ seed' \in Seed
    /\ chain' \in ChainEnabled
    /\ round' = 1
    /\ pc' = "load"
    /\ UNCHANGED <<fileVars, read, hostVars, proc>>

\* run_agentemu.sh removes the previous results before its call.
RemoveResults ==
    /\ pc \in {"idle", "done"}
    /\ registryFile' = Absent
    /\ linksFile' = [r \in Round |-> <<>>]
    /\ planFile'  = [r \in Round |-> <<>>]
    /\ created' = NoFiles
    /\ opened'  = NoFiles
    /\ store'   = [r \in Round |-> NoBlocks]
    /\ csv'       = NoFiles
    /\ summary'   = 0
    /\ pc' = "idle"
    /\ UNCHANGED <<callVars, hostVars, round, proc>>

\* Mutant of Decodable: what cannot be decoded counts as no registry.
DecodableAlways == TRUE

\* The bytes of an interrupted write are no JSON array.
Decodable == registryFile.state # "torn"

\* NewAgentSupervisor with LoadRegistry.  A file that does not exist is an
\* empty registry.
NewAgentSupervisor ==
    /\ pc = "load"
    /\ Decodable
    /\ registry' = registryFile.agents
    /\ base' = registryFile.agents
    /\ nonces' = [x \in Addr |-> 0]
    /\ txs' = <<>>
    /\ links' = <<>>
    /\ pc' = "process"
    /\ UNCHANGED <<fileVars, callVars, round, proc>>

-----------------------------------------------------------------------------
(***************************************************************************)
(* Process: one record after the other                                     *)
(***************************************************************************)

\* Mutant of NextNonce: the counter is decremented instead.
NextNonceDown(from, op) == 0 - nonces[from]

\* Mutant of NextNonce: plain transfers have nonces of their own.
NextNonceOfKind(from, op) ==
    Cardinality({i \in DOMAIN txs : txs[i].sender = from /\ (txs[i].op = "none") = (op = "none")})

NextNonce(from, op) == nonces[from]

\* appendTx and linkLastTxTo: the transaction and its action's entry.
AppendTx(agent, from, to, value, op) ==
    LET tx == [sender |-> from, recipient |-> to, value |-> value,
               nonce |-> NextNonce(from, op), op |-> op]
    IN  /\ txs' = Append(txs, tx)
        /\ nonces' = [nonces EXCEPT ![from] = @ + 1]
        /\ links' = Append(links, [agent |-> agent, txs |-> {tx}])

\* The trace has another record.
TakeRecord ==
    /\ pc = "process"
    /\ read < MaxRecords
    /\ read' = read + 1
    /\ UNCHANGED <<fileVars, starts, seed, chain, pc, round, proc, base>>

\* Mutant of Changed: every join registers.
ChangedAlways(a) == TRUE

\* Whether a join changes anything.
Changed(a) == ~registry[a].active

\* processJoin with Registry.Join: only an agent without an entry gets a DID,
\* and an active one needs no transaction.
ProcessJoin(a) ==
    /\ TakeRecord
    /\ LET did == IF registry[a].did = NoDID THEN AllocatedDID(seed, a) ELSE registry[a].did
       IN  /\ registry' = [registry EXCEPT ![a] = [did |-> did, active |-> TRUE]]
           /\ IF Changed(a)
              THEN AppendTx(a, did, Contract, 0, "register")
              ELSE /\ links' = Append(links, [agent |-> a, txs |-> {}])
                   /\ UNCHANGED <<txs, nonces>>

ProcessLeave(a) ==
    /\ TakeRecord
    /\ registry[a].active
    /\ registry' = [registry EXCEPT ![a].active = FALSE]
    /\ AppendTx(a, registry[a].did, Contract, 0, "revoke")

\* Registry.Active of both parties.
ProcessPay(a, b) ==
    /\ TakeRecord
    /\ registry[a].active
    /\ registry[b].active
    /\ AppendTx(a, registry[a].did, registry[b].did, 1, "none")
    /\ UNCHANGED registry

\* A plain transfer, which is no agent's action.
ProcessRawTx(spec) ==
    /\ TakeRecord
    /\ AppendTx(NoDID, spec[1], spec[2], 1, "none")
    /\ UNCHANGED registry

-----------------------------------------------------------------------------
(***************************************************************************)
(* WriteResult, the chain run, and the end of a round                      *)
(***************************************************************************)

\* The trace is compiled (a trace of the hook has a record).  os.WriteFile
\* truncates the registry ...
TruncateRegistry ==
    /\ pc = "process"
    /\ round > 1 => links # <<>>
    /\ registryFile' = [registryFile EXCEPT !.state = "torn", !.agents = Empty]
    /\ pc' = "registry"
    /\ UNCHANGED <<linksFile, planFile, chainFiles, csv, summary, callVars, hostVars,
                   round, proc>>

\* ... and writes it.
WriteRegistry ==
    /\ pc = "registry"
    /\ registryFile' = [state |-> "written", agents |-> registry]
    /\ pc' = "links"
    /\ UNCHANGED <<linksFile, planFile, chainFiles, csv, summary, callVars, hostVars,
                   round, proc>>

WriteActionTxMap ==
    /\ pc = "links"
    /\ linksFile' = [linksFile EXCEPT ![round] = links]
    /\ pc' = "plan"
    /\ UNCHANGED <<registryFile, planFile, chainFiles, csv, summary, callVars, hostVars,
                   round, proc>>

WritePlan ==
    /\ pc = "plan"
    /\ planFile' = [planFile EXCEPT ![round] = txs]
    /\ pc' = IF chain THEN "chain" ELSE "end"
    /\ UNCHANGED <<registryFile, linksFile, chainFiles, csv, summary, callVars, hostVars,
                   round, proc>>

\* Run launches the cluster.
ChainStarts ==
    /\ pc = "chain"
    /\ pc' = "running"
    /\ UNCHANGED <<fileVars, callVars, hostVars, round, proc>>

\* Mutant of Creatable: the supervisor overwrites the measurements.
CreatableBySupervisor(p) == p = Supervisor \/ p \notin created[round]

\* createFileWithDirs: a file that exists is not overwritten.
Creatable(p) == p \notin created[round]

\* NewPBFTNode of a leader begins a new chain in the block store, then creates
\* the CSV of block records.  If it is there already, the node ends, and Run
\* does not mind; it may also fail before or in between.
NodeStarts(s) ==
    /\ pc = "running"
    /\ proc[s] = "off"
    /\ opened' = [opened EXCEPT ![round] = @ \cup {s}]
    /\ store' = [store EXCEPT ![round][s] = {}]
    /\ \/ /\ Creatable(s)
          /\ created' = [created EXCEPT ![round] = @ \cup {s}]
          /\ proc' = [proc EXCEPT ![s] = "up"]
       \/ /\ proc' = [proc EXCEPT ![s] = "down"]
          /\ UNCHANGED created
    /\ UNCHANGED <<registryFile, linksFile, planFile, csv, summary, callVars, hostVars,
                   pc, round>>

\* The supervisor creates its CSVs before it reads the plan.
SupervisorStarts ==
    /\ pc = "running"
    /\ proc[Supervisor] = "off"
    /\ Creatable(Supervisor)
    /\ created' = [created EXCEPT ![round] = @ \cup {Supervisor}]
    /\ proc' = [proc EXCEPT ![Supervisor] = "up"]
    /\ UNCHANGED <<registryFile, linksFile, planFile, opened, store, csv, summary, callVars,
                   hostVars, pc, round>>

\* What the leaders have committed of transaction tx.
StagesOf(tx) == {leg.stage : leg \in {l \in UNION {store[round][s] : s \in Shard} : l.tx = tx}}

\* A leader commits a transaction that the supervisor has injected, or what
\* another leader has relayed of it.
Commit(s, tx) ==
    /\ pc = "running"
    /\ proc[Supervisor] = "up"
    /\ proc[s] = "up"
    /\ \E stage \in {"whole", "relay1", "relay2"} :
         /\ IF stage = "relay2" THEN StagesOf(tx) = {"relay1"} ELSE StagesOf(tx) = {}
         /\ store' = [store EXCEPT ![round][s] = @ \cup {[tx |-> tx, stage |-> stage]}]
    /\ UNCHANGED <<registryFile, linksFile, planFile, created, opened, csv, summary, callVars,
                   hostVars, pc, round, proc>>

\* A transaction of a block makes rows for the party whose side the block
\* executes, if the registry has it at all.
HasSide(a, leg) ==
    /\ registry[a].did # NoDID
    /\ \/ leg.stage # "relay2" /\ registry[a].did = leg.tx.sender
       \/ leg.stage # "relay1" /\ registry[a].did = leg.tx.recipient

RowsOf(a) ==
    {<<a, leg.tx>> : leg \in {l \in UNION {store[round][s] : s \in Shard} : HasSide(a, l)}}

\* The supervisor has stopped without an error, as the block infos of some
\* leader tell it to, be there transactions left or not; the other processes
\* are ended, and Chain.Run returns an outcome.  WriteAgentCSVs then needs the
\* block store of every shard, and writes a new file for every agent with a
\* row; other files of the directory stay.
WriteAgentCSVs ==
    /\ pc = "running"
    /\ proc[Supervisor] = "up"
    /\ \E s \in Shard : proc[s] = "up"
    /\ Shard \subseteq opened[round]
    /\ csv' = [csv EXCEPT ![round] =
          {row \in @ : RowsOf(row[1]) = {}} \cup UNION {RowsOf(a) : a \in Agent}]
    /\ proc' = AllOff
    /\ pc' = "end"
    /\ UNCHANGED <<registryFile, linksFile, planFile, chainFiles, summary, callVars, hostVars,
                   round>>

\* The memory of agentemu goes with it, and so do the processes it started.
Exit ==
    /\ round' = 1
    /\ proc' = AllOff
    /\ registry' = Empty
    /\ nonces' = [x \in Addr |-> 0]
    /\ txs' = <<>>
    /\ links' = <<>>
    /\ base' = Empty

\* The end condition holds or the hook has no further trace.
Finish ==
    /\ pc = "end"
    /\ summary' = round
    /\ pc' = "done"
    /\ Exit
    /\ UNCHANGED <<registryFile, linksFile, planFile, chainFiles, csv, callVars>>

\* FixedRounds allows another round and the hook returns its trace.
NextTrace ==
    /\ pc = "end"
    /\ round < MaxRounds
    /\ starts < MaxStarts
    /\ starts' = starts + 1
    /\ round' = round + 1
    /\ pc' = "load"
    /\ UNCHANGED <<fileVars, read, seed, chain, hostVars, proc>>

\* An error anywhere (an action of an agent that is not active, a malformed
\* record, a registry that cannot be decoded, a supervisor or a block store that fails,
\* a chain run that takes too long), Ctrl-C or a crash.  Run returns without a summary.
Abort ==
    /\ pc \notin {"idle", "done"}
    /\ pc' = "idle"
    /\ Exit
    /\ chain' = FALSE
    /\ UNCHANGED <<fileVars, starts, read, seed>>

Next ==
    \/ Call
    \/ RemoveResults
    \/ NewAgentSupervisor
    \/ \E a \in Agent : ProcessJoin(a) \/ ProcessLeave(a)
    \/ \E a, b \in Agent : ProcessPay(a, b)
    \/ \E spec \in RawSpec : ProcessRawTx(spec)
    \/ TruncateRegistry
    \/ WriteRegistry
    \/ WriteActionTxMap
    \/ WritePlan
    \/ ChainStarts
    \/ \E s \in Shard : NodeStarts(s)
    \/ SupervisorStarts
    \/ \E s \in Shard : \E tx \in Range(planFile[round]) : Commit(s, tx)
    \/ WriteAgentCSVs
    \/ Finish
    \/ NextTrace
    \/ Abort

Spec == Init /\ [][Next]_vars

-----------------------------------------------------------------------------
(***************************************************************************)
(* Properties                                                              *)
(***************************************************************************)

\* The address agent a acts under in an entry of the action map.
ActsAs(link) == {tx.sender : tx \in link.txs}

\* "agent DIDs stay stable from round to round", whatever seeds the calls
\* use and wherever they break off: all action maps in the directory and the
\* registry that the next round will load name the same address for an agent.
DIDsStable ==
    \A r \in Round : \A i \in DOMAIN linksFile[r] :
        LET link == linksFile[r][i]
        IN  link.agent # NoDID =>
              /\ \A q \in Round : \A j \in DOMAIN linksFile[q] :
                    linksFile[q][j].agent = link.agent /\ link.txs # {} /\ linksFile[q][j].txs # {}
                        => ActsAs(linksFile[q][j]) = ActsAs(link)
              /\ registryFile.state = "written" /\ link.txs # {}
                    => ActsAs(link) = {registryFile.agents[link.agent].did}

\* Whether the identity with address d is active after the first n
\* transactions of a plan that started from registry reg.
ActiveAfter(reg, plan, n, d) ==
    LET ops == {i \in 1 .. n : plan[i].sender = d /\ plan[i].op # "none"}
    IN  IF ops = {} THEN \E a \in Agent : reg[a].did = d /\ reg[a].active
                    ELSE plan[Max(ops)].op = "register"

\* The plan itself, read as a sequence of contract calls on the identities the
\* round started with, obeys the life cycle: an identity is registered only
\* when it is not active and revoked only when it is, the payer and the payee
\* of an agent's payment are active at that point, and what the calls add up
\* to is what the registry says.
PlanFollowsLifecycle ==
    /\ \A i \in DOMAIN txs :
         LET On(d) == ActiveAfter(base, txs, i - 1, d)
         IN  /\ txs[i].op = "register" => ~On(txs[i].sender)
             /\ txs[i].op = "revoke" => On(txs[i].sender)
             /\ (\E j \in DOMAIN links : links[j].agent # NoDID /\ txs[i] \in links[j].txs)
                    /\ txs[i].op = "none"
                  => On(txs[i].sender) /\ On(txs[i].recipient)
    /\ \A a \in Agent :
         registry[a].did # NoDID =>
             registry[a].active = ActiveAfter(base, txs, Len(txs), registry[a].did)

\* Agent actions and plain transfers draw from one counter per sender, so no
\* two transactions of a plan have the same hash, and every transaction of a
\* sender has the nonce the chain expects after the ones before it.
NoncesInOrder ==
    \A i \in DOMAIN txs :
        txs[i].nonce = Cardinality({j \in 1 .. (i - 1) : txs[j].sender = txs[i].sender})

\* A plain transfer stays right behind the line it follows in the file, and
\* agent actions of equal timestamps keep their order, however the sort moves
\* them (stated of all files with up to MaxFileLines lines).
TraceOrder ==
    starts = 0 =>
        \A n \in 0 .. MaxFileLines : \A lines \in [1 .. n -> Line] :
            LET order == LoadTrace(lines)
            IN  \A i \in 1 .. n :
                  /\ lines[order[i]].plain =>
                        IF i = 1 THEN order[i] = 1 ELSE order[i - 1] = order[i] - 1
                  /\ \A j \in 1 .. (i - 1) :
                        ~lines[order[i]].plain /\ ~lines[order[j]].plain =>
                            \/ lines[order[j]].ts < lines[order[i]].ts
                            \/ lines[order[j]].ts = lines[order[i]].ts /\ order[j] < order[i]

\* Whether the sender's side of tx, or any side of it, is in a block of round r.
SenderSide(r, tx) == \E s \in Shard : \E leg \in store[r][s] : leg.tx = tx /\ leg.stage # "relay2"
AnySide(r, tx)    == \E s \in Shard : \E leg \in store[r][s] : leg.tx = tx

\* When a call succeeds, the files of each of its rounds belong together,
\* whatever part of the cluster was up and whatever earlier calls left in the
\* directory: action map and plan hold the same transactions, each of them
\* once; of an agent's action the CSV of that agent has all that was
\* committed; and no CSV has a row that is not from a block of this call, for
\* a transaction of its plan and a party of it.
SuccessIsConsistent ==
    pc = "done" /\ chain =>
        \A r \in 1 .. summary :
            /\ \A tx \in Range(planFile[r]) :
                 Cardinality({i \in DOMAIN linksFile[r] : tx \in linksFile[r][i].txs}) = 1
            /\ \A i \in DOMAIN linksFile[r] : \A tx \in linksFile[r][i].txs :
                 /\ tx \in Range(planFile[r])
                 /\ linksFile[r][i].agent # NoDID /\ SenderSide(r, tx)
                      => <<linksFile[r][i].agent, tx>> \in csv[r]
            /\ \A row \in csv[r] :
                 /\ row[2] \in Range(planFile[r]) /\ AnySide(r, row[2])
                 /\ registryFile.agents[row[1]].did \in {row[2].sender, row[2].recipient}
=============================================================================

# Verification of AgentEmulator

TLA+ models of AgentEmulator, the TLC configurations that check them on small
instances, and proofs that TLAPS checks for every instance. Line numbers refer
to the files of the repository; `PROJECT.json` maps every definition to the
lines it stands for and lists components, runs, mutants, findings, hazards and
theorems.

## 1. Inventory of the system

AgentEmulator runs a sharded blockchain on one or more machines. `agentemu`
compiles a trace of agent actions into a transaction plan, starts one process
per consensus node and one supervisor, waits, and reads the committed blocks
back into one ledger per agent.

| Component | Source | State | Operations |
|---|---|---|---|
| PBFT node | `consensus/pbft/node.go`, `pbftmeta.go`, `basicstructs/` | sequence number, stage, votes, proposal of the round, message pool, catch-up flag | one tick: drain and handle messages, curate the pool, step through the stages, deliver, then propose or catch up |
| Chain and storage | `pkg/chain`, `pkg/storage` | current header, block store, account and location state | generate, validate and add a block, fetch blocks after a height |
| Block operations | `consensus/pbft/insideop` | none of their own | pack, reroute, build, deliver and report transaction and migration blocks |
| Account migration | `consensus/pbft/migration`, `migrationblockop`, `outsideop/clpaloc.go` | epoch, modified map, collected states, early messages | start an epoch, collect states, migrate accounts and pooled transactions |
| Transaction pool | `pkg/core/txpool/queue` | a FIFO queue | add, pack by number or by bytes |
| Relay committees | `supervisor/committee/{static,clpa}relay.go`, `partitionrunner.go` | transactions left, stop counter, epochs of the shards, location map | inject, handle block infos, repartition, stop |
| Broker committees | `supervisor/committee/{static,clpa}broker.go`, `pkg/broker`, `brokertxblockop.go` | balances and pending deductions per broker and shard, stage per transaction | split a transfer in two, confirm each half, fall back to relay |
| Supervisor loop | `supervisor/supervisor.go` | measure channel | tick, measure goroutine, stop broadcast |
| Measures | `supervisor/measure` | half-recorded transfers, sums per epoch | pair the two halves of a transfer |
| Partition | `pkg/partition` | graph, location of each vertex, weights | CLPA label propagation |
| Network | `pkg/network`, `pkg/message` | a buffer per node | send, broadcast, drain |
| Agent supervisor | `agentsupervisor/{agentsupervisor,registry,loop,trace}.go` | registry file, round, plan | join, leave, pay, run a round |
| Chain runner | `agentsupervisor/chainrunner.go` | child processes, their results, grace timer | start, wait, grace, kill |
| Agent ledgers | `agentsupervisor/agentcsv.go` | balance per agent | replay the blocks of all shards |

**Interaction.** Nodes, leaders and supervisor share nothing: they exchange
messages that the sender fires and forgets (`SendMsg2Dest` logs a failure) and
the receiver drains once per tick. A leader reports every transaction block to
the supervisor, sends relay transactions to other leaders, and, in a
repartition, account states. The processes are children of `agentemu`, which
sees only their exit.

**What is hard.** Lost and late messages between nodes that never retransmit;
catch-up replies that arrive after the replica has moved on; migration of an
account while its transactions sit in pools, in proposals and in messages, with
state reports that overtake the announcement of the epoch; transfers that are
cut into halves, sent back and cut again while their accounts move; a supervisor
of two goroutines with a bounded channel between them; files that several rounds
and calls share and any of which a crash may cut short; one stop counter for all
shards; process ends that race a grace timer, a timeout and Ctrl-C. Section
`hazards` of `PROJECT.json` lists each one at its line with the properties that
watch it.

**What makes each part correct.** One chain per shard without gaps, delivered by
all (PBFT, ShardLog); every transfer handled exactly once and every balance equal
to the ledger across migrations (relay and dynamic broker modes); a broker never
pays what it has not got, every pending deduction is resolved and no transfer
stays between its halves (broker modes); agreement on where accounts live and
epochs in step (migration); FIFO and bounded blocks (pool); no working
supervisor killed and no orphaned process (chain runner); each transfer recorded
once and the written result complete (supervisor, measures); agent balances equal
to the chain's (ledgers); addresses that stay stable and files that belong
together over rounds, calls and crashes (agent supervisor).

## 2. Modules

| Module | Models | Proofs |
|---|---|---|
| `ShardLog` | the abstract promise of a shard: a growing log of which every node holds a beginning | |
| `PBFT` | one shard: PBFT rounds, Catch-Up, block store, stop; implements `ShardLog` | `PBFTProofs` |
| `RelayShards` | all leaders and the supervisor in the relay modes, with account migration | `RelayProofs`, `TransferSums` |
| `BrokerShards` | leaders and supervisor in the static broker mode, with the relay fallback | `BrokerShardsProofs`, `TransferSums` |
| `BrokerEpochs` | the dynamic broker mode; extends `RelayShards` by the broker's half of transfers | `BrokerEpochsProofs`, `TransferSums` |
| `TxPool` | the pool and the loop that fills a block from it | `TxPoolProofs` |
| `ProcessGroup` | one chain run with its child processes | `SupervisorProofs` |
| `AgentRounds` | traces, registry, plans and ledgers over rounds and calls of `agentemu`, with crashes | `AgentRoundsProofs`, `TransferSums` |
| `Measure` | the two goroutines of the supervisor, the relay and broker statistics | `SupervisorProofs`, `TransferSums` |
| `AgentLedger` | the ledgers of the agents as a function of the blocks; extends `Measure` | `SupervisorProofs` |

`MC...` modules give the constants of the TLC instances. Operators whose comment
begins with "Mutant of" are plausible bugs of the definition that follows them;
they are used only to confirm that each property can fail.

### PBFT

State: the fields of `consensusMeta`, the three pools of `basicstructs/pool.go`,
header and block storage of each node, and the messages in flight. A node is one
goroutine that alternates between draining its buffer and the rest of a tick.
`HandleMessage` is `handleMessage` with one action per message type; `Tick` is
everything after the drain (`curateMessages`, `step2Next`, delivery, `propose`
or `catchUpStart`), so a tick is one action and a proposal decided before
delivery cannot be separated from it. `running` keeps the messages of other
nodes from being handled inside a tick of a node, as in the code, where a tick is
sequential and its sends become visible to others only as messages.

Abstractions: the view is constant (view change is declared and unused); a block
is its height, parent and hash; execution is deterministic and does not fail;
`Down` nodes never start, and a send to one fails. A lost message is `Lose`; a full buffer is one way to
lose one. Messages are a set: those of different senders arrive in any order, the
broadcasts of one sender in the order in which they were made (`SentBefore`). gRPC
keeps this order, libp2p does not (`connlibp2p/libp2pconn.go:299`); no proof
uses it, since the pools keep whatever comes early. A duplicate of a vote has no
effect because the code keeps votes in maps.

### ShardLog

`log` is the set of blocks of the shard, `copy[n]` what node n holds. `Append`
lets only a node that has the whole log add a block at its end; `Learn` moves a
node along the log, by any distance. `PBFT` maps `log` to the union of all block
storages and `copy` to the storages; `ImplementsShardLog` says that each of its
steps is one of these or changes no storage. This is the view `RelayShards` and
`BrokerShards` take of a shard.

### RelayShards

One action per operation of supervisor and leaders. A proposal commits in a
separate step (`BlockCommitAndDeliver`, `MigrationBlockCommit`), between which
messages keep arriving: this is what PBFT promises of a shard. `PackedTxs`
takes from the pool any set of transactions that fills a block or empties the
pool, which is what `TxPool` shows the packing loop to do (the order is dropped
here). CLPA is an arbitrary choice of moves, since nothing about correctness may
depend on which ones it prefers. `BuildBlockProposal` reroutes what belongs to
another shard; `MigrateAccounts` sends states and moved transactions;
`HandleAccountMigration` keeps early reports (`unhandled`). With `MaxEpoch = 0`
this is the static relay mode. `NoState` stands for an account a shard does not
report.

### BrokerShards

The supervisor's part is `readTxsAndSend`, `HandleMsg` and `ShouldStop` of
`staticbroker.go` with the manager of `pkg/broker` (`unconfirmed`,
`readyBroker2`; the list of ready first halves is empty between calls and has no
variable). The loop over the cross-shard transfers of a tick tries the brokers
in random order, so `BrokerChoices` is the set of assignments it may end with:
each transfer has a broker that can pay after what the earlier ones took, or
none can. The leaders pack, commit, execute and report as in RelayShards, but
accounts never move. The steps of a tick of the supervisor (`ShouldStop`, drain,
send) may be separated by steps of the leaders, and taken in any order: the
model allows more than the loop does. Brokers make no transfers of their own
and take part in none, and senders have more than they can spend. A broker may be
paid down to nothing: the commit of the block then deletes its account, and the
first half of a later block creates it again with `BrokerInitBalance`
(`vm.go:104`, `txexecute.go:164`). `Opening` is this; the supervisor does not hear
of it, so the books are compared with the chain up to such amounts (`Refills`).

### BrokerEpochs

The repartition protocol is the same as in the relay mode, so its actions are
those of `RelayShards` (`Repartition`, `HandleRepartitionStart`,
`HandleAccountMigration`, `BuildMigrationProposal`, `MigrationBlockCommit`,
`Stop`), with the variables of the broker unchanged. The transactions are new:
`BrokerReadTxsAndSend` sends inner transfers and the halves on the two ready
lists, once the epochs are in sync; `HandleBrokerBlockInfo` confirms halves;
`HandleTxSendAgain` makes a record for a transfer that a leader has sent back.
`DestLoc` decides at a leader, by the locations of its chain when it packs and by
the modified map when it migrates (`MigratedLoc`), whether a transaction stays,
goes to a shard, or back to the supervisor. Brokers make no transfers, so CLPA
does not move them, and have enough money in every shard (`BrokerAssumption`):
this committee picks one at random and keeps no balances.

### Measure and AgentLedger

The shards are an environment that packs, commits and reports blocks, and gives
their times as the code does: taken by the leader when it proposes, so blocks of
different shards may be committed in another order. `DrainMsgBuffer` takes what
has arrived at the beginning of a tick into `msgList`; `HandleMsg` of the main
goroutine puts every info of it into `measureMsgBuf` and waits when that is full,
and only when the list is done is the stop considered again, so a measure goroutine
that no longer reads blocks the main one for good;
`UpdateMeasureRecord` is the measure goroutine with `RelayStats` or
`BrokerStats` (`kind`); `CloseMeasureMsgBuf`, `MeasureDone` and
`OutputResultAndClose` are the end of `Start`. An info is the name of its block,
and the times in a life cycle are the blocks they come from, so a time taken from
the wrong block shows. A repartition is one step in this module.
`AgentLedger` computes what `buildAgentRows` computes from the blocks as
operators over the state of `Measure`, which records in `trail` what execution
did to every account.

### AgentRounds

Files, memory of a call and program counter (`pc`). A round reads a trace
(`LoadTrace` is the sorting and grouping of lines), joins, leaves, pays and
makes plain transfers one record at a time (`TakeRecord`), truncates and writes
the registry in two steps, writes action map and plan, runs the chain, writes the
ledgers and goes on to the next round. `Abort` ends a call at any point, by an
error of the code or a crash; the next `Call` finds the files as they are, and
with `chain.enabled` or without. `RemoveResults` is the deletion of the result
directory in `run_agentemu.sh`. DIDs are pairs of seed and agent, since the code
derives them from a hash of both.

Of the cluster there is what the files of a round depend on. After `ChainStarts`
every leader (`NodeStarts`) begins a new chain in its block store and then creates
its CSV, which must not exist (`Creatable`); if it does, or something else fails,
the node ends and the run goes on without it. The supervisor creates its own files
(`SupervisorStarts`); if it cannot, it never comes up and the call can only abort.
`created` are these files, `opened` and `store` the block stores. `Commit` puts a
transaction of the plan, or the second half of a relayed one, into the block of a
leader that is up. `WriteAgentCSVs` follows the end of the supervisor, which may
come at any time once a leader is up, with any part of the plan committed, and
reads the stores of all shards. So a call may be cut short while its processes
start, leave some of the files, and be followed by one that succeeds with a part of
the cluster. Replicas other than the leaders write nothing that is read back.
Which shard a transaction belongs to is left open, and transfers are relayed (the
ledgers of the broker modes are hazard `agentcsv.go:225`). The processes of a call
are gone when the next one begins.

### TxPool

`AddTxs`, `PackTxs` with both limits, and `packValidTxsInRelay` in three phases:
fetch what still fits, split off what belongs elsewhere, repeat until the block
is full or the fetch was empty. Sizes of transactions are a constant function.

### ProcessGroup

`Run` of the chain runner with `start`, `wait`, `waitGrace`, `killAll`; one
`Reap` per child for the goroutine that waits for it; `Exit` and `Die` are the
operating system, `Cancel` is Ctrl-C or `RunTimeout`, `GraceEnds` the timer. The
state of a channel and of its map entry is one value (`DoneState`).

## 3. Runs

| Run | Instance | Shows |
|---|---|---|
| `pbft_catchup` | 2 nodes, 4 blocks, 1 loss, threshold 2, fetch limit 3 | `Agreement`, `SeqMatchesHeight`, `ChainComplete`, `CatchUpHelps`, `ImplementsShardLog` |
| `pbft_live` | 4 nodes, 1 down, 2 blocks, no failed send, a stop possible after the first block | `DeliveredHeldByQuorum`, `EveryNodeDelivers`, `StopsEverywhere` |
| `pbft_stuck` | 2 nodes, 2 losses | violates `BehindUsesCatchUp` |
| `relay_epochs` | 2 shards, 2 accounts, 1 transfer, 2 repartitions | `NothingLostOrDoubled`, `BalancesMatchLedger`, `LocationsAgree`, `EpochsInStep`, `MigrationFinishes` |
| `broker_static` | 2 shards, 1 broker, 4 transfers read two at a time, blocks of 2 | `NothingLostOrDoubled`, `ConfirmsInOrder`, `BooksMatchChain`, `PromisesCovered`, `PendingIsUnconfirmed`, `HalvesComplete` |
| `broker_dynamic` | 2 shards, 1 broker, 1 transfer inside a shard, 2 repartitions | `TransfersKept`, `ExecutedOnce`, `BooksFollowChains`, `MoneyFollowsBlocks`, `TransfersFinish` |
| `pool_number` | 3 transactions, one of which belongs elsewhere, up to 5 added, blocks of 2 | `FifoOrder`, `FullOrEmptied` |
| `pool_byte` | the same with a limit of 5 bytes | violates `WithinLimit` |
| `proc_run` | 2 nodes and the supervisor | `RunsToTheEnd`, `NoChildSurvives` |
| `reports` | 2 shards, 2 transfers, a channel of 1, relay and broker kind, one fallback, 1 repartition | `RecordedOnce`, `OutputComplete`, `LedgerAsExecuted`, `SupervisorEnds` |
| `rounds` | 2 agents, 2 seeds, 2 rounds per call, 3 records and 3 rounds in all calls, trace files of up to 4 lines, no chain | `DIDsStable`, `PlanFollowsLifecycle`, `NoncesInOrder`, `TraceOrder` |
| `round_files` | 2 agents, 2 shards, 1 seed, calls with and without a chain, 2 rounds per call, 2 records and 3 rounds in all calls | `SuccessIsConsistent` |

The runs `round_files`, `reports` and `broker_static` also check the type invariant of
their module. Those of `PBFT`, `BrokerShards`, `TxPool`, `ProcessGroup`,
`Measure` and `AgentRounds` are proved (section 5). `TypeOK` of `RelayShards` and `BrokerTypeOK` hold on the
instances of `relay_epochs` and `broker_dynamic` too, but no run repeats them;
that balances stay natural numbers depends on the ledger argument over sums.

**Bounds.** *Catch-up:* four blocks and a threshold of two let a replica fall
behind, ask, deliver blocks itself meanwhile, receive the late reply, and fall
behind again; the fetch limit of three is reached. *Quorum:* with four nodes f is
one, and the missing node makes every vote of the others necessary; messages wait
arbitrarily long, so a lost message adds no unsafe behaviour to this run; the
second block brings votes of a round some node has not reached. A stop after the
first block finds nodes in the middle of the second round, whose votes the stopped
ones no longer send. *Migration:* two
accounts and two shards let a transfer be inner, cross-shard, and change between
the two while it waits in a pool, a proposal or a message; two repartitions
bring an account back to a shard that still has its old state. The same instance
with a second transfer in the other direction (`Tx = {1, 2}`, 4.9 million states)
holds too. *Brokers:* the broker starts with 2 in each shard; transfer 1 brings
it money in the shard where the others, of 1 each, take it out, so that later
ones are brokered or relayed depending on which reports have arrived, and two of
one tick compete. Transfer 1 also takes all the broker has in the other shard, where a
later first half then finds it deleted. One undelivered info per shard is enough for the
infos of the two shards to overtake each other; the two halves of a transfer
never report from the same shard, and everything else an info does is a sum. *MaxInfo* bounds the undelivered block infos of a
shard, which otherwise grow with a slow supervisor; a leader waits when it is
reached. *Dynamic brokers:* the two accounts start together; the first repartition may
separate them while the transfer is unsent, in a message or in the pool, so that
it is sent back and cut into halves; the second may come between the halves,
bring the accounts together again, or move the one whose half is waiting.
*Reports:* two shards whose infos overtake each other, with a relay and a broker
transfer in opposite directions, or one inside a shard after the repartition; a
channel of one message is full after each info, which is when the goroutines can
wait for each other. *Rounds:* an agent has to join, leave and join again, in one
plan, over two rounds or over two calls; three started rounds are a successful
call after an aborted one in either order, with the same or another seed. The chain
does not act on registry, plan and action map, so `rounds` leaves it out and can
afford two seeds. *Files of a round:* two shards let one leader find its file and the
other not, and a transaction be relayed between them; two records are an agent's
action and one more of the same or the other agent; three rounds are two aborted
starts, each of which may leave other files, before one that succeeds. Seeds change
nothing here.
*Processes:* nodes are independent of each other except through the
counters of `waitGrace`; two are enough for one to exit and one to hang.
Deadlock is checked except where the system really ends (stopped nodes, an
emptied source, a returned run).

**Fairness.** PBFT: the ticker of a node fires for ever and its buffer is
drained, so weak fairness of a node's tick and of its message handling.
RelayShards: the same for leaders, and the supervisor handles its block infos;
that it sends or stops is not assumed. BrokerShards: the same, the supervisor
drains the block infos of every shard and keeps sending; that it stops is not
assumed. BrokerEpochs: supervisor and leaders keep acting and messages are
handled; neither a repartition nor the stop is assumed, and `TransfersFinish`
says nothing of behaviours in which the supervisor stops. Measure: both
goroutines are scheduled, a message of the tick is sent as long as there is room, and
the stop condition is reached some time; nothing makes a shard commit or an info
arrive. That ticks go on for ever without a stop is no issue here, since the blocks,
and with them the infos, are finitely many. AgentRounds has no liveness property: a
call may always break off. ProcessGroup: `Run` is
scheduled, the grace timer and `RunTimeout` fire, a killed process dies; nothing
makes a process end by itself, so any of them may hang.

## 4. Findings

1. `pbft_stuck`: `catchupStarted` is set even when the request could not be sent,
   and only a reply resets it. One lost request or reply, or a distance of more
   than `blocksFetchLimit`, and the replica stays behind for ever
   (`pbftmeta.go:186`; the comment at line 27 promises that it uses Catch-Up).
2. `pool_byte`: the comparison in `packTxsByGivenBytes` is inverted
   (`queue.go:110`).

Four more observations have no run. One counter collects the empty
blocks of all shards, so a fast shard can stop the experiment while another holds
uncommitted transactions (`clparelay.go:106`, `README.md:212`). The supervisor's
entry stays in `g.done` after its result has been taken, so every run waits for
the whole grace window (`chainrunner.go:471`). `Run` returns right after it has
sent its kill signals, although its comment says it blocks until the cluster has
stopped (`chainrunner.go:486`). A broker that has paid out its last coin in a
shard begins again there with its initial balance (`txexecute.go:165`), and the
books that "record the balances" (`staticbroker.go:37`) miss it; they are then too
low, never too high (`BooksMatchChain`), so no broker overspends
(`PromisesCovered`), but money comes from nowhere and is never used. The models
contain all four behaviours.

## 5. Proofs

All theorems hold for every value of the constants allowed by the named
assumptions of the modules.

**PBFT** (`NodeAssumption`: finitely many nodes, a leader that is up;
`ThresholdAssumption`: the threshold is at least one; `LimitAssumption`,
`BoundAssumption`). Theorems: `TypeCorrect`, `ShardAgreement`, `SeqIsHeight`,
`NoGap`, `RepliesHelp`, `QuorumHolds`. None of the properties is inductive: whether a late
reply can break a chain depends on what requests and replies in flight contain.
The invariant `IInv` of `PBFTProofs` says that there is only one possible block
per height (`BlockAt`), because the leader has at most one proposal outstanding
(`LeaderInv`); that sequence number, head and storage of every node agree
(`ChainInv`); that proposals in rounds, pools and messages belong to their
sequence number (`RoundInv`, `PoolInv`, `NetInv`); that a request starts right
after a stored block and at least a threshold below the leader (`GoodReq`); and
that a reply joins the chain of its receiver without a gap wherever that
receiver has got to (`GoodResp`). One lemma per action shows that it is kept.
Agreement here does not rest on quorums: there is one leader and the model, like
the code's own setting, has no dishonest node. What quorums add is
`QuorumHolds`: a delivered block is held by more than two thirds of the nodes.
Whoever has voted to commit a block holds it, stored or as the block of the
round, wherever the vote is by now (`VoteInv`), so the votes that deliver a block
are as many holders. This is stated for behaviours in which nobody starts a
Catch-Up, because a late reply may reset a node that has voted out of its round.

The last part of `PBFTProofs` proves `ShardIsLog`: the specification of `PBFT` implements that
of `ShardLog`. `IInv` gives the shape of every storage (`StoredShape`: one block
per height, and everything below); `ReplyInv` adds that a reply in flight is not
ahead of the leader. A step changes at most one storage (`StoreSteps`), by the
block after the node's own head, which is new to the whole shard only when the
node has the whole log (`AppendStep`), or by the blocks of a reply, which are
blocks of the log and leave no gap (`ReplyMovesAlong`). A late reply or a block
delivered a second time is a stuttering step.

**TxPool** (packing by number, any limit). `PoolTyped`, `PoolIsFifo`, `BlocksWithinLimit`,
`BlocksFullOrPoolEmptied`; the invariant adds that what an iteration has fetched
fits into the block (`BatchFits`). The last theorem is the contract `PackedTxs`
of RelayShards relies on.

**ProcessGroup** (any set of nodes; `SupervisorProofs` is about this module and
the measures, so its definitions have `Group` in their names). `ProcessesTyped`, and `NotCutShort`: nothing is killed while the
supervisor is working and the context is live. The invariant adds that the
supervisor is started last, that a result in its channel means it has ended, and
that `Run` is past `wait` only after that or after the context has ended.

**AgentRounds** (any agents, seeds, traces, rounds and calls, wherever calls
break off; `RoundAssumption`: an address is never empty and no agent has the
contract's). `RoundsTyped`, `NoncesFollow`, `AddressesStable`: a nonce is the
number of earlier transactions of its sender because the counter in memory is
(`NonceInv`); and an address is stable because every written entry fits the
registry in the file, if that can be read, the registry in memory, and every
other entry (`DIDInv`), with an address for every active agent (`ActiveInv`). The
torn registry is where this needs care: nothing is known of it, but no round
starts from it. The second part of the module proves `LifecycleFollowed`. Whether a payment
stands in the plan as an agent's action is read off the action map, so the proof
first shows that no two transactions of a plan are equal (`FreshTx`, from the
nonces). An identity is not active before it is registered because an address
not yet in the registry is in no earlier transaction (`RegistryGrows`) and two
agents never have the same (`IdsOwn`). `HasLast` keeps, for every beginning of a
plan, that a last call on an identity exists, which would otherwise need
induction. The next part proves `SuccessAlwaysConsistent`: after a call that
reports success, the files of each of its rounds agree with each other and with what
the leaders of this call have committed, which may be any part of the plan. Every
transaction is in one entry of the action map (`EntryInv`, from `FreshTx`).
A supervisor that comes up has created its file, so it is the first one in this
directory, and before it there were no rows and nothing but empty chains, whichever
leaders had come up; what is committed from then on is of the plan of this round
(`CsvInv`). The files of the leaders do not enter the argument: it holds whichever of
them an earlier call has left. The finished rounds of a call keep belonging together
although the registry goes on growing, since addresses are only added to it
(`RoundFilesInv`, `BelongInv`). The last part
proves `TraceOrderKept`: whatever lies in a trace directory, a round is driven by
all its records, each once and in the order of their times. Counting the records
that precede a record gives every record a place of its own (`LoadTraceSorts`), so
a sorted order exists for files of any length.

**RelayShards** (any shards, accounts, transfers and repartitions).
*Epochs and locations* (`EpochsStayInStep`, `LocationsAlwaysAgree`). The
invariant `IInv` of
`RelayProofs` (`RepartitionInvariance`) has: the shape of the variables it talks
about; `EpochInv`, that a leader is ready exactly between start and migration
block, and that the supervisor's view of a shard never runs ahead of the shard;
`StartInv`, that a start in flight is the current one and turns the map of its
receiver into the supervisor's; `LocationInv`, the same for a leader that has
it; `ProposalInv`, that a migration block is only proposed with the reports of
all shards; and `ReportInv`, that reports in flight, kept early, or recorded are
those of the current epoch and a shard's are in one place only. The last two
carry the argument: a shard changes its map only after every shard has reported,
thus has started, so no shard is two epochs behind. All steps that only handle
transactions are one case (`TxsOnly`), and so are the steps that announce an
epoch to others (`SendsReports`).

*Transfers* (`TransfersNeverLostOrDoubled`). The property counts copies; the
proof speaks of the places of one transfer. `PlaceInv`: an unfinished transfer
has exactly one place, a finished one none. This alone is not kept, since a
transfer whose second half waits could be committed as a whole again.
`StageInv` rules that out: once the first half is in a block, whatever waits of
the transfer is its second half, and it is not in the source. A step that commits
nothing keeps both by one lemma (`Moving`): a transfer stays in its places, or
its one place is exchanged for another that does not make a second half
something else.

*Balances* (`BalancesAlwaysMatchLedger`). The invariant `FundsInv` adds to the
two above: `MapsInv`, that the modified map a leader holds or receives is the
difference of the two location maps; `LocalInv`, that a transaction in a
proposal finds its accounts in that shard; `QuietInv`, that a leader which has
reported its states proposes no transactions until its migration block is
committed; `StatesInv`, that every report in flight, kept, collected or proposed
tells the balance by the ledger of the accounts that move; and `BalanceInv`,
that the shard that holds an account by the supervisor's map (the new home once
its migration block is through, until then the old one) has that balance. The
first three are what makes the fourth last: a report is read long before the
migration block commits, and stays right only because no block of the old shard
can touch the account in between. That balances do not run below zero needs
`StageInv` again: a transfer is taken from its sender at most once, and the
amounts of all transfers are covered (`FundsAssumption`).

**BrokerEpochs** (any shards, accounts, brokers, transfers and repartitions).
*Epochs and locations* (`BrokerRepartitionInvariance`,
`BrokerEpochsAndLocations`): the invariant of RelayShards holds with the
transactions of the broker, since each of its own actions is one of the two
cases above and the rest are actions of `RelayShards`. It reuses those lemmas.

*Transfers* (`TransfersAlwaysKept`, `AlwaysExecutedOnce`,
`BooksAlwaysFollowChains`). A transfer, or a half of it, can wait at the
supervisor as a whole, on one of the two ready lists of the manager, in a
message to a shard, back to the supervisor (`again`) or in a report (`info`), in
a pool, or in a proposed block. `WaitsAt` names the place. The invariant `WayInv`
says of every transfer that there is at most one place; that what the manager
has recorded and the blocks that hold the transfer are those that belong to the
place (`Fits`); that without a place it is finished and has no record, unless
the supervisor has stopped and reads no more reports; and that the chains hold
nothing, one first half, both halves through one broker, or the whole
(`Executed`). The three properties are not inductive one by one: that a half is
not executed twice depends on the record being there when it is reported, the
record on there being no second copy that could have removed it, and both on
what came back to be cut again having no record and no block. One lemma per
action shows that it moves at most the transfers it names, and these from one
place to the next.

*Money* (`MoneyAlwaysFollowsBlocks`). `BrokerFundsInv` adds to this:
`HalvesLocal`, that a proposed block touches only accounts of its shard
although the map may have changed since the half was sent; `AccountMoney`, which
is the money invariant of RelayShards (`StatesInv`, `BalanceInv`) for the ledger
of this mode; it takes the ledger as a parameter, so that the lemmas about
reports and migration blocks are proved once; and `PursesInv`, that the purse of a broker in a shard is
what it started with, plus the first halves and minus the second halves in the
blocks of that shard, and that the purses of a broker add up to its ledger. No
purse falls below zero, because a transfer is paid once and a purse starts with
the amount of all transfers (`BrokerAssumption`).

**Measure** (any shards, accounts, transfers, repartitions, capacity of the
channel and order of reports). `AlwaysRecordedOnce` and `OutputAlwaysComplete`
rest on the invariant `ReportInv` of `SupervisorProofs`. `RecordedOnce` alone is
not kept: a block with a half that another block has already reported would leave
a second line. `FlowInv` rules that out: in which form a transfer waits fits to
the blocks it is in, which are none, one with the whole of it, one with its first
half, or two different ones with one half each; and a second half by a broker
waits only once the main goroutine has handled the info of the first. `ChannelInv`
says that an info is on its way, in the channel, or measured, and never two of
these, so that no block is measured twice; that the measure goroutine ends only
when the channel is closed and empty; and that the result is written after that.
`CountInv` says that the counters are what the measured blocks hold; together
with an empty channel this is `OutputComplete`.

**AgentLedger** (as Measure). `LedgersAsExecuted`: in relay mode the rows built
from the blocks are those of the execution. Execution runs through the blocks as
they are committed, the ledger through all transactions sorted by time, shard,
height and index, so the two folds agree on nothing but the result. The proof
takes one account at a time. `Listed` says that rows are those of a set of
transactions in the order of the ledger; one more transaction after all others
keeps it (`ListedMore`), and it determines the rows (`ListedOnce`). `ListedInv`
says it of what an account has executed and of all its transactions in blocks. It
lasts because a block is stamped later than whatever of the account is in blocks
already: that is in the same shard, or from before the last repartition
(`HomeInv`), although other shards may have stamped later blocks. The ledger lists
the same set, since counting predecessors sorts all transactions
(`InOrderSorts`). The folds of the community modules are made into functions of
the number of steps first (`FoldExists`, `ExecuteSteps`, `AddRowsSteps`).
`MeasureTyped` is the type invariant of Measure with the executed rows.

**BrokerShards** (any shards, brokers, accounts, amounts and order of reports).
`NeverLostOrDoubled` and `AlwaysConfirmsInOrder` rest on `FlowInv`: one place
per unfinished transfer (`PlaceInv`); every waiting transaction is where it is to
be handled, and a half has its record at the manager (`CopyInv`); what is
reported is in the chain and a second half is reported once (`ReportInv`); a
transfer has at most one record from its first half until its second is reported
(`RecordInv`). None of them is inductive without the others: a report is handled
by looking for a record, and a record is kept only until it is. `BooksInv` is
about amounts: `BooksMatchChain`, `PendingIsUnconfirmed`, and `AvailableInv`,
that a broker never promises more than the supervisor believes it to have. The
last is not checked by a run, and is what the choice of brokers in a tick has to
guarantee. `BooksAlwaysMatchChain`, `PendingAlwaysUnconfirmed` and
`PromisesAlwaysCovered` follow; the last combines all three, since the real
balance is at least the believed one less what has been paid and not reported, and
that is among the pending deductions. The books are off by a multiple of
`BrokerInitBalance` (`Refills`): a block that finds the account deleted adds one, all
others none. `TypeCorrect` says nothing of the sign of balances, which are typed as
integers; that a broker's is not negative follows from `PromisesAlwaysCovered`.
`FundsAssumption` asks that a sender has more than all transfers together, not just
as much, so that an account is never left with nothing and created again, and that
brokers are no ordinary accounts; the first also in `RelayShards` and, for the purses
of brokers, in `BrokerEpochs`.

**TransferSums** has the lemmas about sums that both money arguments use.
`MapThenSumSet` of the community modules is defined by recursion over a set, and
the induction theorems of the library cannot be used (they take an operator).
`SumIsUnits` goes around that: it gives the function that the recursion defines
(count the pairs of an element and a number up to its amount) and refutes a
smallest set on which the two would differ. That sums are natural numbers and
add up over disjoint sets (`SumNat`, `SumUnion`), and what a change of one
element does to a sum (`SumChanged`), is then about cardinalities.

**Model-checked only.** Every invariant and action property of a passing run is
proved; `DeliveredHeldByQuorum`, as in its run, for behaviours without Catch-Up.
Three things are out of the prover's reach altogether: liveness and `ENABLED`, so
`EveryNodeDelivers`, `StopsEverywhere`, `MigrationFinishes`, `HalvesComplete`,
`TransfersFinish`, `NoChildSurvives` and `SupervisorEnds` are checked only;
induction over data other than by a least counterexample as above; and recursive
operators.

## 6. Plan

Done, in this order: PBFT with Catch-Up and its proofs; relay mode and
migration; the pool and its proofs; the process group and its proof; the static
broker mode; rounds and registry; measures, the supervisor's goroutines and the
ledgers; the dynamic broker mode; `ShardLog` and its implementation by PBFT; the
proofs about repartitions and about rounds; the static broker mode's proofs; the
proofs about transfers and balances of the relay mode, about quorums and about
the files of a call; those about transfers and money of the dynamic broker mode;
those about the reports of an experiment, the order of a trace and the ledgers.

Next:

1. A larger instance of `BrokerEpochs` (two transfers, so that a block mixes
   inner transfers and halves).
2. CLPA: label propagation as recursive functions over symbolic scores, against
   the definition of a partition (every account in one shard, the counters per
   shard equal to the map).

## 7. Not modelled

The EVM and contract calls (a wrapper of go-ethereum), tries and databases
(libraries), encodings, gRPC and libp2p transports with discovery, configuration,
logging, CSV formats, plotting, generation of contract traces and command-line
wiring. The label propagation of CLPA compares floating-point scores; a
repartition is an arbitrary set of moves instead, also of accounts that no
transaction has named, which the real one never moves. Latencies and averages of the
measures are arithmetic on times and are left out. Failing disks are not
modelled: `AddBlock` cannot fail in `PBFT`.

Some places where the code can go wrong are without a property and are left out
of the hazards: errors that are logged and passed over after the state has moved
on (`consensus/pbft/node.go:390`, `supervisor/committee/clpabroker.go:159`) or
after the pool has been emptied (`insideop/staticshardop.go:38`); a full send
buffer, which is one more lost message (`clientconnrpc/rpcconn.go:153`); the map
of child results that is written and read by several goroutines
(`chainrunner.go:439`); two agents whose names become one file name
(`agentcsv.go:311`); and the quotients of the label propagation
(`pkg/partition/clpa.go:223`).

----------------------------- MODULE ProcessGroup -----------------------------
(***************************************************************************)
(* One chain run of the agent side (agentsupervisor/chainrunner.go): Run   *)
(* starts the consensus nodes and then the supervisor as child processes,  *)
(* waits for the supervisor, gives the others a grace window to follow,    *)
(* and kills what is left.  A goroutine per child waits for it and puts    *)
(* the result into a channel of capacity one; the context ends the run on  *)
(* Ctrl-C or after RunTimeout.                                             *)
(***************************************************************************)
EXTENDS Naturals

CONSTANTS
    Node,           \* the consensus nodes of all shards
    Supervisor

ASSUME ProcAssumption == Supervisor \notin Node

Proc == Node \cup {Supervisor}

\* What done holds for a process: no entry in the map, a channel that is
\* empty, or the result of cmd.Wait.
DoneState == {"absent", "empty", "nil", "error"}

VARIABLES
    \* the goroutine that executes Run
    phase,      \* "start", "wait", "poll", "select", "return", "returned"
    procs,      \* g.procs
    done,       \* g.done
    supErr,
    result,
    \* time and context
    deadline,   \* the grace timer: "off", "running", "fired"
    cancelled,  \* ctx.Done()
    \* the operating system
    running,
    killed      \* processes that were sent a kill signal

runVars   == <<phase, procs, supErr, result, deadline>>
groupVars == <<runVars, done, cancelled, running, killed>>

GroupTypeOK ==
    /\ phase \in {"start", "wait", "poll", "select", "return", "returned"}
    /\ procs \subseteq Proc
    /\ done \in [Proc -> DoneState]
    /\ supErr \in {"nil", "error"}
    /\ result \in {"none", "outcome", "error"}
    /\ deadline \in {"off", "running", "fired"}
    /\ cancelled \in BOOLEAN
    /\ running \subseteq procs
    /\ killed \subseteq procs

GroupInit ==
    /\ phase = "start"
    /\ procs = {}
    /\ done = [p \in Proc |-> "absent"]
    /\ supErr = "nil"
    /\ result = "none"
    /\ deadline = "off"
    /\ cancelled = FALSE
    /\ running = {}
    /\ killed = {}

-----------------------------------------------------------------------------

\* What start appends to g.procs.
Recorded(p) == procs \cup {p}

\* start: all nodes, then the supervisor.
Start(p) ==
    /\ phase = "start"
    /\ p \notin procs
    /\ p = Supervisor => Node \subseteq procs
    /\ procs' = Recorded(p)
    /\ running' = running \cup {p}
    /\ done' = [done EXCEPT ![p] = "empty"]
    /\ phase' = IF p = Supervisor THEN "wait" ELSE "start"
    /\ UNCHANGED <<supErr, result, deadline, cancelled, killed>>

\* Mutant of KillAll: only processes whose result has not been taken.
KillUnfinished == killed \cup {p \in Node : done[p] = "empty"}

KillAll == procs

\* cmd.Start fails: Run returns and the deferred killAll is executed.
StartFails ==
    /\ phase = "start"
    /\ phase' = "returned"
    /\ result' = "error"
    /\ killed' = KillAll
    /\ UNCHANGED <<procs, done, supErr, deadline, cancelled, running>>

\* Mutant of Awaited: the first process that ends.
AwaitedAny == {p \in procs : done[p] \in {"nil", "error"}}

\* The processes whose end wait waits for.
Awaited == {p \in {Supervisor} : done[p] \in {"nil", "error"}}

\* wait receives the result, which empties the channel, and waitGrace starts.
WaitReceives ==
    /\ phase = "wait"
    /\ \E p \in Awaited :
         /\ supErr' = done[p]
         /\ done' = [done EXCEPT ![p] = "empty"]
    /\ phase' = "poll"
    /\ deadline' = "running"
    /\ UNCHANGED <<procs, result, cancelled, running, killed>>

WaitCancelled ==
    /\ phase = "wait"
    /\ cancelled
    /\ supErr' = "error"
    /\ phase' = "poll"
    /\ deadline' = "running"
    /\ UNCHANGED <<procs, done, result, cancelled, running, killed>>

\* waitGrace takes every result there is and counts the other entries.
Poll ==
    /\ phase = "poll"
    /\ done' = [p \in Proc |-> IF done[p] = "empty" THEN "empty" ELSE "absent"]
    /\ phase' = IF \E p \in Proc : done[p] = "empty" THEN "select" ELSE "return"
    /\ UNCHANGED <<procs, supErr, result, deadline, cancelled, running, killed>>

\* The grace window or the context ends: the leftovers are killed.
KillLeftovers ==
    /\ phase = "select"
    /\ deadline = "fired" \/ cancelled
    /\ killed' = KillAll
    /\ phase' = "return"
    /\ UNCHANGED <<procs, done, supErr, result, deadline, cancelled, running>>

\* 100 ms later, when neither of the two has happened.
PollAgain ==
    /\ phase = "select"
    /\ deadline # "fired" /\ ~cancelled
    /\ phase' = "poll"
    /\ UNCHANGED <<procs, done, supErr, result, deadline, cancelled, running, killed>>

\* The end of Run, with the deferred killAll.
Return ==
    /\ phase = "return"
    /\ phase' = "returned"
    /\ result' = IF cancelled \/ supErr = "error" THEN "error" ELSE "outcome"
    /\ killed' = KillAll
    /\ UNCHANGED <<procs, done, supErr, deadline, cancelled, running>>

Run ==
    \/ \E p \in Proc : Start(p)
    \/ StartFails
    \/ WaitReceives
    \/ WaitCancelled
    \/ Poll
    \/ KillLeftovers
    \/ PollAgain
    \/ Return

-----------------------------------------------------------------------------

\* The goroutine of p: Wait returns and the result goes into the channel.
Reap(p, err) ==
    /\ running' = running \ {p}
    /\ done' = [done EXCEPT ![p] = err]
    /\ UNCHANGED <<runVars, cancelled, killed>>

\* A process ends by itself: the supervisor when the experiment is over,
\* a node when it is told to stop, any of them by a crash.
Exit(p) == p \in running /\ \E err \in {"nil", "error"} : Reap(p, err)

\* A kill signal is delivered.
Die(p) == p \in running \cap killed /\ Reap(p, "error")

\* Ctrl-C or RunTimeout.
Cancel ==
    /\ phase # "returned"
    /\ ~cancelled
    /\ cancelled' = TRUE
    /\ UNCHANGED <<runVars, done, running, killed>>

GraceEnds ==
    /\ deadline = "running"
    /\ phase \in {"poll", "select"}
    /\ deadline' = "fired"
    /\ UNCHANGED <<phase, procs, supErr, result, done, cancelled, running, killed>>

GroupNext ==
    \/ Run
    \/ \E p \in Proc : Exit(p) \/ Die(p)
    \/ Cancel
    \/ GraceEnds

GroupSpec == GroupInit /\ [][GroupNext]_groupVars

\* Run is not descheduled, a killed process dies, and both timers run out.
\* Nothing makes a process end by itself.
GroupFairness ==
    /\ WF_groupVars(Run)
    /\ WF_groupVars(Cancel)
    /\ WF_groupVars(GraceEnds)
    /\ \A p \in Proc : WF_groupVars(Die(p))

GroupFairSpec == GroupSpec /\ GroupFairness

-----------------------------------------------------------------------------
(***************************************************************************)
(* Properties                                                              *)
(***************************************************************************)

\* "every one of them is reaped, even on error paths and Ctrl-C": Run
\* returns whatever its children do, and in the end none of them is left.
NoChildSurvives == <>[](phase = "returned" /\ running = {})

\* An experiment is never cut short: without an error at the start, Ctrl-C
\* or the timeout, nothing is killed while the supervisor is working.
RunsToTheEnd ==
    killed # {} /\ Supervisor \in procs /\ ~cancelled => Supervisor \notin running
=============================================================================

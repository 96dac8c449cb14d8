SPECIFICATION Spec

CONSTANTS
    a = a
    b = b
    Agent = {a, b}
    Seed = {1, 2}
    ChainEnabled = {FALSE}
    TS = {0, 1}
    Contract = Contract
    RawSpec <- MCRawSpec
    Shard = {s1}
    Supervisor = Supervisor
    MaxRounds = 2
    MaxFileLines = 4
    MaxRecords = 3
    MaxStarts = 3

CHECK_DEADLOCK FALSE

INVARIANTS
    DIDsStable
    PlanFollowsLifecycle
    NoncesInOrder
    TraceOrder

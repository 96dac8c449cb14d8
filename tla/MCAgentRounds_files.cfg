SPECIFICATION Spec

CONSTANTS
    a = a
    b = b
    Agent = {a, b}
    Seed = {1}
    ChainEnabled = {TRUE, FALSE}
    TS = {0}
    Contract = Contract
    RawSpec <- MCRawSpec
    Shard = {s1, s2}
    Supervisor = Supervisor
    MaxRounds = 2
    MaxFileLines = 0
    MaxRecords = 2
    MaxStarts = 3

CHECK_DEADLOCK FALSE

INVARIANTS
    TypeOK
    SuccessIsConsistent

SPECIFICATION Spec

CONSTANTS
    n0 = n0
    n1 = n1
    n2 = n2
    n3 = n3
    Node = {n0, n1}
    Leader = n0
    Down = {}
    CatchUpThreshold = 2
    BlocksFetchLimit = 3
    MaxBlocks = 4
    MaxLoss = 1
    StopThreshold = 10

INVARIANTS
    Agreement
    SeqMatchesHeight
    ChainComplete
    CatchUpHelps

PROPERTY ImplementsShardLog

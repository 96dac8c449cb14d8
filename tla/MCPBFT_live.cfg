SPECIFICATION FairSpec

CONSTANTS
    n0 = n0
    n1 = n1
    n2 = n2
    n3 = n3
    Node = {n0, n1, n2, n3}
    Leader = n0
    Down = {n3}
    CatchUpThreshold = 5
    BlocksFetchLimit = 100
    MaxBlocks = 2
    MaxLoss = 0
    StopThreshold = 1

INVARIANT DeliveredHeldByQuorum

PROPERTIES
    EveryNodeDelivers
    StopsEverywhere

CHECK_DEADLOCK FALSE

SPECIFICATION FairSpec

CONSTANTS
    n0 = n0
    n1 = n1
    n2 = n2
    n3 = n3
    Node = {n0, n1}
    Leader = n0
    Down = {}
    CatchUpThreshold = 1
    BlocksFetchLimit = 100
    MaxBlocks = 2
    MaxLoss = 2
    StopThreshold = 10

PROPERTY BehindUsesCatchUp

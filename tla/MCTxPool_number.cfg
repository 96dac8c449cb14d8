SPECIFICATION Spec

CONSTANTS
    t1 = t1
    t2 = t2
    t3 = t3
    Tx = {t1, t2, t3}
    Here = {t1, t2}
    EncodedSize <- MCEncodedSize
    PoolType = "number"
    BlockSizeLimit = 2
    MaxAdded = 5

INVARIANTS
    FifoOrder
    FullOrEmptied

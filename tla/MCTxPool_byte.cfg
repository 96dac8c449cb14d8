SPECIFICATION Spec

CONSTANTS
    t1 = t1
    t2 = t2
    t3 = t3
    Tx = {t1, t2, t3}
    Here = {t1, t2}
    EncodedSize <- MCEncodedSize
    PoolType = "byte"
    BlockSizeLimit = 5
    MaxAdded = 5

INVARIANT WithinLimit

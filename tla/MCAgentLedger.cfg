SPECIFICATION FairSpec

CONSTANTS
    a = a
    b = b
    Shard = {1, 2}
    Account = {a, b}
    Tx = {1, 2}
    Sender <- MCSender
    Recipient <- MCRecipient
    Value <- MCValue
    InitBalance = 5
    DefaultAccountLoc <- MCLoc
    Fallback = {2}
    WmBufferSize = 1
    BlockSizeLimit = 2
    MaxEpoch = 1

CHECK_DEADLOCK FALSE

INVARIANTS
    TypeOK
    RecordedOnce
    OutputComplete
    LedgerAsExecuted

PROPERTY SupervisorEnds

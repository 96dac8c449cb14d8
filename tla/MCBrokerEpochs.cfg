SPECIFICATION BrokerFairSpec

CONSTANTS
    s1 = s1
    s2 = s2
    a = a
    b = b
    x = x
    Shard = {s1, s2}
    NoShard = NoShard
    Account = {a, b}
    Tx = {1}
    Sender <- MCSender
    Recipient <- MCRecipient
    Value <- MCValue
    InitBalance = 3
    DefaultAccountLoc <- MCDefaultAccountLoc
    BlockSizeLimit = 1
    TxInjectionSpeed = 2
    StopThreshold = 1
    MaxEpoch = 2
    MaxInfo = 1
    Broker = {x}
    NoBroker = NoBroker
    Supervisor0 = Supervisor0
    BrokerInitBalance = 3

INVARIANTS
    TransfersKept
    ExecutedOnce
    BooksFollowChains
    MoneyFollowsBlocks

PROPERTY TransfersFinish

SPECIFICATION FairSpec

CONSTANTS
    s1 = s1
    s2 = s2
    a = a
    b = b
    x = x
    Shard = {s1, s2}
    Account = {a, b}
    Broker = {x}
    NoBroker = NoBroker
    Tx = {1, 2, 3, 4}
    Sender <- MCSender
    Recipient <- MCRecipient
    Value <- MCValue
    InitBalance = 6
    BrokerInitBalance = 2
    DefaultAccountLoc <- MCDefaultAccountLoc
    BlockSizeLimit = 2
    TxInjectionSpeed = 2
    StopThreshold = 1
    MaxInfo = 1

INVARIANTS
    TypeOK
    NothingLostOrDoubled
    ConfirmsInOrder
    BooksMatchChain
    PromisesCovered
    PendingIsUnconfirmed

PROPERTY HalvesComplete

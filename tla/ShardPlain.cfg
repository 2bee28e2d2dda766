SPECIFICATION FairShardSpec
CONSTANTS
    p1 = p1
    p2 = p2
    p3 = p3
    Clients = {c1, c2}
    Sweeper = sweeper
    Nobody = nobody
    Kinds = {"set", "get"}
    PayloadLen <- MCPayloadLen
    Keys = {k1, k2}
    Payloads = {p3}
    BufLens = {2}
    SzMax = 3
    PagePrcnt = 50
    ExpireNs = 1
    Second = 1
    Epoch = 1
    MaxNow = 3
    Word = 16
CONSTRAINT FewFreeBlocks
INVARIANTS
    ShardTypeOK
    ExactRegistration
    MissIsReported
    NoSelfDeadlock
PROPERTIES
    LockComesFree
    SetReturns
    TakesOnlyExpired
CHECK_DEADLOCK FALSE

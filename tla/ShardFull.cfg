SPECIFICATION ShardSpec
CONSTANTS
    p1 = p1
    p2 = p2
    p3 = p3
    Clients = {c1}
    Sweeper = sweeper
    Nobody = nobody
    Kinds = {"set", "fset", "get", "evict"}
    PayloadLen <- MCPayloadLen
    Keys = {k1, k2}
    Payloads = {p1, p2}
    BufLens = {1}
    SzMax = 2
    PagePrcnt = 100
    ExpireNs = 2
    Second = 2
    Epoch = 2
    MaxNow = 6
    Word = 16
SYMMETRY MCSymmetry
VIEW WithoutBytes
INVARIANTS
    IteratorValid
    Accounting
    CopyFits
    Registered
PROPERTIES
    StoreSpec
    ImplementsCache
CHECK_DEADLOCK FALSE

SPECIFICATION ShardSpec
CONSTANTS
    p1 = p1
    p2 = p2
    p3 = p3
    Clients = {c1}
    Sweeper = sweeper
    Nobody = nobody
    Kinds = {"set", "evict"}
    PayloadLen <- MCPayloadLen
    Keys = {k1}
    Payloads = {p1}
    BufLens = {2}
    SzMax = 2
    PagePrcnt = 50
    ExpireNs = 2
    Second = 2
    Epoch = 3
    MaxNow = 8
    Word = 16
INVARIANTS
    NoSelfDeadlock
CHECK_DEADLOCK FALSE

SPECIFICATION ShardSpec
CONSTANTS
    p1 = p1
    p2 = p2
    p3 = p3
    Clients = {c1, c2}
    Sweeper = sweeper
    Nobody = nobody
    Kinds = {"set"}
    PayloadLen <- MCPayloadLen
    Keys = {k1}
    Payloads = {p1}
    BufLens = {2}
    SzMax = 2
    PagePrcnt = 50
    ExpireNs = 1
    Second = 1
    Epoch = 1
    MaxNow = 5
    Word = 16
INVARIANTS
    MutualExclusion
CHECK_DEADLOCK FALSE

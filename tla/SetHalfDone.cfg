SPECIFICATION StoreSpec
CONSTANTS
    p0 = p0
    p1 = p1
    p2 = p2
    p3 = p3
    PayloadLen <- MCPayloadLen
    Keys = {k1, k2}
    Payloads = {p2, p3}
    BufLens = {4}
    SzMax = 5
    PagePrcnt = 50
    ExpireNs = 1
    Second = 1
    Epoch = 1
    MaxNow = 1
    Word = 16
INVARIANTS
    NoSpaceReported
CHECK_DEADLOCK FALSE

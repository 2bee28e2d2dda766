SPECIFICATION StoreSpec
CONSTANTS
    p0 = p0
    p1 = p1
    p2 = p2
    p3 = p3
    PayloadLen <- MCPayloadLen
    Keys = {k1, k2}
    Payloads = {p0, p2, p3}
    BufLens = {4}
    SzMax = 5
    PagePrcnt = 50
    ExpireNs = 1
    Second = 1
    Epoch = 1
    MaxNow = 2
    Word = 16
SYMMETRY KeySymmetry
VIEW WithoutReply
CONSTRAINT FewFreeBlocks
INVARIANTS
    TypeOK
    NoOverlap
    NoLeak
    PagesSuffice
    Isolation
CHECK_DEADLOCK FALSE

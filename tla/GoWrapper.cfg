SPECIFICATION GoSpec
CONSTANTS
    g1 = g1
    g2 = g2
    k1 = k1
    k2 = k2
    empty = empty
    two = two
    three = three
    cut = cut
    open = open
    Goroutines = {g1, g2}
    Keys = {k1, k2}
    Slices <- MCSlices
    SliceLen <- MCSliceLen
    ByteLens <- MCByteLens
SYMMETRY GoSymmetry
VIEW WithoutResult
INVARIANTS
    GoTypeOK
    BufferIsEnough
    SpillNeedsRace
    FreeIsSafeAlone
CHECK_DEADLOCK FALSE

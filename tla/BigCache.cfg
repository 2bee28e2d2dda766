SPECIFICATION FairBigSpec
CONSTANTS
    Counts = {2, 4}
    GroupFrom = 4
    GroupSize = 2
    Period <- MCPeriod
    Instants = {0, 2}
    Word = 8
INVARIANTS
    BigTypeOK
    NothingDeletedInUse
    OneSweeper
    PauseWithinPeriod
    OneCycleAfterStop
PROPERTIES
    EverySweptOnce
    ImplementsCycle
    DestructorReturns
    ExpirationGoesOn
CHECK_DEADLOCK FALSE

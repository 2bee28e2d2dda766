SPECIFICATION BigSpec
CONSTANTS
    Counts = {2, 4}
    GroupFrom = 4
    GroupSize = 2
    Period <- MCPeriod
    Instants = {0, 2}
    Word = 8
INVARIANTS
    NoCycleAfterStop
CHECK_DEADLOCK FALSE

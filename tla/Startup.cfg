SPECIFICATION StartupSpec
CONSTANTS
    Word32 = 16
    Word64 = 64
    MinShards = 2
    MaxShards = 8
    DefShards = 4
    MinExpire = 2
    DefExpire = 6
    MinVacuum = 3
    DefVacuum = 7
    DefMaxSize = 28
    MaxVerbose = 6
    DefVerbose = 2
    PagePrcnt = 25
    Avail = 25
    Sources <- MCSources
    Streamed <- MCStreamed
INVARIANTS
    StartupTypeOK
    ParamsInRange
    ValidIsObeyed
    GoPeriodsPositive
    Routing
    SpaceIsHeld
    ReadsBack
PROPERTIES
    MarshalKeeps
CHECK_DEADLOCK FALSE

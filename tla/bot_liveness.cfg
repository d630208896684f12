SPECIFICATION BotFairSpec
CONSTANTS
    Nops = {}
    Calls = {p1, p2, p3}
    Handles = {1, 2, 3}
    Unknown = {}
    NoReq = NoReq
    SqSize = 2
    IdxMod = 12
    PoolCap = 4
    PoolThreads = 2
    PuntMayFail = FALSE
    MaxUpdates = 3
    BatchMax = 3
    MaxIdlePolls = 1
INVARIANTS
    PollingForever
    ConfirmedAreHandled
    NeverBlocked
PROPERTIES
    NeverHandledTwice
    EveryUpdateHandled
CHECK_DEADLOCK FALSE

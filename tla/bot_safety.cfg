SPECIFICATION BotSpec
CONSTANTS
    Nops = {}
    Calls = {p1, p2, p3, p4}
    Handles = {1, 2, 3, 4}
    Unknown = {}
    NoReq = NoReq
    SqSize = 2
    IdxMod = 12
    PoolCap = 1
    PoolThreads = 3
    PuntMayFail = TRUE
    MaxUpdates = 4
    BatchMax = 1
    MaxIdlePolls = 1
VIEW BotView
INVARIANTS
    BotTypeOK
    PolledOneAtATime
PROPERTIES
    NothingDropped
CHECK_DEADLOCK FALSE

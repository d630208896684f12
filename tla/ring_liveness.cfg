SPECIFICATION FairSpec
CONSTANTS
    Nops = {}
    Calls = {}
    Handles = {h1, h2}
    Unknown = {}
    NoReq = NoReq
    SqSize = 1
    IdxMod = 6
    PoolCap = 1
    PoolThreads = 2
    PuntMayFail = TRUE
PROPERTIES
    ClientIsWoken
    RoomIsSignalled
    DestroyEnds
CHECK_DEADLOCK FALSE

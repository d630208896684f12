SPECIFICATION Spec
CONSTANTS
    Nops = {n1}
    Calls = {}
    Handles = {h1}
    Unknown = {}
    NoReq = NoReq
    SqSize = 2
    IdxMod = 12
    PoolCap = 1
    PoolThreads = 2
    PuntMayFail = TRUE
VIEW LiveView
INVARIANTS
    TypeOK
    OnePlace
    UpdateHeldWhileNeeded
    ClientWatched
PROPERTIES
    CompletionsFifo
CHECK_DEADLOCK FALSE

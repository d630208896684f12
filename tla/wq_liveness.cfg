SPECIFICATION FairSpec
CONSTANTS
    MaxThreads = 3
    InitThreads = 2
    Cap = 1
    IdxMod = 2
    Queuers = {q1, q2}
    Waiters = {a1}
    Works = {w1, w2, w3}
    NoWork = NoWork
    CreateMayFail = TRUE
PROPERTIES
    ServesPool
    AcceptedIsReleased
    WaitAllTerminates
    ShutdownJoinsAll
    OverlapWakes
CHECK_DEADLOCK FALSE

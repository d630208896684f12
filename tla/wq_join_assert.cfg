SPECIFICATION Spec
CONSTANTS
    MaxThreads = 2
    InitThreads = 1
    Cap = 2
    IdxMod = 4
    Queuers = {q1, q2}
    Waiters = {}
    Works = {w1, w2}
    NoWork = NoWork
    CreateMayFail = TRUE
INVARIANTS
    JoinReturnsWorker
CHECK_DEADLOCK FALSE

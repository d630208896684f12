SPECIFICATION Spec
CONSTANTS
    MaxThreads = 3
    InitThreads = 2
    Cap = 2
    IdxMod = 4
    Queuers = {q1, q2}
    Waiters = {a1, a2}
    Works = {w1, w2, w3, w4}
    NoWork = NoWork
    CreateMayFail = TRUE
SYMMETRY Symmetry
INVARIANTS
    TypeOK
    CountersMatch
    NoIdleBacklog
    WorkConserved
    WaiterWatched
    BlockedHasWaiter
    FreedLeavesNothing
PROPERTIES
    DrainedOnReturn
    ImplementsPool
CHECK_DEADLOCK FALSE

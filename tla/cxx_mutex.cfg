SPECIFICATION Spec
CONSTANTS
    Threads = {t1, t2, t3}
    NoThread = NoThread
    MaxLocks = 4
    NULL = NULL
INVARIANTS
    UnlockSafe
PROPERTIES
    ImplementsMutex
CHECK_DEADLOCK FALSE

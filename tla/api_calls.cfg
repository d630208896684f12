SPECIFICATION Spec
CONSTANTS
    Threads = {t1, t2}
    MaxCalls = 4
    TableSize = 3
    EntrySize = 8
    BufferSize = 3
    ChunkMax = 4
    BodyMax = 9
INVARIANTS
    BodyFits
    ParsedWhole
    HandlesOwned
CHECK_DEADLOCK FALSE

SPECIFICATION Spec
CONSTANTS
    NULL = NULL
    MaxUpdates = 3
    Kinds = {"no_id", "null", "other_update", "bad_message", "bad_from", "bad_chat", "text", "text_entities", "other_message"}
    BatchMax = 3
    MaxFailures = 2
    Backlog = 2
    Threads = 2
INVARIANTS
    TypeOK
    HandlerReadsAlive
    BlocksOwned
    HandledOnce
PROPERTIES
    EveryUpdateSettled
CHECK_DEADLOCK FALSE

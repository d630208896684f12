SPECIFICATION Spec
CONSTANTS
    NULL = NULL
    Holders = {parser, handler}
    Parser = parser
INVARIANTS
    ReleasedAtLast
CHECK_DEADLOCK FALSE

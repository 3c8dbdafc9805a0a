SPECIFICATION Spec
CONSTANTS
    Thread = {t1, t2}
    Span = {s1}
    NULL = NULL
    NELEMS = 2
    GenMod = 8
    SafePoints = FALSE
    LastGen = 6
INVARIANTS OneCollector ListsIntact
CHECK_DEADLOCK FALSE

SPECIFICATION Spec
CONSTANTS
    Thread = {t1, t2}
    Span = {s1, s2}
    NULL = NULL
    NELEMS = 2
    GenMod = 8
    SafePoints = FALSE
    LastGen = 2
SYMMETRY Symmetry
INVARIANT ExclusiveSweep
CHECK_DEADLOCK FALSE

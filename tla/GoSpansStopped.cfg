SPECIFICATION Spec
CONSTANTS
    Thread = {t1, t2}
    Span = {s1, s2}
    NULL = NULL
    NELEMS = 2
    GenMod = 8
    SafePoints = TRUE
    LastGen = 8
SYMMETRY Symmetry
INVARIANTS NoThrow ReachedIsAllocated OnePlace SweepBufferExact CycleSweepsAll

SPECIFICATION Spec
CONSTANTS
    Spans <- MixedSpans
    BitsPerByte = 8
    Capacity = 1
    PerSpan = 2
    MaxSpans = 5
    MaxStack = 3
    MaxOps = 5
INVARIANTS BuffersExact MarkedScanned DrainExact
PROPERTIES DrainEnds
CHECK_DEADLOCK FALSE

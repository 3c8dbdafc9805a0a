SPECIFICATION Spec
CONSTANTS
    Spans <- MixedSpans
    BitsPerByte = 8
    Capacity = 1
    PerSpan = 2
    MaxSpans = 5
    MaxStack = 3
    MaxOps = 4
INVARIANTS MarkedAll
CHECK_DEADLOCK FALSE

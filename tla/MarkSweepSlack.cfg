SPECIFICATION Spec
CONSTANTS
    TINY_HEAP_SIZE = 8
    MaxAddr = 8
    ObjSize = 2
    MaxRoots = 2
    Interior = FALSE
    Reserve = 2
INVARIANTS HeapIntact NoDanglingPointer GcExact

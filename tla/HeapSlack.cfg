SPECIFICATION Spec
CONSTANTS
    TINY_HEAP_SIZE = 10
    MaxAddr = 13
    Var = {p1, p2, p3, p4}
    ReqSize = {2}
    Setup <- GrowingOrTwo
    Reserve = 2
SYMMETRY Symmetry
INVARIANTS HeapTiled FreeListExact NoSpuriousDenial
PROPERTY ImplementsAllocator

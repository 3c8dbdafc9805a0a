SPECIFICATION FairSpec
CONSTANTS
    a = a
    b = b
    c = c
    d = d
    Obj = {a, b, c}
    NULL = NULL
    Field = {left}
    gc_heaps_used = 2
    HeapOf <- TwoHeaps
    max_mark = 1
    max_sweep = 1
    MaxRoots = 2
INVARIANTS TypeOK  NoStaleBlack
  

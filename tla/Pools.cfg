SPECIFICATION Spec
CONSTANTS
    InitialArenaObjects = 1
    MaxArenaObjects = 2
    PoolsPerArena = 3
    NClasses = 2
    NUMBLOCKS <- TwoBlocks
    Request = {8, 13}
    MaxOwned = 4
    ObjSize = {2}
    MaxObjects = 3
    MaxHuge = 1
    MaxExcess = 1
INVARIANTS UsedPoolsExact BlocksExact ArenasExact NothingRetained
INVARIANTS ReachableKept PyBlocksExact NoPoolMissing
PROPERTIES ArenaWhenNeeded CollectExact
CHECK_DEADLOCK FALSE

SPECIFICATION AllSpec
CONSTANTS
    Room = 2
    OldRoom = 2
    AGE_MAX = 2
    Field = {"next"}
    MaxValue = 3
    MaxRoots = 2
    MaxRs = 3
    LispRoom = 3
    LispMade = 4
    LispRoots = 2
    Word = {"next"}
    Slot = {"f"}
    Obj = {"o1", "o2", "o3"}
    NOOBJ = "null"
    Thread = {"t1", "t2"}
    MaxCalls = 6
INVARIANTS ReachableKept OldToYoungRemembered OneCopy CompactExact CountsExact
CHECK_DEADLOCK FALSE

SPECIFICATION Spec
CONSTANTS
    Room = 2
    OldRoom = 2
    AGE_MAX = 2
    Field = {"next"}
    MaxValue = 3
    MaxRoots = 2
    MaxRs = 3
INVARIANT AllUpdated
CHECK_DEADLOCK FALSE

SPECIFICATION StoreSpec
CONSTANTS
    MaxId = 3
    Stores <- TwiceResumed
INVARIANTS
    OneThread
CHECK_DEADLOCK FALSE

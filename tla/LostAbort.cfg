SPECIFICATION FairSpec
CONSTANTS
    Requests = {"r1", "r2", "r3"}
    Rigs <- PressedRigs
PROPERTIES
    Closes
CHECK_DEADLOCK FALSE

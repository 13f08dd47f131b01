SPECIFICATION StoreSpec
CONSTANTS
    MaxId = 3
    Stores <- MCStoreRigs
INVARIANTS
    RegisteredVerified
    CancelHonoured
    StoreSettled
CHECK_DEADLOCK FALSE

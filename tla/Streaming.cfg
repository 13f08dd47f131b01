SPECIFICATION FairSpec
CONSTANTS
    Requests = {"r1", "r2", "r3"}
    Rigs <- MCRigs
INVARIANTS
    SlotExclusive
    AccountedOnce
    StreamFaithful
    PendingBounded
    HistoryKept
PROPERTIES
    Closes
CHECK_DEADLOCK FALSE

SPECIFICATION FairSpec
CONSTANTS
    Requests = {"r1", "r2", "r3"}
    Rigs <- MCRigs
INVARIANTS
    BatchTypeOK
    SequenceExclusive
    CacheFaithful
    DraftInSync
    PoolFits
    TasksAlive
PROPERTIES
    Answered
CHECK_DEADLOCK FALSE

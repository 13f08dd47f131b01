SPECIFICATION PoolSpec
CONSTANT PoolRigs <- MCPoolRigs
INVARIANTS
    FitBest
    PoolSettled

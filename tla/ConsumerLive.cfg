SPECIFICATION FairSpec
CONSTANTS
    Conns = {d1, d2}
    Prefetch = 1
    MaxCrdys = 3
    MaxBatches = 2
    MaxReconnects = 1
CHECK_DEADLOCK FALSE
INVARIANTS TypeOK NextAfterHandler Counted
PROPERTY KeepsAsking  DeathReported

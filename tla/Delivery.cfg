SPECIFICATION FairSpec
CONSTANTS
    Word = 16
    MaxItem = 2
    MaxFrame = 6
    Addrs = {a1, a2}
    Batches <- MCBatches
    MaxConns = 2
    MaxDeliveries = 3
    MaxFaults = 1
INVARIANTS
    TypeOK
    SentOnce
    HandedInOrder
    RefusedForCause
    OneLive
PROPERTY Unwedged
CHECK_DEADLOCK FALSE

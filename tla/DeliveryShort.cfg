SPECIFICATION Spec
CONSTANTS
    Word = 16
    MaxItem = 2
    MaxFrame = 6
    Addrs = {a1, a2}
    Batches <- MCBatches
    MaxConns = 2
    MaxDeliveries = 2
    MaxFaults = 1
INVARIANT DelvDelivered
CHECK_DEADLOCK FALSE

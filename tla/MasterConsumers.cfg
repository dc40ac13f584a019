SPECIFICATION Spec
CONSTANTS
    c1 = c1
    c2 = c2
    Producers = {1}
    Consumers = {c1,c2}
    MaxBatch = 1
    MaxBacklog = 1
    KeepPublishing = FALSE
    MaxCycles = 1
    MaxUnread = 0
    MatchLoopOn = FALSE
    ProducerDrops = {}
    ConsumerDrops = {}
SYMMETRY ConsumerSymmetry
CHECK_DEADLOCK FALSE
INVARIANTS PullOnly AwaitsSomebody

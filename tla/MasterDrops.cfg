SPECIFICATION Spec
CONSTANTS
    c1 = c1
    c2 = c2
    Producers = {1}
    Consumers = {c1}
    MaxBatch = 1
    MaxBacklog = 1
    KeepPublishing = TRUE
    MaxCycles = 2
    MaxUnread = 0
    MatchLoopOn = FALSE
    ProducerDrops = {1}
    ConsumerDrops = {c1}
CHECK_DEADLOCK FALSE
INVARIANTS TypeOK CountersMatch NoLostCrdy AwaitsSomebody QueuedOnce
PROPERTY PullSpec

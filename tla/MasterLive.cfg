SPECIFICATION FairSpec
CONSTANTS
    c1 = c1
    c2 = c2
    Producers = {1}
    Consumers = {c1}
    MaxBatch = 1
    MaxBacklog = 1
    KeepPublishing = FALSE
    MaxCycles = 1
    MaxUnread = 1
    MatchLoopOn = TRUE
    ProducerDrops = {}
    ConsumerDrops = {}
PROPERTY  BusyReleased

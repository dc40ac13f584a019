SPECIFICATION Spec
CONSTANTS
    Sizes = {0, 1, 2, 3, 4}
    MaxBytes = 3
    MaxBatchBytes = 2
    MaxItems = 2
    MaxPublished = 4
    MaxBreaks = 0
INVARIANTS TypeOK InOrder Accounted WithinCap BufferBounded
PROPERTY OutboxSpec

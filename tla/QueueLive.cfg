SPECIFICATION FairSpec
CONSTANTS
    Sizes = {1}
    MaxBytes = 2
    MaxBatchBytes = 2
    MaxItems = 1
    MaxPublished = 2
    MaxBreaks = 1
PROPERTIES BacklogAnnounced IngressDrained

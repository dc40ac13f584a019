SPECIFICATION FairSpec
CONSTANTS
    Word = 16
    MaxItem = 1
    MaxFrame = 1
    MaxField = 2
    MaxText = 3
    Prefix = 1
    MaxCrdys = 2
    MaxNews = 1
INVARIANTS
    TypeOK
    
    ClosedForCause
 
CHECK_DEADLOCK FALSE

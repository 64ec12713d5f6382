SPECIFICATION FairSpec
CONSTANTS
    Objects = {o1, o2}
    Ids <- MCIds
    NULL = NULL
    MaxCounter = 2
    MaxOps = 5
INVARIANTS
    TypeOK
    NoDeadUpdate
    CrowsSound
    ActiveIffCounted
    FoundById
PROPERTIES
    EventuallyDestroyed
CHECK_DEADLOCK TRUE

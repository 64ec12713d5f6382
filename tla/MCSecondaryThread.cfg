CONSTANTS
    Objects = {o1, o2}
    RenderJobs = {r1}
    MaxFrame = 3
    InitialMarker = 99
    Nobody = Nobody
SPECIFICATION FairSpec
INVARIANTS
    TypeOK
    FrameDataExclusive
    FrameWorkOnce
    NoCallOnDeletedObject
    NoDuplicateDelegate
    NoWorkAfterRun
PROPERTIES
    FrameCompletes
    ShutdownCompletes
    ImplementsFrameWork

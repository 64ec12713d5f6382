CONSTANTS
    Objects = {a, b, r}
    RtObjects = {r}
    NULL = NULL
    Watched = {a}
    Intervals = {1, 2}
    FrameTimes = {0, 2}
    MaxLate = 2
    MaxOps = 6
SPECIFICATION Spec
INVARIANTS
    TypeOK
    TouchesOnlyLiving
    OnePlace
    RealtimeServed
PROPERTIES
    ImplementsScheduledSet

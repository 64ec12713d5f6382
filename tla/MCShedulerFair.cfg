CONSTANTS
    Objects = {a, b, c, d}
    RtObjects = {}
    NULL = NULL
    Watched = {a}
    Intervals = {1}
    FrameTimes = {2}
    MaxLate = 5
    MaxOps = 4
SPECIFICATION FairSpec
PROPERTIES
    NoStarvation

SPECIFICATION Spec
CONSTANTS
    Objects = {o1, o2, o3}
    Ids <- MCIds
    NULL = NULL
    MaxCounter = 2
    MaxOps = 4
SYMMETRY Symmetry
INVARIANTS
    NoDanglingParent
    MarkedQueued
PROPERTIES
    ParentsUpdateFirst
CHECK_DEADLOCK TRUE

SPECIFICATION Spec
CONSTANTS
    Objects = {o1, o2, o3}
    Ids <- MCIds
    NULL = NULL
    MaxCounter = 2
    MaxOps = 4
SYMMETRY Symmetry
PROPERTIES
    EveryCrowUpdated
CHECK_DEADLOCK TRUE

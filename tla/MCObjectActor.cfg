SPECIFICATION Spec
CONSTANTS
    Objects = {o1, o2}
    Ids <- MCIds
    NULL = NULL
    MaxCounter = 2
    MaxOps = 2
SYMMETRY Symmetry
INVARIANTS
    ActorFindable
CHECK_DEADLOCK TRUE

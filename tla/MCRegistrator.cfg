SPECIFICATION Spec
CONSTANTS
    level = level
    hud = hud
    console = console
    cursor = cursor
    Handlers <- MCHandlers
    Prio <- MCPrio
    MaxLen = 4
INVARIANTS
    TypeOK
    OneEntry
    SortedBetweenPasses
PROPERTIES
    CalledWhileRegistered
    EachCalledOnce
    HigherFirst

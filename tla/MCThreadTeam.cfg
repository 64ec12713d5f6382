SPECIFICATION FairSpec
CONSTANTS
    Threads = 3
    Counts <- MCCounts
CHECK_DEADLOCK FALSE
INVARIANTS
    TypeOK
    EachParticleOnce
    NoLateWork
PROPERTIES
    CallReturns

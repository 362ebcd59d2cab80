SPECIFICATION FairSpec
CONSTANTS
    None = None
    IdleTimeout = 1
    MaxLifetime = 2
    MaxTime = 4
INVARIANTS
    TypeOK
    GateShut
PROPERTIES
    LifetimeCloses
    IdleExpires
    CountedExecSpared

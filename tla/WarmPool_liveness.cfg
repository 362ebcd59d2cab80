SPECIFICATION FairSpec
CONSTANTS
    Callers = {c1}
    Workers = {w1, w2, w3}
    Slots = {s1, s2}
    Ranges = {}
    NoRange = NoRange
    MaxFillThreads = 2
    InitTarget = 2
    ResizeTargets = {1, 2}
    MaxBackoff = 1
    MaxKillFailures = 0
INVARIANTS
    TypeOK
PROPERTIES
    DeficitHandedOver
    DropTerminates
    PoolServes

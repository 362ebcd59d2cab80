SPECIFICATION Spec
CONSTANTS
    Callers = {c1, c2}
    Workers = {w1, w2, w3}
    Slots = {s1, s2, s3}
    Ranges = {r1, r2, r3}
    NoRange = NoRange
    MaxFillThreads = 2
    InitTarget = 3
    ResizeTargets = {1, 3}
    MaxBackoff = 1
    MaxKillFailures = 1
SYMMETRY Symmetry
INVARIANTS
    SlotOwnership
    LedgerBalance
    DropComplete
    CpusetExclusive
    CpusetConserved
    FillingExact

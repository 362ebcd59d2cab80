SPECIFICATION Spec
CONSTANTS
    d1 = d1  d2 = d2  b1 = b1  b2 = b2  t1 = t1  t2 = t2
    Digests = {d1, d2}
    Vms = {v1}
    Layer <- MCLayer
    Builders = {b1, b2}
    Builds <- MCBuilds
    Base <- MCBase
    Removers = {t2}
    Operators = {d1}
    Capacity = 1
    MaxCrashes = 1
INVARIANTS
    
    TemplateImageStays
CONSTRAINT
    StopAtLoss

SPECIFICATION Spec
CONSTANTS
    Vms = {v1, v2}
    Procs = {p1, p2}
    Addrs = {a1, a2}
    None = None
    MaxCrashes = 1
    MaxFailures = 1
SYMMETRY Symmetry
INVARIANTS
    TypeOK
    AddressUnique
    
    
    

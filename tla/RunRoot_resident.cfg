SPECIFICATION FairSpec
CONSTANTS
    Handles = {h1, h2}
    Procs = {p1, p2, p3}
    None = None
    MaxVms = 2
    CgroupV2 = TRUE
    Systemd = TRUE
    Overlap = FALSE
    SharedId = FALSE
    ExplicitRecovery = FALSE
    ForceRecovery = FALSE
    MaxFailures = 1
INVARIANTS
    TypeOK
    
    LeafSingle
    RecoveryKeepsEvidence
    
    
PROPERTIES
    OrphanReaped

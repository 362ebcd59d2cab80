SPECIFICATION Spec
CONSTANTS
    Handles = {h1, h2}
    Procs = {p1}
    None = None
    MaxVms = 2
    CgroupV2 = TRUE
    Systemd = FALSE
    Overlap = FALSE
    SharedId = TRUE
    ExplicitRecovery = TRUE
    ForceRecovery = TRUE
    MaxFailures = 1
SYMMETRY Symmetry
INVARIANTS
    PermitsExact

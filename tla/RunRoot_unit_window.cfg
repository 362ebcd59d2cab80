SPECIFICATION Spec
CONSTANTS
    Handles = {h1, h2}
    Procs = {p1, p2}
    None = None
    MaxVms = 2
    CgroupV2 = TRUE
    Systemd = TRUE
    Overlap = FALSE
    SharedId = FALSE
    ExplicitRecovery = FALSE
    ForceRecovery = FALSE
    MaxFailures = 0
SYMMETRY Symmetry
PROPERTIES
    MarkerClosesWindow

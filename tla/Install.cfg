SPECIFICATION Spec
CONSTANTS
    Installers = {i1, i2, i3}
    MaxTag = 2
    Official = {i1, i2}
    Repairers = {i2}
    Adopters = {i1}
    CleanupAlone = TRUE
    MaxDeaths = 1
INVARIANTS
    TypeOK
    OneWriter
    ActiveComplete
    SuccessMeansSelected
    

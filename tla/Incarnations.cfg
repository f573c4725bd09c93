SPECIFICATION Spec
CONSTANTS
    Targets = {t1}
    ClusterTargets = {}
    OtherNamespace = {}
    Names = {n1, n2}
    MaxUID = 2
    NoReservation = TRUE
    RestartAlways = FALSE
    Faults = {"deleteProxy", "recreate", "feedbackLag", "apiError"}
    MaxMishaps = 1
    None = None
SYMMETRY NameSymmetry

    
PROPERTIES
    NoLostUpdate
    ImplementsDelegation

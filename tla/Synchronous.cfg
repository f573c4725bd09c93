SPECIFICATION FairSpec
CONSTANTS
    Targets = {t1, t2, t3}
    ClusterTargets = {}
    OtherNamespace = {t3}
    Names = {n1}
    MaxUID = 1
    NoReservation = FALSE
    RestartAlways = FALSE
    Faults = {}
    MaxMishaps = 0
    None = None
PROPERTIES
    EventuallyBound

SPECIFICATION FairSpec
CONSTANTS
    Targets = {t1, t2}
    ClusterTargets = {t2}
    OtherNamespace = {}
    Names = {n1}
    MaxUID = 1
    NoReservation = TRUE
    RestartAlways = FALSE
    Faults = {"deleteProxy", "evict", "deleteChaperon", "annotate", "crash", "unschedulable"}
    MaxMishaps = 1
    None = None
PROPERTIES
    
    OrphansCollected
    LossDeletesProxy
    DelegateMirrored

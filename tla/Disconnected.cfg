SPECIFICATION DisconnectedSpec
CONSTANTS
    Targets = {t1}
    ClusterTargets = {}
    OtherNamespace = {}
    Names = {n1}
    MaxUID = 1
    NoReservation = FALSE
    RestartAlways = TRUE
    Faults = {"evict", "timeout", "chaperonLag", "crash", "lateCreate", "bindFail", "unschedulable"}
    MaxMishaps = 1
    None = None
PROPERTIES
    AllowedIsKept
    PodReplaced

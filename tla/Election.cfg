SPECIFICATION FairSpec
CONSTANTS
    Targets = {t1, t2}
    ClusterTargets = {}
    OtherNamespace = {}
    Names = {n1}
    MaxUID = 1
    NoReservation = FALSE
    RestartAlways = FALSE
    Faults = {"timeout", "apiError"}
    MaxMishaps = 0
    None = None
INVARIANTS
    TypeOK
    BoundOnlyIfAllowed
    ProxyFollowsDelegate
PROPERTIES
    FailureForgotten
    LosersDeleted

SPECIFICATION MCSpec
CHECK_DEADLOCK FALSE
CONSTANTS
    Targets = {t1, t2}
    Selectors <- TwoLabels
    ProxyLabels <- OnePod
    NoPrefix = {}
    Merging = FALSE
    MaxEdits = 1
    MaxMishaps = 1
    None = None
INVARIANTS
    IngressesTypeOK
    RerouteFaithful
PROPERTIES
    CopiesHeld
    
    ServiceFollowed
    IngressFollowed
    Cleared

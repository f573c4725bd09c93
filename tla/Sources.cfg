SPECIFICATION FairSpec
CONSTANTS
    Words = {"source", "cluster-source", "viewer", "a", "b"}
    Short = 3
    Long = 5
    Keys <- Both
    Declared <- OneSource
    UserMade <- Both
    Users = {u}
    MaxEdits = 2
    MaxMishaps = 1
    None = None
CHECK_DEADLOCK FALSE
INVARIANTS
    OwnSubjects
PROPERTIES
    AccessGranted
    AccessRevoked

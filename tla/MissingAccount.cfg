SPECIFICATION FairSpec
CONSTANTS
    Words = {"source", "cluster-source", "viewer", "a", "b"}
    Short = 3
    Long = 5
    Keys <- OneClusterSource
    Declared = {}
    UserMade = {}
    Users = {u}
    MaxEdits = 1
    MaxMishaps = 1
    None = None
CHECK_DEADLOCK FALSE
PROPERTIES
    AccountsMade

SPECIFICATION FairSpec
CHECK_DEADLOCK FALSE
CONSTANTS
    a = a
    b = b
    n1 = n1
    n2 = n2
    Clusters = {a, b}
    Links <- MutualLinks
    RealNodes <- ThreeNodes
    Zones = {z1, z2, z3}
    Excluded = {z3}
    Sizes = {s1, s2}
    Supporting = {a}
    MaxEdits = 1
    MaxMishaps = 1
    None = None
INVARIANTS
    NoInflation
    StatusAccepted
PROPERTIES
    Advertised

SPECIFICATION FairSpec
CONSTANTS
    Words = {"admiralty", "a", "b"}
    Short = 3
    Long = 4
    Keys <- Both
    Lasting <- One
    Deployments = {manager, scheduler}
    NewValues = TRUE
    MaxEdits = 2
    MaxMishaps = 1
    None = None
INVARIANTS
    TypeOK
    NamesDistinct
    

    

SPECIFICATION FairFollowSpec
CONSTANTS
    Targets = {t1, t2}
    MaxUID = 1
    MaxEdits = 1
    MaxMishaps = 1
    None = None
INVARIANTS
    FollowTypeOK
    FinalizerHolds
PROPERTIES
    HeldWhenCopied
    OriginalKept
    DeletionCompletes
    CopiesCollected
    Followed
    UnknownRemoved

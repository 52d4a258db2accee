CONSTANTS
    c1 = c1  c2 = c2
    t1 = t1  t2 = t2
    f1 = f1  f2 = f2  f3 = f3  f4 = f4
    None = None
    Chunks <- TwoChunks
    Closers <- TwoClosers
    Expected <- ClientContents
    Files <- FourFiles
SPECIFICATION Spec
SYMMETRY MCSymmetry
INVARIANTS
    TypeOK
    OneOwner
    OnlyVerifiedTouches
    AbortLeavesDest
    TotalWithinTemp
    QuietDelivery
    OnlyStragglersTouch
    FailureLosesNothing
PROPERTY CreateKeepsDest
CHECK_DEADLOCK FALSE

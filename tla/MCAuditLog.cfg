CONSTANTS
    s1 = s1
    s2 = s2
    Servers <- OneServer
    TailLines = 2
    MaxRecords = 4
SPECIFICATION Spec
INVARIANTS
    ChainLinked
    ErasedTrailVisible
    TipKnown
CHECK_DEADLOCK FALSE

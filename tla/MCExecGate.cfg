CONSTANTS
    Limits <- OffOneTwo
    Window = 2
    MaxTime = 4
    MaxOps = 5
    Words <- MCWords
    BaseNames <- MCBaseNames
    Options <- MCOptions
    Assignments <- MCAssignments
    Recursive <- MCRecursive
    Forced <- MCForced
    Formatters <- MCFormatters
    Trimmed <- MCTrimmed
    SshUnits <- MCSshUnits
    OnDevices <- MCOnDevices
    EndInSudo <- MCEndInSudo
    Commands <- MCCommands
    WrapperForms <- MCForms
    InputReaders <- MCReaders
SPECIFICATION GateSpec
INVARIANTS
    BurstBounded
    SentAsJudged
    FedSudoReads
    WrapperBlind
PROPERTY LimitSpec
CHECK_DEADLOCK FALSE

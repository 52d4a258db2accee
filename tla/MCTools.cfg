CONSTANTS
    c1 = c1
    c2 = c2
    AllowNames = {}
    AllowFolders = {"", "prod"}
    Sentinels = {"all_hosts", "*"}
    Within <- MCWithin
    Alike <- MCAlike
    Calls <- TwoCalls
    Documents <- MCDocuments
    References <- MCReferences
    None = None
    MaxUploads = 1
SYMMETRY Swapped
SPECIFICATION Spec
INVARIANTS
    AuditedOnce
    ApprovedTarget
    RefreshReaches
    NeverGuesses
CHECK_DEADLOCK FALSE

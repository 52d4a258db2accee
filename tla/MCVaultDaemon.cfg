CONSTANTS
    c1 = c1
    c2 = c2
    h1 = h1
    h2 = h2
    reload = reload
    Callers <- MCCallers
    Hosts <- MCHosts
    Reload <- reload
    MaxRespawns = 2
    Window = 2
    MaxCalls = 3
    MaxTime = 2
SPECIFICATION FairSpec
INVARIANTS
    SpawnBudget
    OneLiveDaemon
    InSync
    MisdeliveryTraced
PROPERTIES
    HealthyDaemonKept
    EveryCallReturns
CHECK_DEADLOCK FALSE

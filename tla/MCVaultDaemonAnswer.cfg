CONSTANTS
    c1 = c1
    c2 = c2
    h1 = h1
    h2 = h2
    reload = reload
    Callers <- MCCallers
    Hosts <- MCHosts
    Reload <- reload
    MaxRespawns = 3
    Window = 2
    MaxCalls = 3
    MaxTime = 0
SPECIFICATION Spec
INVARIANT AnswerMatchesRequest
CHECK_DEADLOCK FALSE

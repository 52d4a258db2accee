CONSTANTS
    c1 = c1
    c2 = c2
    c3 = c3
    c4 = c4
    p1 = p1
    p2 = p2
    h1 = h1
    h2 = h2
    k1 = k1
    k2 = k2
    None = None
    Checks <- FourChecks
    Processes <- TwoProcesses
    Hosts <- TwoHosts
    Keys <- TwoKeys
    ProcessOf <- ThreeInOne
    HostOf <- OneOther
    MaxFaults = 1
SYMMETRY Alike
SPECIFICATION Spec
INVARIANT AcceptedIsPinned
PROPERTY CompletePinStays
CHECK_DEADLOCK FALSE

CONSTANTS
    t1 = t1  t2 = t2  t3 = t3
    k1 = k1  k2 = k2  k3 = k3  k4 = k4
    k5 = k5  k6 = k6  k7 = k7
    l1 = l1  l2 = l2  l3 = l3
    None = None
    Tasks <- ThreeTasks
    Conns <- SevenConns
    Locks <- ThreeLocks
    MaxChannels = 1
    MaxFaults = 2
SPECIFICATION BoundedSpec
SYMMETRY MCSymmetry
INVARIANTS
    TypeOK
    SingleFlightWhenCalm
    ChannelCapWhenCalm
PROPERTY HealthyNotEvicted

SPECIFICATION FairSpec
CONSTANTS
    n1 = n1
    n2 = n2
    k1 = k1
    k2 = k2
    Pollers <- MCPollers
    Packages <- MCPackages
    MaxEntries = 3
    Limit = 1
    MaxFaults = 1
INVARIANT NothingSkipped
PROPERTY CatchesUp

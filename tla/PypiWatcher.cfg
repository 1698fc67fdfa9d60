SPECIFICATION Spec
CONSTANTS
    x1 = x1
    x2 = x2
    v1 = v1
    v2 = v2
    v3 = v3
    Other = Other
    Pollers <- MCPollers
    Releases <- MCReleases
    MaxEntries = 3
    MaxEvents = 1
    RssSize = 1
    MaxFaults = 1
SYMMETRY Symmetry
INVARIANTS TypeOK LossHasCause AtMostOnce
PROPERTY MovesBackByOverlap

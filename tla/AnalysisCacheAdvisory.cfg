SPECIFICATION Spec
CONSTANTS
    p1 = p1
    p2 = p2
    a1 = a1
    a2 = a2
    r1 = r1
    r2 = r2
    m1 = m1
    m2 = m2
    NoArchive = NoArchive
    Processes <- MCProcesses
    Archives <- MCArchives
    Rules <- MCRules
    Advisories <- MCSameSpelling
    SameSpelling <- MCSameSpelling
    Modes <- MCModes
    DayLength = 2
    TTL = 1
    MaxTime = 2
    MaxChanges = 1
    MaxCalls = 3
INVARIANT AdvisoryInvalidates

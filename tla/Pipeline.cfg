SPECIFICATION Spec
CHECK_DEADLOCK FALSE
CONSTANTS
    Similarities <- MCSimilarities
    NameSims <- MCNameSims
    Confidences <- MCConfidences
    MaxNear = 2
    MaxFindings = 1
    MaxMatches = 1
    MaxFaults = 1
    MaxCalls = 2
INVARIANTS
    TypeOK
    EvidenceDecides
    StoredIsComplete
    AgentsHeard
    RiskyUpdateReported

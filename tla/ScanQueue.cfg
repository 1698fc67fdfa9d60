SPECIFICATION Spec
CONSTANTS
    w1 = w1
    w2 = w2
    NoWorker = NoWorker
    Workers <- MCWorkers
    MaxRows = 2
    Priorities <- MCPriorities
    StuckAfter = 1
    MaxJobs = 2
    Loop = TRUE
    RestartClean = TRUE
    NumSinks = 2
    Verdicts <- MCVerdicts
    MaxCrashes = 1
SYMMETRY Symmetry
INVARIANTS
    ExclusiveUnlessReset
    AlertedBeforeOK
    DuplicateAlertHasFault
    OutcomeIffCompleted
PROPERTIES
    CompletedIsFinal
    KeepsLedger

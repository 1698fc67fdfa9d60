SPECIFICATION FairSpec
CONSTANTS
    w1 = w1
    w2 = w2
    NoWorker = NoWorker
    Workers <- MCWorkers
    MaxRows = 2
    Priorities = {0}
    StuckAfter = 1
    MaxJobs = 1
    Loop = FALSE
    RestartClean = TRUE
    NumSinks = 1
    Verdicts = {"MALICIOUS"}
    MaxCrashes = 1
PROPERTY EveryRowCompletes

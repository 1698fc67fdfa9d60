\* The bounds: two names, three files to import from, five statements in all.
SPECIFICATION Spec
CONSTANTS
    x = x
    y = y
    Vars <- MCVars
    Files <- MCFiles
    Analyses <- Analysis
    MaxLines = 5
    MaxArgs = 2
INVARIANTS LeaksAreReported FlowsWereReal
CHECK_DEADLOCK FALSE

SPECIFICATION Spec
CONSTANTS
    p1 = p1
    p2 = p2
    plain = plain
    risky = risky
    NoArchive = NoArchive
    Processes <- MCProcesses
    Archives <- MCArchives
    Contents <- MCContents
    MaxCalls = 2
    MaxEvents = 2
SYMMETRY Symmetry
CHECK_DEADLOCK FALSE
INVARIANTS ResultsAreOwn DiffAsIfFresh

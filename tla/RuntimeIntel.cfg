SPECIFICATION Spec
CONSTANTS
    h1 = h1
    h2 = h2
    p1 = p1
    p2 = p2
    r1 = r1
    r2 = r2
    a = a
    b = b
    NoPackage = NoPackage
    Handlers <- MCHandlers
    Processes <- MCProcesses
    ProcessOf <- MCProcessOf
    Requests <- MCRequests
    SentAt <- MCSentAt
    PackageOf <- MCPackageOf
    Iocs <- MCIocs
    IocsOf <- MCIocsOf
    ConfidenceOf <- MCConfidenceOf
    DraftsOf <- MCDraftsOf
    Window = 1
    NonceTTL = 1
    NonceMax = 1
    MinConfidence = 70
    Limit = 1
    MaxTime = 2
    MaxEvents = 3
SYMMETRY Symmetry
INVARIANTS TypeOK RowIsItsSources CountedUnlessOverlapped ApprovedIffDue DuplicateHasCause MissHasCause

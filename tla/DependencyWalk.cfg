\* The bounds: six names in three versions, depth two, three packages, two
\* projects one after the other, two failing requests, one version published or
\* withdrawn.
SPECIFICATION WalkSpec
CONSTANTS
    Names <- MCNames
    Versions <- MCVersions
    Projects <- MCProjects
    First <- MCFirst
    Requires <- MCRequires
    Affected <- MCAffected
    LookAlikes <- MCLookAlikes
    MaxDepth = 2
    MaxPackages = 3
    MaxGroupDepth = 10
    MaxFailures = 2
    MaxWalks = 2
    MaxPublished = 1
INVARIANTS WalkTypeOK AffectedIsReported BlameHasCause NearestFirst
CHECK_DEADLOCK FALSE

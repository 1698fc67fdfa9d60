SPECIFICATION FairSpec
CONSTANTS
    timer = timer
    hand = hand
    osv = osv
    list = list
    k1 = k1
    k2 = k2
    v1 = v1
    v2 = v2
    Refreshers <- MCRefreshers
    Timer <- timer
    Feeds <- MCFeeds
    Advisories <- MCAdvisories
    Dumps <- MCDumps
    Keys <- MCKeys
    Values <- MCValues
    Limit = 1
    MaxEntry = 2
    MaxRatio = 1
    MaxTotal = 3
    MaxCrashes = 1
    MaxManual = 1
INVARIANTS FeedTypeOK SkipHidesOnlyTheRefused
PROPERTY CatchesUp

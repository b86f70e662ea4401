SPECIFICATION PagesMCSpec
CONSTANTS
    a1 = a1
    a2 = a2
    a3 = a3
    Actors = {a1, a2, a3}
    Rank <- MCRank
    Inboxes = {}
    NoInbox = NoInbox
    MaxTime = 3
    MaxEvents = 3
    MaxRevision = 3
    DeadBefore = 2
    ReachabilityFreshness = 1
    FailureRetryMinimum = 1
    UnreachableRetry = 4
    HealthyThrough = 1
    StaleBefore = 2
    GraveyardAfter = 2
    PageLimit = 2
    ScanLimit = 3
    MaximumExportPages = 4
    MaximumExportRelays = 2
    MaxDisturbed = 1
INVARIANTS
    PageIsExact

SPECIFICATION MCSpec
CONSTANTS
    a1 = a1
    a2 = a2
    Actors = {a1, a2}
    Inboxes = {}
    NoInbox = NoInbox
    MaxTime = 5
    MaxEvents = 5
    MaxRevision = 9
    DeadBefore = 4
    ReachabilityFreshness = 1
    FailureRetryMinimum = 1
    UnreachableRetry = 3
    MaxCount <- WorkersCount
    Rank <- MCRank
    ReachabilityPage = 1
    ReachabilityBudget = 1
    PrunePage = 1
    PruneBudget = 2
INVARIANTS
    PruneIsExhaustive PagesAccepted
PROPERTIES
    PrunedOnFailedCheck WorkersReturn
CHECK_DEADLOCK FALSE

SPECIFICATION MCSpec
CONSTANTS
    a1 = a1
    a2 = a2
    Actors = {a1, a2}
    Inboxes = {}
    NoInbox = NoInbox
    MaxTime = 2
    MaxEvents = 4
    MaxRevision = 6
    DeadBefore = 1
    ReachabilityFreshness = 1
    FailureRetryMinimum = 1
    UnreachableRetry = 1
    MaxCount <- SingleCount
    Rank <- MCRank
    CandidatePage = 1
    CandidateBudget = 3
    CandidateRetry <- MCRetry
INVARIANTS
    FailureContained
CHECK_DEADLOCK FALSE

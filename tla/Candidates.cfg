SPECIFICATION MCSpec
CONSTANTS
    a1 = a1
    a2 = a2
    Actors = {a1, a2}
    Inboxes = {}
    NoInbox = NoInbox
    MaxTime = 3
    MaxEvents = 4
    MaxRevision = 6
    DeadBefore = 1
    ReachabilityFreshness = 1
    FailureRetryMinimum = 1
    UnreachableRetry = 1
    MaxCount <- PassCount
    Rank <- MCRank
    CandidatePage = 1
    CandidateBudget = 3
    CandidateRetry <- MCRetry
INVARIANTS
    CandidateChecks ResolutionAudited ScanIsExhaustive
PROPERTIES
    ScanReturns
CHECK_DEADLOCK FALSE

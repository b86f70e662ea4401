SPECIFICATION MCSpec
CONSTANTS
    a1 = a1
    a2 = a2
    Actors = {a1, a2}
    Inboxes = {i1}
    NoInbox = NoInbox
    MaxTime = 2
    MaxEvents = 4
    MaxRevision = 6
    DeadBefore = 1
    ReachabilityFreshness = 1
    FailureRetryMinimum = 1
    UnreachableRetry = 1
    MaxInterference = 2
    Runs = {r1, r2}
    Rank <- MCRank
    PageLimit = 1
    MaxAttempts = 3
    RetentionTime = 1
INVARIANTS
    CompletedIsExhaustive DeletionsCheckpointed NeverRefusesItself
PROPERTIES
    PurgeSparesChanged RunReturns
CHECK_DEADLOCK FALSE

SPECIFICATION MCSpec
CONSTANTS
    a1 = a1
    k1 = k1
    f1 = f1
    v1 = v1
    v2 = v2
    v3 = v3
    Actors = {a1}
    Inboxes = {}
    NoInbox = NoInbox
    MaxTime = 3
    MaxEvents = 4
    MaxRevision = 6
    DeadBefore = 1
    ReachabilityFreshness = 1
    FailureRetryMinimum = 1
    UnreachableRetry = 1
    Fields = {f1}
    Values = {v1, v2, v3}
    Oversized = {v3}
    NoValue = NoValue
    Labels = {csv}
    NoLabel = NoLabel
    MaxClaims = 4
    Handlers = {h1, h2}
    NoMessage = NoMessage
    Messages <- RequestMessages
    ReplayKeys = {k1}
    MaximumAge = 1
    FutureSkew = 1
    MaximumLifetime = 1
    ReplayTTL = 3
    Delay = 1
    CleanupBatch = 1
    MaxCount <- RequestCount
INVARIANTS
    AtMostOnce AnswerMatchesWork ProfilesConsistent
PROPERTIES
    PermitsReturned
CHECK_DEADLOCK FALSE

SPECIFICATION LifecycleSpec
CONSTANTS
    Actors = {a1}
    Inboxes = {i1}
    NoInbox = NoInbox
    MaxTime = 3
    MaxEvents = 4
    MaxRevision = 5
    DeadBefore = 1
    ReachabilityFreshness = 1
    FailureRetryMinimum = 1
    UnreachableRetry = 4
    HealthyThrough = 0
    StaleBefore = 1
    GraveyardAfter = 2
INVARIANTS
    TypeOK SchemaChecks AuditChronological LifecycleAudited SuspensionNotShed PrunedWasDead EvidenceBacked
PROPERTIES
    SuspendedIsFrozen
CHECK_DEADLOCK FALSE

SPECIFICATION EvidenceSpec
CONSTANTS
    Actors = {a1}
    Inboxes = {i1}
    NoInbox = NoInbox
    MaxTime = 2
    MaxEvents = 3
    MaxRevision = 3
    DeadBefore = 1
    ReachabilityFreshness = 1
    FailureRetryMinimum = 1
    UnreachableRetry = 4
    HealthyThrough = 0
    StaleBefore = 1
    GraveyardAfter = 1
INVARIANTS
    SchemaChecks CandidatePageReadable NoOrphanObservation DirectoryAgrees
PROPERTIES
    EvidenceNeverRegresses
CHECK_DEADLOCK FALSE

SPECIFICATION LimiterSpec
CONSTANTS
    Operations = {register}
    Sources = {s1, s2}
    RelayActors = {a1}
    Permits = {p1, p2, p3}
    SourceBurst = 2
    SourceInterval = 2
    ActorBurst = 1
    ActorInterval = 3
    MaxSources = 1
    MaxActors = 1
    MaxConcurrent = 2
    IdleTTL = 4
    CleanupLimit = 1
    OverloadRetryAfter = 1
    MaxTime = 7
INVARIANTS
    PermitsConserved CapacityFair
PROPERTIES
    Metered
SYMMETRY MCSymmetry
CHECK_DEADLOCK FALSE

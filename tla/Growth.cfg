SPECIFICATION MCSpec
CONSTANTS
    Server = Server
    Commands = {c1}
    Pressures = {60, 96, 100}
    EmailSettings = {TRUE, FALSE}
    Warning = 75
    Reminder = 1
    RetryDelay <- MCRetryDelay
    MaxTime = 1
    MaxOpens = 3
    MaxResizes = 1
INVARIANTS
    AlertsTrackState GrowthRowChecks
PROPERTIES
    AdmissionFresh
CHECK_DEADLOCK FALSE

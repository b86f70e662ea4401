SPECIFICATION MCSpec
CONSTANTS
    Server = Server
    Commands = {c1}
    Pressures = {60, 96, 100}
    EmailSettings = {TRUE}
    Warning = 75
    Reminder = 2
    RetryDelay <- MCRetryDelay
    MaxTime = 1
    MaxOpens = 3
    MaxResizes = 3
PROPERTIES
    ReminderSuppressed
CHECK_DEADLOCK FALSE

\* Three nodes, all in time: an expiry pass meets a takeover.
CONSTANTS
    n1 = n1
    n2 = n2
    n3 = n3
    NoTask = NoTask
    NoRunner = NoRunner
    Runners = {n1, n2, n3}
    Immortal = {}
    MaxTasks = 1
    LegacyTasks = 0
    TTL = 1
    Timely = TRUE
    ShortClaims = TRUE
    MayFail = FALSE
SPECIFICATION Spec
PROPERTY LiveRunsNotExpired
CHECK_DEADLOCK FALSE

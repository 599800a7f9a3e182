\* One node survives, no statement fails, claims are shorter than the lease.
CONSTANTS
    n1 = n1
    n2 = n2
    n3 = n3
    NoTask = NoTask
    NoRunner = NoRunner
    Runners = {n1, n2}
    Immortal = {n2}
    MaxTasks = 2
    LegacyTasks = 0
    TTL = 2
    Timely = TRUE
    ShortClaims = TRUE
    MayFail = FALSE
SPECIFICATION Spec
PROPERTY EveryTaskEnds
CHECK_DEADLOCK FALSE

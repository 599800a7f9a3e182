\* Any node may crash, any statement may fail, claims may be slow; a holder of the
\* lease that runs its handler renews in time (ExecutedOnce and OutcomeIsFinal are proved without that).
CONSTANTS
    n1 = n1
    n2 = n2
    n3 = n3
    NoTask = NoTask
    NoRunner = NoRunner
    Runners = {n1, n2}
    Immortal = {}
    MaxTasks = 2
    LegacyTasks = 1
    TTL = 2
    Timely = TRUE
    ShortClaims = FALSE
    MayFail = TRUE
SPECIFICATION Spec
INVARIANTS TypeOK ExecutedOnce OneRunAtATime
PROPERTY OutcomeIsFinal
CHECK_DEADLOCK FALSE

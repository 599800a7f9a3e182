\* One polling pass at a time over every kind of task, and a user who looks at it;
\* the upstream may answer anything, take answers back or stay silent.
SPECIFICATION FairSpec
CONSTANTS
    Tasks = {t1}
    Pollers = {p1}
    Fetchers = {u1, u2}
    Profiles <- MCEveryKind
    ActualQuotas = {0, 1, 3}
    Stable = FALSE
    SweepEnabled = TRUE
    Faults = {}
PROPERTIES TaskEnds
CHECK_DEADLOCK FALSE

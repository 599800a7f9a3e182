SPECIFICATION Spec
CONSTANTS
    Tasks = {t1}
    Pollers = {p1}
    Fetchers = {u1}
    Profiles <- MCRealtime
    ActualQuotas = {0, 1, 3}
    Stable = TRUE
    SweepEnabled = TRUE
    Faults = {}
INVARIANTS FailedRefunded
CHECK_DEADLOCK FALSE

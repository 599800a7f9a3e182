\* Two overlapping polling passes over every kind of video task, with storage
\* errors, crashes and deleted channels.
SPECIFICATION Spec
CONSTANTS
    Tasks = {t1}
    Pollers = {p1, p2}
    Fetchers = {}
    Profiles <- MCVideo
    ActualQuotas = {0, 1, 2, 3}
    Stable = FALSE
    SweepEnabled = TRUE
    Faults = {"op", "crash", "channel"}
INVARIANTS TypeOK NeverOverRefunded BooksClose OneBiller
PROPERTIES FailureIsFinal
CHECK_DEADLOCK FALSE

SPECIFICATION FairSpec
CONSTANTS
    MaxRequests = 2
    BusyEdits = FALSE
INVARIANTS TypeOK OwnAnswer PendingIsLive
PROPERTIES FinalStays GenerationEnds
CHECK_DEADLOCK FALSE

SPECIFICATION FairSpec
CONSTANTS
    MaxRetries = 3
    MaxWindows = 2
    EarlyActivate = FALSE
INVARIANTS TypeOK NoOrphan ProbesBounded WindowReachable
PROPERTIES ClosesToTray QuitEnds StartupEnds
CHECK_DEADLOCK FALSE

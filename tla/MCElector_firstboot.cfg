SPECIFICATION Spec
CONSTANTS
    N = 3
    LacksConn = {1}
    LacksMon = {0}
    Synchronous = FALSE
    ElectionTimeout = 2
    FirstBoot = TRUE
    MaxQueue = 2
    MaxEpoch = 4
    MaxCrash = 0
    MaxBootstrap = 0
    MaxExit = 0
    MaxFaults = 0
INVARIANT LackingNeverLeads
CHECK_DEADLOCK FALSE

SPECIFICATION FairSpec
CONSTANTS
    N = 3
    LacksConn = {}
    LacksMon = {}
    Synchronous = TRUE
    ElectionTimeout = 2
    FirstBoot = FALSE
    MaxQueue = 4
    MaxEpoch = 30
    MaxCrash = 1
    MaxBootstrap = 0
    MaxExit = 1
    MaxFaults = 1
PROPERTY QuorumForms
CHECK_DEADLOCK FALSE

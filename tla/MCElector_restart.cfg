SPECIFICATION Spec
CONSTANTS
    N = 3
    LacksConn = {}
    LacksMon = {}
    Synchronous = FALSE
    ElectionTimeout = 2
    FirstBoot = FALSE
    MaxQueue = 2
    MaxEpoch = 5
    MaxCrash = 1
    MaxBootstrap = 1
    MaxExit = 1
    MaxFaults = 1
INVARIANTS AssertsHold ElectingHasTimer UniqueEffectiveLeader
PROPERTY ImplementsElection
CHECK_DEADLOCK FALSE

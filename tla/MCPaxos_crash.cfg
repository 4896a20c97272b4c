SPECIFICATION FairSpec
CONSTANTS
    N = 3
    paxos_min = 3
    paxos_trim_min = 0
    paxos_trim_max = 1
    MaxVersion = 2
    MaxEpoch = 4
    MaxCrash = 1
    MaxRenew = 0
INVARIANTS AssertsHold VersionsHold WaitsAreTimed DurableOnMajority ReadsAreCurrent
PROPERTIES ImplementsLog QuorumSettles
CHECK_DEADLOCK FALSE

SPECIFICATION FiveSpec
CONSTANTS
    N = 5
    paxos_min = 3
    paxos_trim_min = 0
    paxos_trim_max = 1
    MaxVersion = 1
    MaxEpoch = 10
    MaxCrash = 2
    MaxRenew = 0
INVARIANTS CopiesAgree
CHECK_DEADLOCK FALSE

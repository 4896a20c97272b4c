SPECIFICATION Spec
CONSTANTS
    N = 3
    paxos_min = 0
    paxos_trim_min = 0
    paxos_trim_max = 1
    MaxVersion = 3
    MaxEpoch = 6
    MaxCrash = 0
    MaxRenew = 1
CONSTRAINT Scope
INVARIANTS DurableOnMajority ReadsAreCurrent
PROPERTY ImplementsLog
CHECK_DEADLOCK FALSE

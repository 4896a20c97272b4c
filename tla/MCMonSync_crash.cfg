SPECIFICATION Spec
CONSTANTS
    m1 = m1
    m2 = m2
    m3 = m3
    NoMon = NoMon
    Mon = {m1, m2, m3}
    Keys = 2
    MaxVersion = 5
    MaxFaults = 1
    Crashers = {m1, m3}
    MaxReplies = 1
    Forced = {m3}
    Drift = 1
    InitLog <- TrimmedLog
    InitLast <- Behind
    InitQuorum = {m1, m2}
INVARIANTS AssertsHold WholeOrMarked LatestOnMajority
PROPERTIES NeverForgets AllReturn
CHECK_DEADLOCK FALSE

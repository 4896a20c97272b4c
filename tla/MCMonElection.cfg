SPECIFICATION ElectionSpec
CONSTANTS
    N = 3
    MaxEpoch = 6
INVARIANTS ElectionTypeOK OneAllegiance UniqueEffectiveLeader OldQuorumBroken
CHECK_DEADLOCK FALSE

SPECIFICATION Spec
CONSTANTS
    Item = {1, 2, 3}
    MaxPrio = 1
    Context <- MCContext
    Null = Null
    MaxRequests = 3
    Limits = {1, 2}
INVARIANTS Indexed Settled OneOwner CallersAreTold
CHECK_DEADLOCK FALSE

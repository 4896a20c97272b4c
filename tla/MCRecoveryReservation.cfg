SPECIFICATION Spec
CONSTANTS
    Item = {1, 2}
    MaxPrio = 2
    Context <- MCContext
    Null = Null
    OSD = {0, 1, 2, 3}
    Layouts <- MCLayouts
    MaxBackfills = 1
    MaxInterval = 2
    MaxScans = 2
    MaxFull = 1
INVARIANTS NoCrash NoLeak GrantsAreReal
CHECK_DEADLOCK FALSE
PROPERTY AllClean

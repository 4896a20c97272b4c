SPECIFICATION Spec
CONSTANTS
    Item = {1, 2}
    MaxPrio = 2
    Context <- MCContext
    Null = Null
    OSD = {0, 1, 2, 3}
    Layouts <- ScannedLayouts
    MaxBackfills = 1
    MaxInterval = 2
    MaxScans = 2
    MaxFull = 1
INVARIANT NoCrash
CHECK_DEADLOCK FALSE

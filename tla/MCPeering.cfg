SPECIFICATION Spec
CONSTANTS
    OSD = {0, 1, 2}
    Size = 2
    Scenarios <- Clusters
INVARIANTS TypeOK AckedSurvive LesReflectsWrites NeverIncomplete LogsAgree AssertsHold NeverStuck
CHECK_DEADLOCK FALSE

SPECIFICATION Spec
CONSTANTS
    Null = Null
    Minutes = {1, 2}
    DiskFails = FALSE
    Horizon = 2
    MaxQuiets = 1
    MaxRests = 1
    EventTypes = {"DOOR_OPENED", "ALARM_ON", "WATER_LEAK", "REMOTE_ARMED", "REMOTE_DISARMED"}
    WindowMs = 2
    MaxEvents = 3
INVARIANTS
    OnlyTheOpenWindowFlushes
    NoStaleReport
PROPERTIES
    QuietIsRespected
    NothingLostOutsideQuiet
    WindowRunsItsCourse
    WindowCloses
    IncidentsAreToldInOrder

SPECIFICATION PipelineSpec
CONSTANTS
    Null = Null
    Minutes = {2}
    DiskFails = FALSE
    Horizon = 1
    MaxQuiets = 0
    MaxRests = 0
    EventTypes = {"DOOR_OPENED", "ALARM_ON", "BATTERY_LOW", "REMOTE_DISARMED", "UNKNOWN_EVENT"}
    WindowMs = 2
    MaxEvents = 4
    Registry <- MCRegistry
    DeviceReports <- MCReports
    DedupTTL = 1
    RedeliverFor = 1
    MaxMessages = 2
    MaxDeliveries = 2
INVARIANTS
    ProcessedOnceInOrder
PROPERTIES
    EveryMessageIsSettled

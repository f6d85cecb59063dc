SPECIFICATION BatterySpec
CONSTANTS
    Null = Null
    Minutes = {1}
    DiskFails = FALSE
    Horizon = 2
    MaxQuiets = 1
    MaxRests = 1
    EventTypes = {"DOOR_OPENED", "BATTERY_LOW"}
    WindowMs = 1
    MaxEvents = 4
    MaxBatteries = 2
PROPERTY SuppressedAlertsAreNotSpent

SPECIFICATION HouseSpec
CONSTANTS
    Null = Null
    Minutes = {1}
    DiskFails = FALSE
    Horizon = 1
    MaxQuiets = 0
    MaxRests = 0
    AutomationConfigured = TRUE
    MaxCommands = 1
    MaxBoots = 1
PROPERTY RecoveryNeverSilencesAnArmedHouse
CHECK_DEADLOCK FALSE

SPECIFICATION HouseSpec
CONSTANTS
    Null = Null
    Minutes = {1}
    DiskFails = FALSE
    Horizon = 1
    MaxQuiets = 1
    MaxRests = 0
    AutomationConfigured = TRUE
    MaxCommands = 3
    MaxBoots = 2
INVARIANTS
    ModeAgreesWithTuya
    ArmedMeansAlerting
PROPERTIES
    RestartNoticeIsTrue
    RestartDoesNotGoUnnoticed
CHECK_DEADLOCK FALSE

SPECIFICATION QuotaSpec
CONSTANTS
    Null = Null
    Minutes = {1}
    DiskFails = FALSE
    Horizon = 1
    MaxQuiets = 0
    MaxRests = 1
    Roles = {"prod", "dr"}
    FirstRole = "prod"
    QuotaLimit = 4
    Usages = {0, 2}
    WarnAt = 1
    MaxPushes = 2
    MaxSwitches = 1
    MaxMonths = 2
INVARIANTS
    NoPushGoesUnchecked
    OnlySpentBotsAreMarkedInTime
PROPERTIES
    WarnedOnceAMonth
    ChecksEnd
CHECK_DEADLOCK FALSE

SPECIFICATION SchedulersSpec
CONSTANTS
    Null = Null
    Minutes = {1}
    DiskFails = FALSE
    StateFails = TRUE
    Horizon = 7
    MaxQuiets = 0
    MaxRests = 1
    Day = 2
    ReportAt = 1
    Devices = {"gateway"}
    MaxFaults = 1
    MaxToggles = 1
    MaxFlips = 1
    MaxBoots = 1
INVARIANTS
    GroupKnowsWhatIsKnown
PROPERTIES
    ReportedOnceADay
    OffMeansOff
    OutageIsAnnounced
    ReportGoesOn
CHECK_DEADLOCK FALSE

SPECIFICATION PromptSpec
CONSTANTS
    Null = Null
    Minutes = {1, 3}
    DiskFails = TRUE
    Horizon = 4
    MaxQuiets = 3
    MaxRests = 2
    Numbers = {0, 1, 3}
    PromptTTL = 2
INVARIANTS
    OnlyTheCurrentPeriodWakes
    MarkerTellsHowTheProcessDied
PROPERTIES
    WakesOnlyWhenQuietIsOver
    TimedQuietEnds
    NumbersAnswerTheQuestion

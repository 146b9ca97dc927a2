CONSTANTS
    Tables <- EverySecond
    Ticks = 2
    Starts = {0}
    MaxLate = 0
    Horizon = 120
    Today <- SomeDay
SPECIFICATION RecordSpec
CHECK_DEADLOCK FALSE
PROPERTIES
    PlansEverySecond

CONSTANTS
    Messages = {m1}
    NoMessage = NoMessage
    MinReconnect = 2
    MaxReconnect = 3
    MaxQueue = 1
    Nodes <- TwoNodes
    Periods <- SomePeriods
    MaxRecords = 3
    MaxQueued = 2
    Configured = {5}
    Unknown = {7}
    Reports <- SomeReports
    PacketLens = {6, 7, 52, 53}
    Tables <- SomeTables
    Ticks = 2
    Starts = {0, 31, 59, 90}
    MaxLate = 1
    Horizon = 240
    Today <- SomeDay
    MaxRounds = 2
    Values = {0, 258, 65535, 16909060}
    VmbusMessages <- SomeMessages
    FrameLens = {6, 7, 8, 52, 53}
SPECIFICATION ServicesSpec
CHECK_DEADLOCK FALSE
INVARIANTS
    FlagTellsConnection
    StopLeavesNoThread
    ReadsAsAsked
    ReportsAreServed
    FramesAreTrue
    RecordsAreRight
PROPERTIES
    Reconnects
    StopEnds
    MessageHasEffect
    FiresWhenDue

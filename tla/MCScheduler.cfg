CONSTANTS
    Handles = {h1, h2}
    Clients = {c1}
    NoHandle = NoHandle
    Plans <- AllPlans
    IdleWait = 2
    MaxTime = 2
SPECIFICATION FairSpec
CHECK_DEADLOCK FALSE
INVARIANTS
    WakesInTime
    TablesAgree
    OneShotFiresOnce
PROPERTIES
    RemovedIsNotPicked
    DueIsPicked
    StopEndsTimer

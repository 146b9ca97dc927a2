CONSTANTS
    Handles = {h1, h2}
    Clients = {c1}
    NoHandle = NoHandle
    Plans <- SoonPlans
    IdleWait = 2
    MaxTime = 3
SPECIFICATION Spec
CHECK_DEADLOCK FALSE
INVARIANTS
    NotBeforeItsTime

CONSTANTS
    Requesters = {sched, mq}
    Sched = sched
    NoOne = NoOne
    Worker = Worker
    Exclusive = TRUE
    Interface = TRUE
    AsyncDpa = FALSE
SPECIFICATION ShutdownSpec
CHECK_DEADLOCK FALSE
INVARIANTS
    StoppedServicesAreQuiet

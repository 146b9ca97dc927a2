CONSTANTS
    Requesters = {sched, mq}
    Sched = sched
    NoOne = NoOne
    Worker = Worker
    Exclusive = TRUE
    Interface = TRUE
    AsyncDpa = FALSE
SPECIFICATION FairShutdownSpec
CHECK_DEADLOCK FALSE
PROPERTIES
    EveryTransactionFinishes

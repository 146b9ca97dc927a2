CONSTANTS
    Requesters = {sched, mq}
    Sched = sched
    NoOne = NoOne
    Worker = Worker
    Exclusive = TRUE
    Interface = TRUE
    AsyncDpa = TRUE
SPECIFICATION FairShutdownSpec
CHECK_DEADLOCK FALSE
INVARIANTS
    SwitchesAgree
    LockedStaysSafe
    PendingIsQueuedOnce
    SchedulerLeavesServices
    NoRequesterAtDeletion
PROPERTIES
    AnswerTellsOfSwitch
    TransactionFinishes
    CommandAnswered
    ExitCompletes

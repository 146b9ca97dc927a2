------------------------------ MODULE Scheduler ------------------------------
(***************************************************************************)
(* src/daemon/Scheduler: clients plan records, the timer thread picks the  *)
(* records that are due and pushes copies of them to a TaskQueue, whose    *)
(* worker hands each to the handler of its client.                         *)
(*                                                                         *)
(* A critical section under m_scheduledTasksMutex is one step. The timer   *)
(* releases that mutex between picking a record and pushing its copy, and  *)
(* between two rounds of its loop; time passes and clients plan or remove  *)
(* there. The predicate m_scheduledTaskPushed is set and read under a      *)
(* mutex of its own: the wait is one step that is enabled when the flag is *)
(* set or the time has come.                                               *)
(*                                                                         *)
(* A record is planned for one time point ("at"), periodically, or by a    *)
(* time pattern ("cron"); of a pattern the module knows the distance of    *)
(* its seconds, and whether minute to year match is left open.             *)
(***************************************************************************)
EXTENDS Integers, Sequences, FiniteSets

CONSTANTS
    Handles,    \* task handles, each for at most one record of a behaviour
    Clients,    \* client identifications
    NoHandle,
    Plans,      \* what clients plan: [kind, delay, period]
    IdleWait,   \* what the timer adds to its time point when nothing is planned
    MaxTime     \* bound on the clock

Kind == {"at", "periodic", "cron"}
Plan == [kind : Kind, delay : Nat, period : Nat]

ASSUME SchedulerAssumption ==
    /\ NoHandle \notin Handles /\ Clients # {}
    /\ Plans \subseteq Plan
    /\ \A p \in Plans : p.kind = "cron" => p.period > 0
    /\ IdleWait \in Nat \ {0} /\ MaxTime \in Nat

Off == -1  \* a record that is not in m_scheduledTasksByTime

VARIABLES
    now,        \* the system clock
    record,     \* the ScheduleRecord of each handle, kind "none" before it exists
    byTime,     \* m_scheduledTasksByTime: when each record is due, or Off
    byHandle,   \* m_scheduledTasksByHandle
    pushed,     \* m_scheduledTaskPushed
    runTimer,   \* m_runTimerThread
    main,       \* where the thread is that calls start() and stop()
    timer,      \* where the timer thread is
    timePoint,  \* its variable timePoint: the actual time or the next wake-up
    timeStr,    \* its variable timeStr: the actual time
    hand,       \* the record it picked, and the time that one was due
    queue, current, running,  \* m_dpaTaskQueue
    registered, \* clients in m_messageHandlers
    removed,    \* history: removed by a client
    fired       \* history: how often each record was handed to the queue

runVars == <<runTimer, main>>
planVars == <<record, byTime, byHandle>>
timerVars == <<timer, timePoint, timeStr, hand>>
queueVars == <<queue, current, running>>
vars == <<now, planVars, pushed, runVars, timerVars, queueVars, registered, removed, fired>>

TaskQueue == INSTANCE TaskQueueAbs WITH Task <- Handles, NoTask <- NoHandle

NoRecord == [kind |-> "none", client |-> CHOOSE c \in Clients : TRUE, start |-> 0, period |-> 0]
NoHand == [handle |-> NoHandle, due |-> 0]

Planned(table) == {h \in Handles : table[h] # Off}
Earliest(table) ==
    {h \in Planned(table) : \A g \in Planned(table) : table[h] <= table[g]}

\* The constructor. updateConfiguration and the services plan before start().
Init ==
    /\ now = 0
    /\ record = [h \in Handles |-> NoRecord]
    /\ byTime = [h \in Handles |-> Off] /\ byHandle = {}
    /\ pushed = FALSE /\ runTimer = FALSE /\ main = "configure"
    /\ timer = "none" /\ timePoint = 0 /\ timeStr = 0 /\ hand = NoHand
    /\ TaskQueue!AbsInit
    /\ registered = {}
    /\ removed = {} /\ fired = [h \in Handles |-> 0]

Tick == now < MaxTime /\ now' = now + 1 /\ UNCHANGED
    <<planVars, pushed, runVars, timerVars, queueVars, registered, removed, fired>>

-----------------------------------------------------------------------------
(* Records.                                                                *)

\* ScheduleRecord::getNext of a record that has been asked before.
GetNext(r, tp, actual) ==
    CASE r.kind = "at" -> r.start
      [] r.kind = "cron" -> tp + (r.period - (actual % r.period))
      [] OTHER -> tp + r.period

\* The first answer of getNext: a periodic record begins at its start time.
FirstTime(r, actual) ==
    IF r.kind = "cron" THEN GetNext(r, actual, actual) ELSE r.start

\* ScheduleRecord::verifyTimePattern may refuse the actual time of a pattern.
TimePatternMatches(r) == IF r.kind = "cron" THEN BOOLEAN ELSE {TRUE}

\* Mutant: the timer thread is not notified.
MutantAddSilently(h, c, plan) ==
    /\ record[h] = NoRecord
    /\ LET r == [kind |-> plan.kind, client |-> c,
                 start |-> now + plan.delay, period |-> plan.period]
       IN  record' = [record EXCEPT ![h] = r] /\ byTime' = [byTime EXCEPT ![h] = FirstTime(r, now)]
    /\ byHandle' = byHandle \union {h}
    /\ UNCHANGED <<now, pushed, runVars, timerVars, queueVars, registered, removed, fired>>

\* scheduleTaskAt and scheduleTaskPeriodic, or a record of the configuration
\* (before start(), one after the other).
AddScheduleRecord(h, c, plan) ==
    /\ record[h] = NoRecord
    /\ LET r == [kind |-> plan.kind, client |-> c,
                 start |-> now + plan.delay, period |-> plan.period]
       IN  /\ record' = [record EXCEPT ![h] = r]
           /\ byTime' = [byTime EXCEPT ![h] = FirstTime(r, now)]
    /\ byHandle' = byHandle \union {h}
    /\ pushed' = TRUE
    /\ UNCHANGED <<now, runVars, timerVars, queueVars, registered, removed, fired>>

\* Mutant: the record stays in m_scheduledTasksByTime.
MutantRemoveByHandleOnly(h) ==
    /\ h \in byHandle
    /\ byHandle' = byHandle \ {h} /\ removed' = removed \union {h}
    /\ UNCHANGED <<now, record, byTime, pushed, runVars, timerVars, queueVars, registered, fired>>

\* removeTask of a record that exists and belongs to the client. removeTasks is
\* a sequence of these.
RemoveTask(h) ==
    /\ h \in byHandle
    /\ byTime' = [byTime EXCEPT ![h] = Off]
    /\ byHandle' = byHandle \ {h}
    /\ removed' = removed \union {h}
    /\ UNCHANGED <<now, record, pushed, runVars, timerVars, queueVars, registered, fired>>

\* getMyTasks and removeAllMyTasks go through m_scheduledTasksByTime only.
MyTasks(c) == {h \in Planned(byTime) : record[h].client = c}

RemoveAllMyTasks(c) ==
    /\ MyTasks(c) # {}
    /\ byTime' = [h \in Handles |-> IF h \in MyTasks(c) THEN Off ELSE byTime[h]]
    /\ byHandle' = byHandle \ MyTasks(c)
    /\ removed' = removed \union MyTasks(c)
    /\ UNCHANGED <<now, record, pushed, runVars, timerVars, queueVars, registered, fired>>

-----------------------------------------------------------------------------
(* start(), stop() and the timer thread.                                   *)

\* What was pushed so far is forgotten; the timer's first wait ends at once.
Start ==
    /\ main = "configure" /\ main' = "run"
    /\ pushed' = FALSE /\ runTimer' = TRUE
    /\ timer' = "start"
    /\ UNCHANGED <<now, planVars, timePoint, timeStr, hand, queueVars, registered,
                   removed, fired>>

StopTimer ==
    /\ main = "run" /\ main' = "notify"
    /\ runTimer' = FALSE
    /\ UNCHANGED <<now, planVars, pushed, timerVars, queueVars, registered, removed, fired>>

\* stop() wakes the timer, in whichever wait it is.
NotifyStop ==
    /\ main = "notify" /\ main' = "stopQueue"
    /\ pushed' = TRUE
    /\ UNCHANGED <<now, planVars, runTimer, timerVars, queueVars, registered, removed, fired>>

StopQueue ==
    /\ main = "stopQueue" /\ main' = "stopped"
    /\ TaskQueue!Stop
    /\ UNCHANGED <<now, planVars, pushed, runTimer, timerVars, registered, removed, fired>>

\* The first getTime, then the outer loop. timeStr is read again before use.
TimerStarts ==
    /\ timer = "start"
    /\ timePoint' = now
    /\ timer' = "test"
    /\ UNCHANGED <<now, planVars, pushed, runVars, timeStr, hand, queueVars, registered,
                   removed, fired>>

\* Mutant: the outer loop has no condition.
MutantLoopForever ==
    /\ timer = "test"
    /\ timer' = "wait"
    /\ UNCHANGED <<now, planVars, pushed, runVars, timePoint, timeStr, hand, queueVars,
                   registered, removed, fired>>

\* while (m_runTimerThread)
TimerTests ==
    /\ timer = "test"
    /\ timer' = IF runTimer THEN "wait" ELSE "done"
    /\ UNCHANGED <<now, planVars, pushed, runVars, timePoint, timeStr, hand, queueVars,
                   registered, removed, fired>>

\* nextWakeupAndUnlock
NextWakeup(table) ==
    \/ Planned(table) = {} /\ timePoint' = timePoint + IdleWait
    \/ \E h \in Earliest(table) : timePoint' = table[h]

\* Mutant: the wait has no timeout.
MutantWaitForPush ==
    /\ timer = "wait" /\ pushed
    /\ pushed' = FALSE /\ timer' = "getTime"
    /\ UNCHANGED <<now, planVars, runVars, timePoint, timeStr, hand, queueVars,
                   registered, removed, fired>>

\* The wait until timePoint or a push.
TimerWakes ==
    /\ timer = "wait"
    /\ pushed \/ now >= timePoint
    /\ pushed' = FALSE
    /\ timer' = "getTime"
    /\ UNCHANGED <<now, planVars, runVars, timePoint, timeStr, hand, queueVars,
                   registered, removed, fired>>

TimerGetsTime ==
    /\ timer = "getTime"
    /\ timePoint' = now /\ timeStr' = now
    /\ timer' = "loop"
    /\ UNCHANGED <<now, planVars, pushed, runVars, hand, queueVars, registered, removed, fired>>

\* Mutant: the next time is inserted again without a test.
MutantPickKeeps(h) ==
    /\ timer = "loop" /\ runTimer /\ h \in Earliest(byTime) /\ byTime[h] < timePoint
    /\ LET table == [byTime EXCEPT ![h] = GetNext(record[h], timePoint, timeStr)]
       IN  byTime' = table /\ NextWakeup(table)
    /\ hand' = [handle |-> h, due |-> byTime[h]] /\ timer' = "fire" /\ fired[h] <= 2
    /\ UNCHANGED <<now, record, byHandle, pushed, runVars, timeStr, queueVars,
                   registered, removed, fired>>

\* A record is due: erase it, plan its next time, and compute the next wake-up.
PickDue(h) ==
    /\ timer = "loop" /\ runTimer
    /\ h \in Earliest(byTime) /\ byTime[h] < timePoint
    /\ LET next == GetNext(record[h], timePoint, timeStr)
           table == [byTime EXCEPT ![h] = IF next >= timePoint THEN next ELSE Off]
       IN  byTime' = table /\ NextWakeup(table)
    /\ hand' = [handle |-> h, due |-> byTime[h]]
    /\ timer' = "fire"
    /\ UNCHANGED <<now, record, byHandle, pushed, runVars, timeStr, queueVars,
                   registered, removed, fired>>

\* Mutant: the next time is inserted when the copy is pushed, under a lock of
\* its own.
MutantFireReplans ==
    /\ timer = "fire" /\ hand' = NoHand /\ timer' = "loop"
    /\ TaskQueue!Accept(hand.handle) /\ fired' = [fired EXCEPT ![hand.handle] = @ + 1]
    /\ byTime' = [byTime EXCEPT ![hand.handle] =
                    IF record[hand.handle].kind = "at" THEN Off
                    ELSE GetNext(record[hand.handle], timeStr, timeStr)]
    /\ UNCHANGED <<now, record, byHandle, pushed, runVars, timePoint, timeStr, registered, removed>>

\* The copy is pushed, without m_scheduledTasksMutex.
Fire ==
    /\ timer = "fire"
    /\ \E match \in TimePatternMatches(record[hand.handle]) :
         IF match
           THEN /\ TaskQueue!Accept(hand.handle)
                /\ fired' = [fired EXCEPT ![hand.handle] = @ + 1]
           ELSE UNCHANGED <<queueVars, fired>>
    /\ hand' = NoHand
    /\ timer' = "loop"
    /\ UNCHANGED <<now, planVars, pushed, runVars, timePoint, timeStr, registered, removed>>

\* Nothing is due: compute the next wake-up and break.
NothingDue ==
    /\ timer = "loop" /\ runTimer
    /\ \A h \in Planned(byTime) : byTime[h] >= timePoint
    /\ NextWakeup(byTime)
    /\ timer' = "test"
    /\ UNCHANGED <<now, planVars, pushed, runVars, timeStr, hand, queueVars, registered,
                   removed, fired>>

\* The inner loop ends when the scheduler was stopped.
LoopEnds ==
    /\ timer = "loop" /\ ~runTimer
    /\ timer' = "test"
    /\ UNCHANGED <<now, planVars, pushed, runVars, timePoint, timeStr, hand, queueVars,
                   registered, removed, fired>>

-----------------------------------------------------------------------------
(* The worker of the queue, and the handlers of the clients.               *)

TakeTask == TaskQueue!Take /\ UNCHANGED
    <<now, planVars, pushed, runVars, timerVars, registered, removed, fired>>

\* handleScheduledRecord: the registered function, if any, has returned.
TaskHandled == TaskQueue!Finish /\ UNCHANGED
    <<now, planVars, pushed, runVars, timerVars, registered, removed, fired>>

\* insert() leaves the function of a client that is registered already. The
\* handlers' mutex is held by the worker as long as it handles a task.
RegisterMessageHandler(c) ==
    /\ current = NoHandle
    /\ registered' = registered \union {c}
    /\ UNCHANGED <<now, planVars, pushed, runVars, timerVars, queueVars, removed, fired>>

UnregisterMessageHandler(c) ==
    /\ current = NoHandle
    /\ registered' = registered \ {c}
    /\ UNCHANGED <<now, planVars, pushed, runVars, timerVars, queueVars, removed, fired>>

-----------------------------------------------------------------------------
ClientNext(c) ==
    \/ \E h \in Handles, plan \in Plans : AddScheduleRecord(h, c, plan)
    \/ \E h \in Handles : record[h].client = c /\ RemoveTask(h)
    \/ RemoveAllMyTasks(c)
    \/ RegisterMessageHandler(c) \/ UnregisterMessageHandler(c)

TimerNext ==
    \/ TimerStarts \/ TimerTests \/ TimerWakes \/ TimerGetsTime \/ NothingDue
    \/ (\E h \in Handles : PickDue(h)) \/ Fire
    \/ LoopEnds

StopNext == StopTimer \/ NotifyStop \/ StopQueue

WorkerNext == TakeTask \/ TaskHandled

Next == (\E c \in Clients : ClientNext(c)) \/ TimerNext \/ WorkerNext \/ Tick \/ Start \/ StopNext

Spec == Init /\ [][Next]_vars

\* The main thread starts the scheduler and completes stop(), which nobody has
\* to call; the two threads run and time passes; a handler returns.
FairSpec ==
    /\ Spec
    /\ WF_vars(Start) /\ WF_vars(NotifyStop) /\ WF_vars(StopQueue)
    /\ WF_vars(TimerNext) /\ WF_vars(WorkerNext) /\ WF_vars(Tick)

-----------------------------------------------------------------------------
TypeOK ==
    /\ now \in 0..MaxTime
    /\ record \in [Handles -> [kind : Kind \union {"none"}, client : Clients,
                               start : Nat, period : Nat]]
    /\ byTime \in [Handles -> Nat \union {Off}]
    /\ byHandle \subseteq Handles
    /\ pushed \in BOOLEAN /\ runTimer \in BOOLEAN /\ running \in BOOLEAN
    /\ timer \in {"none", "start", "test", "wait", "getTime", "loop", "fire", "done"}
    /\ main \in {"configure", "run", "notify", "stopQueue", "stopped"}
    /\ timePoint \in Nat /\ timeStr \in Nat
    /\ hand \in [handle : Handles \union {NoHandle}, due : Nat]
    /\ queue \in Seq(Handles)
    /\ current \in Handles \union {NoHandle}
    /\ registered \subseteq Clients
    /\ removed \subseteq Handles
    /\ fired \in [Handles -> Nat]

\* The timer never sleeps over a record: while it waits with no push pending,
\* its wake-up has come or is not later than the earliest planned time, whatever
\* clients planned while it was in its loop, or before start() cleared the flag.
WakesInTime ==
    timer \in {"test", "wait"} /\ ~pushed =>
        timePoint <= now \/ \A h \in Planned(byTime) : timePoint <= byTime[h]

\* stop() wakes the timer: once it has notified, the timer does not go to sleep
\* on an empty table for the seconds in which the destructor would join it.
StopIsNoticed == main \in {"stopQueue", "stopped"} /\ timer = "wait" => pushed

\* The two tables agree: what the timer will fire can be found, and removed,
\* by its handle, and a removed record is in neither.
TablesAgree ==
    /\ Planned(byTime) \subseteq byHandle
    /\ removed \intersect byHandle = {}

\* A record that a client has removed is not picked any more: at most the copy
\* in the timer's hand and those already queued are still handed on.
RemovedIsNotPicked == [][hand'.handle # hand.handle => hand'.handle \notin removed]_vars

\* A task for one time point is handed on once.
OneShotFiresOnce == \A h \in Handles : record[h].kind = "at" => fired[h] <= 1

\* A record that is due is picked, or removed, or the scheduler was stopped.
DueIsPicked ==
    \A h \in Handles :
        (byTime[h] # Off /\ byTime[h] < MaxTime) ~>
            (hand.handle = h \/ h \in removed \/ main \notin {"configure", "run"})

\* The timer thread ends after stop(), so that the destructor's join returns.
StopEndsTimer == main = "notify" ~> timer = "done"

\* IScheduler: "When the time point is reached the task is passed to its
\* handler": a record is not picked before it is due.
NotBeforeItsTime == hand # NoHand => hand.due <= now
=============================================================================

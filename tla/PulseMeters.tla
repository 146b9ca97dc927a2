----------------------------- MODULE PulseMeters -----------------------------
(***************************************************************************)
(* src/applications/pulse_meters/ClientServicePm: the service seeks meters *)
(* with a periodic FRC until each has answered, and reads a meter that was *)
(* found with a periodic task of its own, until the reading fails.         *)
(*                                                                         *)
(* Three threads take part: the Scheduler's timer, which fires planned     *)
(* records; the Scheduler's worker, which executes the fired tasks in the  *)
(* service; and the worker of the service's own TaskQueue, which plans the *)
(* reading of a meter that was found. m_sync of a meter is atomic,         *)
(* m_taskHandle is not: both workers use it, a step for each access.       *)
(***************************************************************************)
EXTENDS Integers, Sequences, FiniteSets

CONSTANTS
    Watched,    \* m_watchedPm, a sequence of different meters
    NoMeter,
    MaxRecords, \* bound on the records planned for one task
    MaxPushed   \* bound on the queue of meters that were found

Meters == {Watched[i] : i \in 1..Len(Watched)}

ASSUME PulseMetersAssumption ==
    /\ NoMeter \notin Meters /\ "frc" \notin Meters
    /\ Watched \in Seq(Meters) /\ \A i, j \in 1..Len(Watched) : Watched[i] = Watched[j] => i = j
    /\ MaxRecords \in Nat \ {0} /\ MaxPushed \in Nat \ {0}

\* The Scheduler's handles are random. What matters is whether two are the same:
\* the module numbers the records of each task.
Tasks == Meters \union {"frc"}
Handles == 1..MaxRecords
NoHandle == 0

VARIABLES
    service,      \* "created", "started", "stopped"
    plan,         \* the handles of the records that the Scheduler has for each task
    fired,        \* tasks in the Scheduler's queue
    frcActive, frcHandle,
    sync,         \* meters with m_sync
    taskHandle,   \* m_taskHandle of each meter
    queue, current, running, \* m_taskQueue
    planning, newHandle, \* where its worker is in scheduleTaskPeriodic, and what that returned
    worker,       \* where the Scheduler's worker is
    meter,        \* the meter it reads
    alive, index, stopFrc, \* its FRC data, place in the loop, and local variable
    failed,       \* history: meters whose reading ended with another error
    raced         \* both workers are using the m_taskHandle of one meter

frcVars == <<frcActive, frcHandle>>
queueVars == <<queue, current, running>>
planVars == <<planning, newHandle>>
scanVars == <<alive, index, stopFrc>>
workerVars == <<worker, meter, scanVars>>
vars == <<service, plan, fired, frcVars, sync, taskHandle, queueVars, planVars,
          workerVars, failed, raced>>

TaskQueue == INSTANCE TaskQueueAbs WITH Task <- Meters, NoTask <- NoMeter

\* A handle that the service still remembers is not drawn again.
Fresh(task) ==
    {h \in Handles : h \notin plan[task] /\ (task \in Meters => h # taskHandle[task])}
NewHandle(task) == CHOOSE h \in Fresh(task) : TRUE
InQueue(m) == \E i \in 1..Len(queue) : queue[i] = m

\* A configured record of the Scheduler may name the service before it starts.
Init ==
    /\ service = "created"
    /\ \E configured \in SUBSET Meters :
         plan = [t \in Tasks |-> IF t \in configured THEN {1} ELSE {}]
    /\ fired = <<>>
    /\ frcActive = FALSE /\ frcHandle = NoHandle
    /\ sync = {} /\ taskHandle = [m \in Meters |-> NoHandle]
    /\ TaskQueue!AbsInit /\ planning = "idle" /\ newHandle = NoHandle
    /\ worker = "idle" /\ meter = NoMeter
    /\ alive = {} /\ index = 1 /\ stopFrc = TRUE
    /\ failed = {} /\ raced = FALSE

-----------------------------------------------------------------------------
(* Calls of the Scheduler.                                                 *)

ScheduleTaskPeriodic(task) ==
    Fresh(task) # {} /\ plan' = [plan EXCEPT ![task] = @ \union {NewHandle(task)}]

\* Nothing is removed with TASK_HANDLE_INVALID.
RemoveTask(task, h) == plan' = [plan EXCEPT ![task] = @ \ {h}]

\* setFrc: the FRC is planned when the service begins to seek, and removed when it ends.
SetFrc(val) ==
    \/ val /\ ~frcActive /\ frcActive' = TRUE
       /\ ScheduleTaskPeriodic("frc") /\ frcHandle' = NewHandle("frc")
    \/ ~val /\ frcActive /\ frcActive' = FALSE
       /\ RemoveTask("frc", frcHandle) /\ UNCHANGED frcHandle
    \/ val = frcActive /\ UNCHANGED <<plan, frcVars>>

\* removeAllMyTasks, registerMessageHandler and setFrc(true), before the
\* Scheduler runs.
Start ==
    /\ service = "created" /\ service' = "started"
    /\ frcActive' = TRUE /\ frcHandle' = NewHandle("frc")
    /\ plan' = [t \in Tasks |-> IF t = "frc" THEN {NewHandle("frc")} ELSE {}]
    /\ UNCHANGED <<fired, sync, taskHandle, queueVars, planVars, workerVars>>

\* The reset of m_taskQueue. The Scheduler was stopped before. The FRC record,
\* the meters' records and the message handler stay.
Stop ==
    /\ service = "started" /\ service' = "stopped"
    /\ TaskQueue!Stop
    /\ UNCHANGED <<plan, fired, frcVars, sync, taskHandle, planVars, workerVars>>

\* The timer fires a record whose last copy the worker has taken.
Fire(task) ==
    /\ service = "started" /\ plan[task] # {}
    /\ \A i \in 1..Len(fired) : fired[i] # task
    /\ fired' = Append(fired, task)
    /\ UNCHANGED <<service, plan, frcVars, sync, taskHandle, queueVars, planVars, workerVars>>

-----------------------------------------------------------------------------
(* The Scheduler's worker in handleTaskFromScheduler.                      *)

Continue(here, there) == worker = here /\ worker' = there

TakeTask ==
    /\ service = "started" /\ fired # <<>> /\ fired' = Tail(fired)
    /\ \/ Head(fired) = "frc" /\ Continue("idle", "frc") /\ UNCHANGED meter
       \/ Head(fired) \in Meters /\ Continue("idle", "read") /\ meter' = Head(fired)
    /\ UNCHANGED <<service, plan, frcVars, sync, taskHandle, queueVars, planVars, scanVars>>

\* The FRC transaction ends, with the meters that are alive or with an error.
FrcFinished ==
    /\ \/ Continue("frc", "idle") /\ UNCHANGED scanVars
       \/ Continue("frc", "scan") /\ alive' \in SUBSET Meters /\ UNCHANGED <<index, stopFrc>>
    /\ UNCHANGED <<service, plan, fired, frcVars, sync, taskHandle, queueVars, planVars, meter>>

\* One round of the loop over m_watchedPm.
Scan ==
    LET m == Watched[index] IN
    /\ Continue("scan", "scan")
    /\ index <= Len(Watched) /\ index' = index + 1
    /\ IF m \notin sync /\ m \in alive
         THEN service # "stopped" /\ Len(queue) < MaxPushed /\ TaskQueue!Accept(m)
         ELSE UNCHANGED queueVars
    /\ stopFrc' = (stopFrc /\ (m \in sync \/ m \in alive))
    /\ alive' = alive \ {m}
    /\ UNCHANGED <<service, plan, fired, frcVars, sync, taskHandle, planVars, meter>>

\* m_taskQueue is a null pointer after the service was stopped.
ScanCrashes ==
    /\ service = "stopped" /\ Continue("scan", "crashed")
    /\ index <= Len(Watched) /\ Watched[index] \in alive \ sync
    /\ UNCHANGED <<service, plan, fired, frcVars, sync, taskHandle, queueVars, planVars,
                   meter, scanVars>>

ScanEnds ==
    /\ Continue("scan", "idle") /\ index > Len(Watched)
    /\ SetFrc(~stopFrc)
    /\ alive' = {} /\ index' = 1 /\ stopFrc' = TRUE
    /\ UNCHANGED <<service, fired, sync, taskHandle, queueVars, planVars, meter>>

\* The read transaction ends: with data, a timeout, or another error.
ReadFinished ==
    /\ \/ Continue("read", "idle") /\ meter' = NoMeter /\ UNCHANGED failed
       \/ Continue("read", "removeLost") /\ UNCHANGED <<meter, failed>>
       \/ Continue("read", "removeFailed") /\ failed' = failed \union {meter} /\ UNCHANGED meter
    /\ UNCHANGED <<service, plan, fired, frcVars, sync, taskHandle, queueVars, planVars, scanVars>>

\* removeSchedule: the Scheduler is called, then the handle made invalid.
RemoveRead ==
    /\ Continue("removeLost", "clearLost") \/ Continue("removeFailed", "clearFailed")
    /\ RemoveTask(meter, taskHandle[meter])
    /\ UNCHANGED <<service, fired, frcVars, sync, taskHandle, queueVars, planVars,
                   meter, scanVars>>

\* After another error than a timeout the meter is not sought again.
ClearRead ==
    /\ \/ Continue("clearLost", "lost") /\ UNCHANGED meter
       \/ Continue("clearFailed", "idle") /\ meter' = NoMeter
    /\ taskHandle' = [taskHandle EXCEPT ![meter] = NoHandle]
    /\ UNCHANGED <<service, plan, fired, frcVars, sync, queueVars, planVars, scanVars>>

Desync ==
    /\ Continue("lost", "seek")
    /\ sync' = sync \ {meter}
    /\ UNCHANGED <<service, plan, fired, frcVars, taskHandle, queueVars, planVars,
                   meter, scanVars>>

\* Mutant: the FRC is left as it is.
MutantSeekAgain ==
    /\ Continue("seek", "idle") /\ meter' = NoMeter
    /\ UNCHANGED <<plan, frcVars, service, fired, sync, taskHandle, queueVars, planVars, scanVars>>

SeekAgain ==
    /\ Continue("seek", "idle")
    /\ SetFrc(TRUE) /\ meter' = NoMeter
    /\ UNCHANGED <<service, fired, sync, taskHandle, queueVars, planVars, scanVars>>

-----------------------------------------------------------------------------
(* The worker of m_taskQueue in processPulseMeterFromTaskQueue.            *)

\* A meter is synced once, however often it was found meanwhile.
Found ==
    /\ planning = "idle" /\ TaskQueue!Take
    /\ planning' = IF Head(queue) \in sync THEN "done" ELSE "remove"
    /\ sync' = sync \union {Head(queue)}
    /\ UNCHANGED <<newHandle, service, plan, fired, frcVars, taskHandle, workerVars>>

\* Mutant: the record of an earlier reading is left in the Scheduler.
MutantRemoveOld ==
    /\ planning = "remove" /\ planning' = "plan"
    /\ UNCHANGED <<newHandle, service, plan, fired, frcVars, sync, taskHandle, queueVars, workerVars>>

RemoveOld ==
    /\ planning = "remove" /\ planning' = "clear"
    /\ RemoveTask(current, taskHandle[current])
    /\ UNCHANGED <<newHandle, service, fired, frcVars, sync, taskHandle, queueVars, workerVars>>

ClearOld ==
    /\ planning = "clear" /\ planning' = "plan"
    /\ taskHandle' = [taskHandle EXCEPT ![current] = NoHandle]
    /\ UNCHANGED <<newHandle, service, plan, fired, frcVars, sync, queueVars, workerVars>>

\* The new record may fire before its handle is assigned.
PlanRead ==
    /\ planning = "plan"
    /\ ScheduleTaskPeriodic(current) /\ planning' = "assign" /\ newHandle' = NewHandle(current)
    /\ UNCHANGED <<service, fired, frcVars, sync, taskHandle, queueVars, workerVars>>

AssignHandle ==
    /\ planning = "assign" /\ planning' = "done"
    /\ taskHandle' = [taskHandle EXCEPT ![current] = newHandle] /\ newHandle' = NoHandle
    /\ UNCHANGED <<service, plan, fired, frcVars, sync, queueVars, workerVars>>

Planned ==
    /\ planning = "done" /\ planning' = "idle"
    /\ TaskQueue!Finish
    /\ UNCHANGED <<newHandle, service, plan, fired, frcVars, sync, taskHandle, workerVars>>

-----------------------------------------------------------------------------
\* The Scheduler's worker, and that of m_taskQueue, in the schedule of a meter.
Removing(m) ==
    worker \in {"removeLost", "removeFailed", "clearLost", "clearFailed"} /\ meter = m

Scheduling(m) == planning \in {"remove", "clear", "plan", "assign"} /\ current = m

WorkerNext ==
    \/ TakeTask \/ FrcFinished \/ Scan \/ ScanCrashes \/ ScanEnds
    \/ RemoveRead \/ ClearRead \/ Desync \/ SeekAgain

QueueNext ==
    \/ Found \/ RemoveOld \/ ClearOld \/ PlanRead \/ AssignHandle \/ Planned

\* A data race is undefined behaviour: the module says nothing of what follows.
NoRaceYet == ~raced /\ raced' = (\E m \in Meters : Removing(m)' /\ Scheduling(m)')

WorkerStep == ((WorkerNext /\ UNCHANGED failed) \/ ReadFinished) /\ NoRaceYet

QueueStep == QueueNext /\ UNCHANGED failed /\ NoRaceYet

StartStep == Start /\ UNCHANGED failed /\ NoRaceYet

FireStep(task) == Fire(task) /\ UNCHANGED failed /\ NoRaceYet

Next ==
    \/ WorkerStep \/ QueueStep \/ StartStep \/ (\E task \in Tasks : FireStep(task))
    \/ Stop /\ UNCHANGED failed /\ NoRaceYet

Spec == Init /\ [][Next]_vars

\* The daemon starts the service, the timer fires the FRC record, and both
\* workers run. Nobody has to stop the service, and no meter has to answer.
FairSpec ==
    /\ Spec
    /\ WF_vars(StartStep) /\ WF_vars(FireStep("frc"))
    /\ WF_vars(WorkerStep) /\ WF_vars(QueueStep)

-----------------------------------------------------------------------------
TypeOK ==
    /\ service \in {"created", "started", "stopped"}
    /\ plan \in [Tasks -> SUBSET Handles]
    /\ fired \in Seq(Tasks)
    /\ frcActive \in BOOLEAN /\ frcHandle \in Handles \union {NoHandle}
    /\ sync \subseteq Meters
    /\ taskHandle \in [Meters -> Handles \union {NoHandle}]
    /\ queue \in Seq(Meters) /\ current \in Meters \union {NoMeter} /\ running \in BOOLEAN
    /\ planning \in {"idle", "remove", "clear", "plan", "assign", "done"}
    /\ newHandle \in Handles \union {NoHandle}
    /\ worker \in {"idle", "frc", "scan", "read", "removeLost", "removeFailed",
                  "clearLost", "clearFailed", "lost", "seek", "crashed"}
    /\ meter \in Meters \union {NoMeter}
    /\ alive \subseteq Meters /\ index \in 1..(Len(Watched) + 1) /\ stopFrc \in BOOLEAN
    /\ failed \subseteq Meters /\ raced \in BOOLEAN

\* The service forgets no meter: one that is not synced is sought by the FRC, or
\* was found and waits in the queue, or was lost just now and is about to be
\* sought, in every order of the two workers and with tasks that were fired
\* before their record was removed.
SoughtUntilFound ==
    \A m \in Meters :
        \/ service = "created" \/ m \in sync \/ frcActive \/ InQueue(m)
        \/ (worker = "seek" /\ meter = m)

\* The Scheduler holds one FRC record while the service seeks, and none otherwise.
FrcRecordAgrees ==
    service # "created" => plan["frc"] = IF frcActive THEN {frcHandle} ELSE {}

\* A synced meter is read by a periodic record, unless its reading failed with
\* another error than a timeout (ClientServicePm.cpp:293 "stop trying").
SyncedIsRead ==
    \A m \in sync \ failed :
        plan[m] # {} \/ Scheduling(m) \/ Removing(m) \/ (worker = "lost" /\ meter = m)

\* A meter has one record, whose handle the service knows, so that it can be
\* removed, in every order of the two workers but a race on m_taskHandle.
OneReadRecord ==
    \A m \in Meters :
        /\ service # "created" => Cardinality(plan[m]) <= 1
        /\ service # "created" /\ ~Scheduling(m) => plan[m] \subseteq {taskHandle[m]}

\* All of this at once: a meter is sought or read, never both for good nor neither,
\* and every record of the service can be removed, in every order of the workers.
MeterIsSoughtOrRead ==
    TypeOK /\ SoughtUntilFound /\ FrcRecordAgrees /\ SyncedIsRead /\ OneReadRecord

\* As long as a meter is missing, the FRC is sent again and again.
KeepsSeeking ==
    \A m \in Meters : []<>(m \in sync \/ worker = "frc" \/ service # "started" \/ raced)
=============================================================================

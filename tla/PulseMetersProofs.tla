-------------------------- MODULE PulseMetersProofs --------------------------
(***************************************************************************)
(* What PulseMeters.tla guarantees for any sequence of watched meters and  *)
(* in every order of the Scheduler's worker and that of the service's      *)
(* queue, up to the first data race on m_taskHandle: a meter that is not   *)
(* synced is sought, waits in the queue or is about to be sought; a synced *)
(* one is read; and each record in the Scheduler is one the service can    *)
(* remove. The service's queue does what TaskQueueAbs promises.            *)
(*                                                                         *)
(* The inductive invariant says what each worker knows at each of its      *)
(* places: that the loop over the meters has left none behind without a    *)
(* reason to stop the FRC, and which record of a meter there is between    *)
(* the removal of the old one and the assignment of the new handle.        *)
(*                                                                         *)
(* Below that, the same for ServiceExample.tla and any configuration of it:*)
(* its invariant is that the records and those who remember their handles  *)
(* form a plan, in which each record has one owner, also when the          *)
(* configuration names a node twice.                                       *)
(***************************************************************************)
EXTENDS PulseMeters, ServiceExample, FiniteSetTheorems, SequenceTheorems, TLAPS

Reading == {"read", "removeLost", "removeFailed", "clearLost", "clearFailed", "lost", "seek"}

\* What is true where the two workers are.
PlaceInv ==
    /\ service = "created" =>
         /\ worker = "idle" /\ planning = "idle" /\ queue = <<>> /\ fired = <<>>
         /\ ~frcActive /\ plan["frc"] = {} /\ sync = {}
    /\ planning = "idle" <=> current = NoMeter
    /\ worker \in Reading => meter \in Meters
    /\ worker \in {"removeFailed", "clearFailed"} => meter \in failed
    /\ planning = "assign" => newHandle \in Handles
    /\ worker \notin {"scan", "crashed"} => index = 1 /\ stopFrc

\* The meters that the loop has passed, when it still means to stop the FRC.
PassedInv ==
    worker = "scan" /\ stopFrc =>
        \A j \in 1..Len(Watched) : j < index => Watched[j] \in sync \/ InQueue(Watched[j])

\* A step is taken only where the workers use the handles of different meters.
RaceInv == ~raced => \A m \in Meters : ~(Removing(m) /\ Scheduling(m))

\* The records of a meter.
RecordInv ==
    service # "created" =>
        \A m \in Meters :
            /\ ~Scheduling(m) \/ planning = "remove" => plan[m] \subseteq {taskHandle[m]}
            /\ Scheduling(m) /\ planning \in {"clear", "plan"} => plan[m] = {}
            /\ Scheduling(m) /\ planning = "assign" => plan[m] = {newHandle}
            /\ worker \in {"clearLost", "clearFailed"} /\ meter = m => plan[m] = {}

MeterInv ==
    /\ TypeOK /\ PlaceInv /\ PassedInv /\ RaceInv /\ RecordInv
    /\ SoughtUntilFound /\ FrcRecordAgrees /\ SyncedIsRead

-----------------------------------------------------------------------------
(* Operators of the model.                                                 *)

\* A handle that is drawn is one that the task has not.
LEMMA NewHandleIsFresh ==
    ASSUME NEW task \in Tasks, Fresh(task) # {}
    PROVE  /\ NewHandle(task) \in Handles /\ NewHandle(task) \notin plan[task]
           /\ task \in Meters => NewHandle(task) # taskHandle[task]
<1>1. NewHandle(task) \in Fresh(task)
  BY DEF NewHandle
<1> QED BY <1>1 DEF Fresh

\* The FRC is another task than the reading of a meter.
LEMMA FrcIsATask == "frc" \in Tasks /\ "frc" \notin Meters /\ NoMeter \notin Meters /\ Meters \subseteq Tasks
BY PulseMetersAssumption DEF Tasks

\* A handle can be drawn for the FRC when it has none.
LEMMA FrcHandle ==
    ASSUME plan["frc"] = {} PROVE NewHandle("frc") \in Handles /\ Fresh("frc") # {}
<1>1. 1 \in Fresh("frc")
  BY FrcIsATask, PulseMetersAssumption DEF Fresh, Handles
<1> QED BY <1>1, FrcIsATask, NewHandleIsFresh

\* A meter that is pushed is in the queue, as are those that were.
LEMMA Pushed ==
    ASSUME queue \in Seq(Meters), NEW m \in Meters, queue' = Append(queue, m)
    PROVE  /\ queue' \in Seq(Meters)
           /\ \A n \in Meters : InQueue(n)' <=> n = m \/ InQueue(n)
<1>1. Len(queue') = Len(queue) + 1 /\ queue'[Len(queue) + 1] = m /\ Len(queue) \in Nat
      /\ \A i \in 1..Len(queue) : queue'[i] = queue[i]
  OBVIOUS
<1>2. ASSUME NEW n \in Meters PROVE InQueue(n)' <=> n = m \/ InQueue(n)
  BY <1>1 DEF InQueue
<1> QED BY <1>2

\* A meter that was queued is taken, or still is.
LEMMA Taken ==
    ASSUME queue \in Seq(Meters), queue # <<>>, queue' = Tail(queue)
    PROVE  /\ queue' \in Seq(Meters) /\ Head(queue) \in Meters
           /\ \A n \in Meters : InQueue(n) => n = Head(queue) \/ InQueue(n)'
<1>1. ASSUME NEW n \in Meters, NEW i \in 1..Len(queue), queue[i] = n, n # Head(queue)
      PROVE  InQueue(n)'
  <2>1. i # 1 /\ Len(queue') = Len(queue) - 1
    BY <1>1
  <2>2. i - 1 \in 1..Len(queue') /\ queue'[i - 1] = n
    BY <1>1, <2>1
  <2> QED BY <2>2 DEF InQueue
<1> QED BY <1>1 DEF InQueue

-----------------------------------------------------------------------------
(* Types.                                                                  *)

LEMMA MeterTypeInit == ASSUME Init PROVE TypeOK
<1>1. 1 \in Handles
  BY PulseMetersAssumption DEF Handles
<1>2. plan \in [Tasks -> SUBSET Handles]
  BY <1>1 DEF Init
<1>3. frcActive \in BOOLEAN /\ running \in BOOLEAN /\ stopFrc \in BOOLEAN /\ raced \in BOOLEAN
  BY DEF Init, TaskQueue!AbsInit
<1>4. Len(Watched) \in Nat
  BY PulseMetersAssumption
<1> QED BY <1>2, <1>3, <1>4 DEF Init, TypeOK, TaskQueue!AbsInit, NoHandle

\* Calls of the Scheduler preserve the types.
LEMMA ScheduleTypes ==
    ASSUME plan \in [Tasks -> SUBSET Handles], NEW task \in Tasks
    PROVE  /\ ScheduleTaskPeriodic(task) =>
                plan' \in [Tasks -> SUBSET Handles] /\ NewHandle(task) \in Handles
           /\ \A h : RemoveTask(task, h) => plan' \in [Tasks -> SUBSET Handles]
BY NewHandleIsFresh DEF ScheduleTaskPeriodic, RemoveTask

LEMMA FrcTypes ==
    ASSUME plan \in [Tasks -> SUBSET Handles], frcActive \in BOOLEAN,
           frcHandle \in Handles \union {NoHandle}, NEW val \in BOOLEAN, SetFrc(val)
    PROVE  /\ plan' \in [Tasks -> SUBSET Handles] /\ frcActive' \in BOOLEAN
           /\ frcHandle' \in Handles \union {NoHandle}
BY ScheduleTypes, FrcIsATask DEF SetFrc, frcVars

\* Every step preserves the types.
LEMMA WorkerTypeStep == ASSUME TypeOK, PlaceInv, WorkerNext, UNCHANGED failed, raced' \in BOOLEAN PROVE TypeOK'
<1> USE DEF TypeOK, queueVars, planVars, frcVars, scanVars, Continue
<1>1. CASE TakeTask
  BY <1>1, FrcIsATask DEF TakeTask, Tasks
<1>2. CASE FrcFinished
  BY <1>2 DEF FrcFinished
<1>3. CASE Scan
  <2>1. index \in 1..Len(Watched) /\ Watched[index] \in Meters /\ index' \in 1..(Len(Watched) + 1)
    BY <1>3, PulseMetersAssumption DEF Scan, Meters
  <2>2. queue' \in Seq(Meters) /\ current' \in Meters \union {NoMeter} /\ running' \in BOOLEAN
    <3>1. UNCHANGED <<current, running>> /\ (queue' = queue \/ queue' = Append(queue, Watched[index]))
      BY <1>3 DEF Scan, TaskQueue!Accept
    <3> QED BY <2>1, <3>1, Pushed
  <2> QED BY <1>3, <2>1, <2>2 DEF Scan
<1>4. CASE ScanCrashes
  BY <1>4 DEF ScanCrashes
<1>5. CASE ScanEnds
  <2>1. (~stopFrc) \in BOOLEAN /\ SetFrc(~stopFrc) /\ Len(Watched) \in Nat
    BY <1>5, PulseMetersAssumption DEF ScanEnds
  <2>2. /\ plan' \in [Tasks -> SUBSET Handles] /\ frcActive' \in BOOLEAN
        /\ frcHandle' \in Handles \union {NoHandle}
    BY <2>1, FrcTypes
  <2> QED BY <1>5, <2>1, <2>2 DEF ScanEnds
<1>6. CASE RemoveRead
  <2>1. meter \in Tasks
    BY <1>6, FrcIsATask DEF RemoveRead, PlaceInv, Reading
  <2>2. plan' \in [Tasks -> SUBSET Handles]
    BY <1>6, <2>1, ScheduleTypes DEF RemoveRead
  <2> QED BY <1>6, <2>2 DEF RemoveRead
<1>7. CASE ClearRead
  BY <1>7, ZenonT(60) DEF ClearRead
<1>8. CASE Desync
  BY <1>8 DEF Desync
<1>9. CASE SeekAgain
  BY <1>9, FrcTypes DEF SeekAgain
<1> QED BY <1>1, <1>2, <1>3, <1>4, <1>5, <1>6, <1>7, <1>8, <1>9 DEF WorkerNext

LEMMA QueueTypeStep == ASSUME TypeOK, PlaceInv, QueueNext, UNCHANGED failed, raced' \in BOOLEAN PROVE TypeOK'
<1> USE DEF TypeOK, queueVars, frcVars, scanVars, workerVars
<1>1. CASE Found
  <2>1. queue' \in Seq(Meters) /\ Head(queue) \in Meters /\ current' = Head(queue) /\ running' = running
    BY <1>1, Taken DEF Found, TaskQueue!Take
  <2> QED BY <1>1, <2>1 DEF Found
<1>2. CASE RemoveOld \/ ClearOld \/ PlanRead \/ AssignHandle
  <2>1. current \in Meters /\ current \in Tasks
    BY <1>2, FrcIsATask DEF RemoveOld, ClearOld, PlanRead, AssignHandle, PlaceInv
  <2>2. CASE RemoveOld
    BY <2>1, <2>2, ScheduleTypes DEF RemoveOld
  <2>3. CASE ClearOld
    BY <2>1, <2>3 DEF ClearOld
  <2>4. CASE PlanRead
    BY <2>1, <2>4, ScheduleTypes DEF PlanRead
  <2>5. CASE AssignHandle
    BY <2>1, <2>5 DEF AssignHandle
  <2> QED BY <1>2, <2>2, <2>3, <2>4, <2>5
<1>3. CASE Planned
  BY <1>3 DEF Planned, TaskQueue!Finish
<1> QED BY <1>1, <1>2, <1>3 DEF QueueNext

LEMMA MeterTypeStep == ASSUME TypeOK, PlaceInv, [Next]_vars PROVE TypeOK'
<1>1. CASE UNCHANGED vars
  BY <1>1 DEF vars, frcVars, queueVars, planVars, workerVars, scanVars, TypeOK
<1>2. CASE Next
  <2>1. raced' \in BOOLEAN
    BY <1>2 DEF Next, WorkerStep, QueueStep, StartStep, FireStep, NoRaceYet
  <2>2. CASE WorkerStep
    <3>1. CASE ReadFinished
      BY <2>1, <3>1 DEF ReadFinished, PlaceInv, Reading, Continue, TypeOK, frcVars, queueVars, planVars, scanVars
    <3> QED BY <2>1, <2>2, <3>1, WorkerTypeStep DEF WorkerStep
  <2>3. CASE QueueStep
    BY <2>1, <2>3, QueueTypeStep DEF QueueStep
  <2>4. CASE StartStep
    <3>1. NewHandle("frc") \in Handles
      BY <2>4, FrcHandle DEF StartStep, Start, PlaceInv
    <3> QED
      BY <2>1, <2>4, <3>1 DEF StartStep, Start, TypeOK, queueVars, planVars, workerVars, scanVars
  <2>5. ASSUME NEW task \in Tasks, FireStep(task) PROVE TypeOK'
    BY <2>1, <2>5 DEF FireStep, Fire, TypeOK, frcVars, queueVars, planVars, workerVars, scanVars
  <2>6. CASE Stop /\ UNCHANGED failed
    BY <2>1, <2>6, ZenonT(60) DEF Stop, TaskQueue!Stop, TypeOK, frcVars, planVars, workerVars, scanVars
  <2> QED BY <1>2, <2>2, <2>3, <2>4, <2>5, <2>6 DEF Next
<1> QED BY <1>1, <1>2

-----------------------------------------------------------------------------
(* The workers.                                                            *)

\* What each worker leaves alone.
LEMMA WorkerLeaves ==
    ASSUME WorkerNext \/ ReadFinished
    PROVE  /\ UNCHANGED <<service, current, running, planning, newHandle>>
           /\ UNCHANGED taskHandle \/ ClearRead
           /\ UNCHANGED sync \/ Desync
BY DEF WorkerNext, TakeTask, FrcFinished, Scan, ScanCrashes, ScanEnds, RemoveRead, ClearRead, Desync,
       SeekAgain, ReadFinished, queueVars, planVars, TaskQueue!Accept

LEMMA QueueLeaves ==
    ASSUME QueueNext
    PROVE  UNCHANGED <<service, fired, frcVars, workerVars>>
BY DEF QueueNext, Found, RemoveOld, ClearOld, PlanRead, AssignHandle, Planned, workerVars

LEMMA PlaceStep == ASSUME TypeOK, PlaceInv, [Next]_vars PROVE PlaceInv'
<1>1. CASE UNCHANGED vars
  BY <1>1 DEF vars, frcVars, queueVars, planVars, workerVars, scanVars, PlaceInv
<1>2. CASE WorkerStep
  <2>1. CASE ReadFinished
    BY <2>1, WorkerLeaves DEF ReadFinished, Continue, PlaceInv, Reading, queueVars, scanVars
  <2>2. CASE WorkerNext /\ UNCHANGED failed
    <3>1. service # "created" /\ UNCHANGED <<service, current, planning, newHandle, failed>>
      <4>1. worker # "idle" \/ service = "started"
        BY <2>2 DEF WorkerNext, TakeTask, FrcFinished, Scan, ScanCrashes, ScanEnds, RemoveRead,
                    ClearRead, Desync, SeekAgain, Continue
      <4> QED BY <2>2, <4>1, WorkerLeaves DEF PlaceInv
    <3> USE DEF PlaceInv, Reading, Continue
    <3>2. CASE TakeTask
      BY <3>1, <3>2 DEF TakeTask, scanVars
    <3>3. CASE FrcFinished
      BY <3>1, <3>3 DEF FrcFinished, scanVars
    <3>4. CASE Scan
      BY <3>1, <3>4 DEF Scan
    <3>5. CASE ScanCrashes
      BY <3>1, <3>5 DEF ScanCrashes
    <3>6. CASE ScanEnds
      BY <3>1, <3>6 DEF ScanEnds
    <3>7. CASE RemoveRead
      BY <3>1, <3>7 DEF RemoveRead, scanVars
    <3>8. CASE ClearRead
      BY <3>1, <3>8 DEF ClearRead, scanVars
    <3>9. CASE Desync
      BY <3>1, <3>9 DEF Desync, scanVars
    <3>10. CASE SeekAgain
      BY <3>1, <3>10 DEF SeekAgain, scanVars
    <3> QED BY <2>2, <3>2, <3>3, <3>4, <3>5, <3>6, <3>7, <3>8, <3>9, <3>10 DEF WorkerNext
  <2> QED BY <1>2, <2>1, <2>2 DEF WorkerStep
<1>3. CASE QueueStep
  <2>1. service # "created" /\ UNCHANGED <<service, worker, meter, index, stopFrc, failed>>
    <3>1. planning # "idle" \/ queue # <<>>
      BY <1>3 DEF QueueStep, QueueNext, Found, RemoveOld, ClearOld, PlanRead, AssignHandle, Planned,
                  TaskQueue!Take
    <3> QED BY <1>3, <3>1, QueueLeaves DEF QueueStep, PlaceInv, workerVars, scanVars
  <2>2. CASE Found
    <3>1. Head(queue) \in Meters /\ current' = Head(queue) /\ planning' \in {"done", "remove"}
      BY <2>2, Taken DEF Found, TaskQueue!Take, TypeOK
    <3> QED BY <2>1, <3>1, FrcIsATask DEF PlaceInv
  <2>3. CASE RemoveOld \/ ClearOld \/ AssignHandle
    BY <2>1, <2>3 DEF RemoveOld, ClearOld, AssignHandle, PlaceInv, queueVars
  <2>4. CASE PlanRead
    <3>1. current \in Tasks /\ Fresh(current) # {}
      BY <2>4, FrcIsATask DEF PlanRead, ScheduleTaskPeriodic, TypeOK, PlaceInv
    <3>2. newHandle' \in Handles
      BY <2>4, <3>1, NewHandleIsFresh DEF PlanRead
    <3> QED BY <2>1, <2>4, <3>2 DEF PlanRead, PlaceInv, queueVars
  <2>5. CASE Planned
    BY <2>1, <2>5 DEF Planned, TaskQueue!Finish, PlaceInv
  <2> QED BY <1>3, <2>2, <2>3, <2>4, <2>5 DEF QueueStep, QueueNext
<1>4. CASE StartStep
  BY <1>4 DEF StartStep, Start, PlaceInv, queueVars, planVars, workerVars, scanVars
<1>5. ASSUME NEW task \in Tasks, FireStep(task) PROVE PlaceInv'
  BY <1>5 DEF FireStep, Fire, PlaceInv, queueVars, planVars, workerVars, scanVars
<1>6. CASE Stop /\ UNCHANGED failed
  BY <1>6 DEF Stop, TaskQueue!Stop, PlaceInv, planVars, workerVars, scanVars
<1> QED BY <1>1, <1>2, <1>3, <1>4, <1>5, <1>6 DEF Next

\* What the loop has passed stays in the queue or is synced while it runs.
LEMMA PassedStep == ASSUME TypeOK, PlaceInv, PassedInv, [Next]_vars PROVE PassedInv'
<1> DEFINE Kept(m) == m \in sync \/ InQueue(m)
<1>w. \A j \in 1..Len(Watched) : Watched[j] \in Meters
  BY DEF Meters
<1>n. Len(Watched) \in Nat
  BY PulseMetersAssumption
<1>1. ASSUME UNCHANGED <<worker, index, stopFrc>>,
             \A m \in Meters : Kept(m) => Kept(m)'
      PROVE  PassedInv'
  BY <1>1, <1>w DEF PassedInv
<1>2. CASE Scan
  <2>1. /\ index \in 1..Len(Watched) /\ Watched[index] \in Meters /\ worker = "scan" /\ sync' = sync
        /\ index' = index + 1 /\ stopFrc \in BOOLEAN
        /\ stopFrc' = (stopFrc /\ (Watched[index] \in sync \/ Watched[index] \in alive))
    BY <1>2, <1>w, <1>n DEF Scan, Continue, TypeOK
  <2>2. \A m \in Meters : InQueue(m) => InQueue(m)'
    <3>1. UNCHANGED queue \/ queue' = Append(queue, Watched[index])
      BY <1>2 DEF Scan, queueVars, TaskQueue!Accept
    <3> QED BY <2>1, <3>1, Pushed DEF TypeOK, InQueue
  <2>3. ASSUME NEW m \in Meters, m = Watched[index], stopFrc'
        PROVE  m \in sync' \/ InQueue(m)'
    <3>1. CASE m \in alive \ sync
      <4>1. queue' = Append(queue, m)
        BY <1>2, <2>3, <3>1 DEF Scan, TaskQueue!Accept
      <4> QED BY <4>1, Pushed DEF TypeOK
    <3> QED BY <2>1, <2>3, <3>1
  <2>4. ASSUME NEW j \in 1..Len(Watched), j < index', stopFrc'
        PROVE  Watched[j] \in sync' \/ InQueue(Watched[j])'
    <3>1. CASE j = index
      BY <1>w, <2>3, <2>4, <3>1
    <3>2. CASE j < index
      BY <1>w, <2>1, <2>2, <2>4, <3>2 DEF PassedInv
    <3> QED BY <1>n, <2>1, <2>4, <3>1, <3>2
  <2> QED BY <2>4 DEF PassedInv
<1>3. CASE FrcFinished
  BY <1>3, <1>n DEF FrcFinished, Continue, PlaceInv, PassedInv
<1>4. CASE \/ TakeTask \/ ScanCrashes \/ ScanEnds \/ RemoveRead \/ ClearRead \/ Desync \/ SeekAgain
           \/ ReadFinished
  <2>1. worker' # "scan"
    BY <1>4 DEF TakeTask, ScanCrashes, ScanEnds, RemoveRead, ClearRead, Desync, SeekAgain, ReadFinished,
                Continue
  <2> QED BY <2>1 DEF PassedInv
<1>5. CASE QueueNext
  <2>1. UNCHANGED <<worker, index, stopFrc>>
    BY <1>5, QueueLeaves DEF workerVars, scanVars
  <2>2. CASE Found
    <3>1. \A m \in Meters : Kept(m) => Kept(m)'
      BY <2>2, Taken DEF Found, TaskQueue!Take, TypeOK
    <3> QED BY <1>1, <2>1, <3>1
  <2>3. CASE RemoveOld \/ ClearOld \/ PlanRead \/ AssignHandle \/ Planned
    <3>1. UNCHANGED <<queue, sync>>
      BY <2>3 DEF RemoveOld, ClearOld, PlanRead, AssignHandle, Planned, queueVars, TaskQueue!Finish
    <3> QED BY <1>1, <2>1, <3>1 DEF InQueue
  <2> QED BY <1>5, <2>2, <2>3 DEF QueueNext
<1>6. CASE Start \/ Stop \/ (\E task \in Tasks : Fire(task)) \/ UNCHANGED vars
  <2>1. UNCHANGED <<worker, index, stopFrc, queue, sync>>
    BY <1>6 DEF Start, Stop, Fire, vars, queueVars, workerVars, scanVars, TaskQueue!Stop
  <2> QED BY <1>1, <2>1 DEF InQueue
<1> QED
  BY <1>2, <1>3, <1>4, <1>5, <1>6
     DEF Next, WorkerStep, WorkerNext, QueueStep, StartStep, FireStep

\* A step into a race is marked.
LEMMA RaceStep == ASSUME RaceInv, [Next]_vars PROVE RaceInv'
<1>1. CASE UNCHANGED vars
  BY <1>1 DEF vars, workerVars, queueVars, planVars, RaceInv, Removing, Scheduling
<1>2. CASE Next
  <2>1. raced' = (\E m \in Meters : Removing(m)' /\ Scheduling(m)')
    BY <1>2 DEF Next, WorkerStep, QueueStep, StartStep, FireStep, NoRaceYet
  <2> QED BY <2>1 DEF RaceInv
<1> QED BY <1>1, <1>2

-----------------------------------------------------------------------------
(* The FRC and what is sought.                                             *)

\* Setting the FRC keeps its record with its flag, and touches no meter's records.
LEMMA SetFrcAgrees ==
    ASSUME plan \in [Tasks -> SUBSET Handles], frcActive \in BOOLEAN, NEW val \in BOOLEAN, SetFrc(val),
           plan["frc"] = IF frcActive THEN {frcHandle} ELSE {}
    PROVE  /\ (plan["frc"])' = IF frcActive' THEN {frcHandle'} ELSE {}
           /\ frcActive' = val
           /\ \A m \in Meters : plan'[m] = plan[m]
<1>1. CASE val = frcActive
  BY <1>1 DEF SetFrc, frcVars
<1>2. CASE val /\ ~frcActive
  <2>1. plan' = [plan EXCEPT !["frc"] = {NewHandle("frc")}] /\ frcActive' = TRUE
        /\ frcHandle' = NewHandle("frc")
    BY <1>2, FrcIsATask DEF SetFrc, ScheduleTaskPeriodic
  <2> QED BY <1>2, <2>1, FrcIsATask
<1>3. CASE ~val /\ frcActive
  <2>1. plan' = [plan EXCEPT !["frc"] = {}] /\ frcActive' = FALSE /\ frcHandle' = frcHandle
    BY <1>3, FrcIsATask DEF SetFrc, RemoveTask
  <2> QED BY <1>3, <2>1, FrcIsATask
<1> QED BY <1>1, <1>2, <1>3

\* The steps that call setFrc, and the others.
LEMMA OnlySetFrc ==
    ASSUME TypeOK, PlaceInv, FrcRecordAgrees, [Next]_vars
    PROVE  \/ StartStep
           \/ ScanEnds /\ service # "created" /\ plan["frc"] = IF frcActive THEN {frcHandle} ELSE {}
           \/ SeekAgain /\ service # "created" /\ plan["frc"] = IF frcActive THEN {frcHandle} ELSE {}
           \/ UNCHANGED frcVars /\ plan'["frc"] = plan["frc"]
<1>1. CASE ScanEnds \/ SeekAgain
  <2>1. service # "created"
    BY <1>1 DEF ScanEnds, SeekAgain, Continue, PlaceInv
  <2> QED BY <1>1, <2>1 DEF FrcRecordAgrees
<1>2. CASE RemoveRead
  <2>1. meter \in Meters
    BY <1>2 DEF RemoveRead, Continue, PlaceInv, Reading
  <2> QED BY <1>2, <2>1, FrcIsATask DEF RemoveRead, RemoveTask, frcVars, TypeOK
<1>3. CASE TakeTask \/ FrcFinished \/ Scan \/ ScanCrashes \/ ClearRead \/ Desync \/ ReadFinished
  BY <1>3 DEF TakeTask, FrcFinished, Scan, ScanCrashes, ClearRead, Desync, ReadFinished, frcVars
<1>4. CASE RemoveOld \/ PlanRead
  <2>1. current \in Meters
    BY <1>4 DEF RemoveOld, PlanRead, PlaceInv, TypeOK
  <2> QED BY <1>4, <2>1, FrcIsATask DEF RemoveOld, PlanRead, RemoveTask, ScheduleTaskPeriodic, frcVars, TypeOK
<1>5. CASE Found \/ ClearOld \/ AssignHandle \/ Planned
  BY <1>5 DEF Found, ClearOld, AssignHandle, Planned, frcVars
<1>6. CASE Stop \/ (\E task \in Tasks : Fire(task)) \/ UNCHANGED vars
  BY <1>6 DEF Stop, Fire, vars, frcVars
<1> QED
  BY <1>1, <1>2, <1>3, <1>4, <1>5, <1>6
     DEF Next, WorkerStep, WorkerNext, QueueStep, QueueNext, FireStep

LEMMA FrcStep == ASSUME TypeOK, PlaceInv, FrcRecordAgrees, [Next]_vars PROVE FrcRecordAgrees'
<1>1. CASE StartStep
  BY <1>1, FrcIsATask DEF StartStep, Start, FrcRecordAgrees
<1>2. CASE /\ ScanEnds \/ SeekAgain
           /\ plan["frc"] = IF frcActive THEN {frcHandle} ELSE {}
  <2>1. (~stopFrc) \in BOOLEAN /\ (SetFrc(~stopFrc) \/ SetFrc(TRUE))
    BY <1>2 DEF ScanEnds, SeekAgain
  <2> QED BY <1>2, <2>1, SetFrcAgrees DEF TypeOK, FrcRecordAgrees
<1>3. CASE UNCHANGED frcVars /\ plan'["frc"] = plan["frc"]
  <2>1. CASE StartStep
    BY <1>1, <2>1
  <2>2. CASE ~StartStep
    <3>1. service' = service \/ (service = "started" /\ service' = "stopped")
      BY <2>2, WorkerLeaves, QueueLeaves DEF Next, WorkerStep, QueueStep, FireStep, Fire, Stop, vars
    <3> QED BY <1>3, <3>1 DEF FrcRecordAgrees, frcVars
  <2> QED BY <2>1, <2>2
<1> QED BY <1>1, <1>2, <1>3, OnlySetFrc

\* What starts and stops the service.
LEMMA ServiceMoves ==
    ASSUME [Next]_vars
    PROVE  StartStep \/ service' = service \/ (service = "started" /\ service' = "stopped")
BY WorkerLeaves, QueueLeaves
   DEF Next, WorkerStep, QueueStep, FireStep, Fire, Stop, vars

\* A meter leaves the queue to be synced, and is synced until it is lost.
LEMMA QueuedOrSynced ==
    ASSUME TypeOK, PlaceInv, [Next]_vars, NEW m \in Meters
    PROVE  /\ InQueue(m) => InQueue(m)' \/ m \in sync'
           /\ m \in sync => m \in sync' \/ (worker' = "seek" /\ meter' = m)
<1>1. CASE Scan
  <2>1. Watched[index] \in Meters /\ sync' = sync
    BY <1>1 DEF Scan, TypeOK, Meters
  <2>2. UNCHANGED queue \/ queue' = Append(queue, Watched[index])
    BY <1>1 DEF Scan, queueVars, TaskQueue!Accept
  <2> QED BY <2>1, <2>2, Pushed DEF TypeOK, InQueue
<1>2. CASE Found
  BY <1>2, Taken DEF Found, TaskQueue!Take, TypeOK
<1>3. CASE Desync
  BY <1>3 DEF Desync, Continue, queueVars, InQueue
<1>4. CASE UNCHANGED <<queue, sync>>
  BY <1>4 DEF InQueue
<1> QED
  BY <1>1, <1>2, <1>3, <1>4
     DEF Next, WorkerStep, WorkerNext, QueueStep, QueueNext, StartStep, Start, FireStep, Fire, Stop,
         TakeTask, FrcFinished, ScanCrashes, ScanEnds, RemoveRead, ClearRead, SeekAgain, ReadFinished,
         RemoveOld, ClearOld, PlanRead, AssignHandle, Planned, vars, queueVars, TaskQueue!Stop,
         TaskQueue!Finish

LEMMA SoughtStep ==
    ASSUME TypeOK, PlaceInv, PassedInv, FrcRecordAgrees, SoughtUntilFound, [Next]_vars
    PROVE  SoughtUntilFound'
<1>1. CASE StartStep
  BY <1>1 DEF StartStep, Start, SoughtUntilFound
<1>2. CASE ScanEnds /\ plan["frc"] = IF frcActive THEN {frcHandle} ELSE {}
  <2>1. (~stopFrc) \in BOOLEAN /\ SetFrc(~stopFrc) /\ UNCHANGED <<sync, queue>>
    BY <1>2 DEF ScanEnds, queueVars
  <2>2. frcActive' = ~stopFrc
    BY <1>2, <2>1, SetFrcAgrees DEF TypeOK
  <2>3. stopFrc => \A m \in Meters : m \in sync \/ InQueue(m)
    BY <1>2, PulseMetersAssumption DEF ScanEnds, Continue, PassedInv, Meters, TypeOK
  <2> QED BY <2>1, <2>2, <2>3 DEF SoughtUntilFound, InQueue
<1>3. CASE SeekAgain
  <2>1. plan["frc"] = IF frcActive THEN {frcHandle} ELSE {}
    BY <1>3 DEF SeekAgain, Continue, PlaceInv, FrcRecordAgrees
  <2>2. frcActive' = TRUE
    BY <1>3, <2>1, SetFrcAgrees DEF SeekAgain, TypeOK
  <2> QED BY <2>2 DEF SoughtUntilFound
<1>4. CASE UNCHANGED frcVars /\ ~StartStep /\ ~SeekAgain
  <2> SUFFICES ASSUME NEW m \in Meters
               PROVE  \/ service' = "created" \/ m \in sync' \/ frcActive' \/ InQueue(m)'
                      \/ (worker' = "seek" /\ meter' = m)
    BY DEF SoughtUntilFound
  <2>1. worker = "seek" => UNCHANGED <<worker, meter>>
    BY <1>4, QueueLeaves
       DEF Next, WorkerStep, WorkerNext, QueueStep, StartStep, FireStep, Fire, Stop, vars, workerVars,
           TakeTask, FrcFinished, Scan, ScanCrashes, ScanEnds, RemoveRead, ClearRead, Desync,
           ReadFinished, Continue
  <2>2. service = "created" => service' = "created"
    BY <1>4, ServiceMoves
  <2>3. /\ InQueue(m) => InQueue(m)' \/ m \in sync'
        /\ m \in sync => m \in sync' \/ (worker' = "seek" /\ meter' = m)
    BY QueuedOrSynced
  <2>4. \/ service = "created" \/ m \in sync \/ frcActive \/ InQueue(m)
        \/ (worker = "seek" /\ meter = m)
    BY DEF SoughtUntilFound
  <2>5. frcActive' = frcActive
    BY <1>4 DEF frcVars
  <2> QED BY <2>1, <2>2, <2>3, <2>4, <2>5
<1> QED BY <1>1, <1>2, <1>3, <1>4, OnlySetFrc

-----------------------------------------------------------------------------
(* The records of the meters.                                              *)

\* The steps that leave the records of the meters and their handles alone.
LEMMA RecordsLeft ==
    ASSUME TypeOK, PlaceInv, FrcRecordAgrees,
           WorkerNext \/ ReadFinished, ~RemoveRead, ~ClearRead
    PROVE  /\ \A m \in Meters : plan'[m] = plan[m]
           /\ UNCHANGED taskHandle
           /\ worker' \notin {"clearLost", "clearFailed"}
<1>1. CASE ScanEnds \/ SeekAgain
  <2>1. plan["frc"] = IF frcActive THEN {frcHandle} ELSE {}
    BY <1>1 DEF ScanEnds, SeekAgain, Continue, PlaceInv, FrcRecordAgrees
  <2>2. (~stopFrc) \in BOOLEAN /\ (SetFrc(~stopFrc) \/ SetFrc(TRUE))
    BY <1>1 DEF ScanEnds, SeekAgain
  <2>3. \A m \in Meters : plan'[m] = plan[m]
    BY <2>1, <2>2, SetFrcAgrees DEF TypeOK
  <2> QED BY <1>1, <2>3 DEF ScanEnds, SeekAgain, Continue
<1>2. CASE TakeTask \/ FrcFinished \/ Scan \/ ScanCrashes \/ Desync \/ ReadFinished
  BY <1>2 DEF TakeTask, FrcFinished, Scan, ScanCrashes, Desync, ReadFinished, Continue
<1> QED BY <1>1, <1>2 DEF WorkerNext

LEMMA RecordStep ==
    ASSUME TypeOK, PlaceInv, RaceInv, FrcRecordAgrees, RecordInv, [Next]_vars PROVE RecordInv'
<1>t. plan \in [Tasks -> SUBSET Handles] /\ taskHandle \in [Meters -> Handles \union {NoHandle}]
      /\ Meters \subseteq Tasks
  BY FrcIsATask DEF TypeOK
<1>1. CASE StartStep
  BY <1>1, FrcIsATask
     DEF StartStep, Start, PlaceInv, RecordInv, Scheduling, queueVars, planVars, workerVars
<1>2. CASE UNCHANGED <<plan, taskHandle, current, planning, newHandle, worker, meter>> /\ ~StartStep
  <2>1. service' # "created" => service # "created"
    BY <1>2, ServiceMoves
  <2> QED BY <1>2, <2>1 DEF RecordInv, Scheduling
<1>3. CASE (WorkerNext \/ ReadFinished) /\ ~RemoveRead /\ ~ClearRead
  BY <1>3, RecordsLeft, WorkerLeaves DEF RecordInv, Scheduling
<1>4. CASE RemoveRead /\ NoRaceYet
  <2>1. meter \in Meters /\ service # "created" /\ ~Scheduling(meter)
    BY <1>4 DEF RemoveRead, Continue, PlaceInv, Reading, RaceInv, NoRaceYet, Removing
  <2>2. plan' = [plan EXCEPT ![meter] = {}]
    BY <1>4, <2>1 DEF RemoveRead, RemoveTask, RecordInv
  <2> QED BY <1>t, <1>4, <2>1, <2>2 DEF RemoveRead, queueVars, planVars, RecordInv, Scheduling
<1>5. CASE ClearRead /\ NoRaceYet
  <2>1. meter \in Meters /\ service # "created" /\ ~Scheduling(meter) /\ plan[meter] = {}
    BY <1>5 DEF ClearRead, Continue, PlaceInv, Reading, RaceInv, NoRaceYet, Removing, RecordInv
  <2>2. worker' \notin {"clearLost", "clearFailed"}
    BY <1>5 DEF ClearRead, Continue
  <2> QED BY <1>t, <1>5, <2>1, <2>2 DEF ClearRead, queueVars, planVars, RecordInv, Scheduling
<1>6. CASE QueueNext /\ NoRaceYet
  <2>1. UNCHANGED <<service, worker, meter>>
    BY <1>6, QueueLeaves DEF workerVars
  <2>2. CASE Found
    <3>1. \A m \in Meters : ~Scheduling(m)
      BY <2>2, FrcIsATask DEF Found, TaskQueue!Take, Scheduling
    <3>2. planning' \in {"done", "remove"} /\ UNCHANGED <<plan, taskHandle>>
      BY <2>2 DEF Found
    <3> QED BY <2>1, <3>1, <3>2 DEF RecordInv, Scheduling
  <2>3. CASE RemoveOld
    <3>1. current \in Meters /\ planning = "remove" /\ planning' = "clear" /\ current' = current
          /\ UNCHANGED taskHandle
      BY <2>3 DEF RemoveOld, PlaceInv, TypeOK, queueVars
    <3>2. service # "created"
      BY <3>1 DEF PlaceInv
    <3>3. plan' = [plan EXCEPT ![current] = {}]
      BY <2>3, <3>1, <3>2 DEF RemoveOld, RemoveTask, RecordInv, Scheduling
    <3> QED BY <1>t, <2>1, <3>1, <3>2, <3>3 DEF RecordInv, Scheduling
  <2>4. CASE ClearOld
    <3>1. current \in Meters /\ planning = "clear" /\ planning' = "plan" /\ current' = current
          /\ UNCHANGED plan /\ taskHandle' = [taskHandle EXCEPT ![current] = NoHandle]
      BY <2>4 DEF ClearOld, PlaceInv, TypeOK, queueVars
    <3> QED BY <1>t, <2>1, <3>1 DEF RecordInv, Scheduling
  <2>5. CASE PlanRead
    <3>1. current \in Meters /\ planning = "plan" /\ planning' = "assign" /\ current' = current
          /\ UNCHANGED taskHandle /\ newHandle' = NewHandle(current)
      BY <2>5 DEF PlanRead, PlaceInv, TypeOK, queueVars
    <3>2. service # "created"
      BY <3>1 DEF PlaceInv
    <3>3. plan' = [plan EXCEPT ![current] = {newHandle'}]
      BY <2>5, <3>1, <3>2 DEF PlanRead, ScheduleTaskPeriodic, RecordInv, Scheduling
    <3>4. ~Removing(current)
      BY <1>6, <3>1 DEF NoRaceYet, RaceInv, Scheduling
    <3> QED BY <1>t, <2>1, <3>1, <3>2, <3>3, <3>4 DEF RecordInv, Scheduling, Removing
  <2>6. CASE AssignHandle
    <3>1. current \in Meters /\ planning = "assign" /\ planning' = "done" /\ current' = current
          /\ UNCHANGED plan /\ taskHandle' = [taskHandle EXCEPT ![current] = newHandle]
      BY <2>6 DEF AssignHandle, PlaceInv, TypeOK, queueVars
    <3> QED BY <1>t, <2>1, <3>1 DEF RecordInv, Scheduling
  <2>7. CASE Planned
    BY <2>1, <2>7 DEF Planned, RecordInv, Scheduling
  <2> QED BY <1>6, <2>2, <2>3, <2>4, <2>5, <2>6, <2>7 DEF QueueNext
<1>7. CASE (\E task \in Tasks : Fire(task)) \/ Stop \/ UNCHANGED vars
  <2>1. UNCHANGED <<plan, taskHandle, current, planning, newHandle, worker, meter>>
    BY <1>7 DEF Fire, Stop, vars, TaskQueue!Stop, queueVars, planVars, workerVars
  <2> QED BY <1>1, <1>2, <2>1
<1> QED
  BY <1>1, <1>3, <1>4, <1>5, <1>6, <1>7 DEF Next, WorkerStep, QueueStep, FireStep

\* A synced meter stays read until it is lost or has failed.
LEMMA SyncedStep ==
    ASSUME TypeOK, PlaceInv, FrcRecordAgrees, RecordInv, SyncedIsRead, [Next]_vars PROVE SyncedIsRead'
<1> DEFINE Read(m) == plan[m] # {} \/ Scheduling(m) \/ Removing(m) \/ (worker = "lost" /\ meter = m)
<1>1. CASE StartStep
  BY <1>1 DEF StartStep, Start, PlaceInv, SyncedIsRead
<1>2. CASE WorkerStep
  <2> SUFFICES ASSUME NEW m \in Meters, m \in sync', m \notin failed' PROVE Read(m)'
    BY <1>2, WorkerLeaves DEF WorkerStep, SyncedIsRead, TypeOK, Desync
  <2>1. m \in sync /\ m \notin failed
    BY <1>2, WorkerLeaves DEF WorkerStep, ReadFinished, Desync
  <2>2. Read(m)
    BY <2>1 DEF SyncedIsRead
  <2>3. Scheduling(m)' <=> Scheduling(m)
    BY <1>2, WorkerLeaves DEF WorkerStep, Scheduling
  <2>4. CASE RemoveRead
    BY <2>2, <2>3, <2>4, FrcIsATask
       DEF RemoveRead, RemoveTask, Continue, PlaceInv, Reading, TypeOK, Removing
  <2>5. CASE ClearRead
    BY <2>1, <2>2, <2>3, <2>5 DEF ClearRead, Continue, PlaceInv, Removing
  <2>6. CASE ~RemoveRead /\ ~ClearRead
    <3>1. plan'[m] = plan[m]
      BY <1>2, <2>6, RecordsLeft DEF WorkerStep
    <3>2. Removing(m) => Removing(m)'
      BY <1>2, <2>6
         DEF WorkerStep, WorkerNext, TakeTask, FrcFinished, Scan, ScanCrashes, ScanEnds, Desync,
             SeekAgain, ReadFinished, Continue, Removing
    <3>3. worker = "lost" /\ meter = m => Removing(m)' \/ (worker' = "lost" /\ meter' = m)
      <4>1. CASE worker = "lost" /\ meter = m
        <5>1. Desync
          BY <1>2, <2>6, <4>1
             DEF WorkerStep, WorkerNext, TakeTask, FrcFinished, Scan, ScanCrashes, ScanEnds,
                 SeekAgain, ReadFinished, Continue
        <5> QED BY <4>1, <5>1 DEF Desync
      <4> QED BY <4>1
    <3> QED BY <2>2, <2>3, <3>1, <3>2, <3>3
  <2> QED BY <2>4, <2>5, <2>6
<1>3. CASE QueueStep
  <2> SUFFICES ASSUME NEW m \in Meters, m \in sync', m \notin failed' PROVE Read(m)'
    BY <1>3 DEF QueueStep, QueueNext, Found, RemoveOld, ClearOld, PlanRead, AssignHandle, Planned,
                SyncedIsRead, TypeOK, TaskQueue!Take
  <2>1. m \notin failed /\ UNCHANGED <<service, worker, meter>>
    BY <1>3, QueueLeaves DEF QueueStep, workerVars
  <2>2. Removing(m)' <=> Removing(m)
    BY <2>1 DEF Removing
  <2>3. CASE Found
    <3>1. ~Scheduling(m) /\ UNCHANGED plan
      BY <2>3, FrcIsATask DEF Found, TaskQueue!Take, Scheduling
    <3>2. m \notin sync => planning' = "remove" /\ current' = m
      BY <2>3 DEF Found, TaskQueue!Take
    <3> QED BY <2>1, <2>2, <3>1, <3>2 DEF SyncedIsRead, Scheduling
  <2>4. CASE ~Found
    <3>1. sync' = sync /\ Read(m)
      BY <1>3, <2>1, <2>4
         DEF QueueStep, QueueNext, RemoveOld, ClearOld, PlanRead, AssignHandle, Planned, SyncedIsRead
    <3>2. CASE Scheduling(m) /\ ~AssignHandle
      <4>1. Scheduling(m)'
        BY <1>3, <2>4, <3>2
           DEF QueueStep, QueueNext, RemoveOld, ClearOld, PlanRead, Planned, Scheduling, queueVars
      <4> QED BY <4>1
    <3>3. CASE Scheduling(m) /\ AssignHandle
      <4>1. service # "created" /\ plan[m] = {newHandle} /\ plan' = plan
        BY <3>3 DEF AssignHandle, Scheduling, PlaceInv, RecordInv
      <4> QED BY <4>1
    <3>4. CASE ~Scheduling(m)
      <4>1. plan'[m] = plan[m]
        <5>1. RemoveOld \/ PlanRead => current \in Tasks /\ current # m
          BY <3>4, FrcIsATask DEF RemoveOld, PlanRead, Scheduling, PlaceInv, TypeOK
        <5> QED
          BY <1>3, <2>4, <5>1
             DEF QueueStep, QueueNext, RemoveOld, ClearOld, PlanRead, AssignHandle, Planned,
                 RemoveTask, ScheduleTaskPeriodic, TypeOK, Tasks
      <4> QED BY <2>1, <2>2, <3>1, <3>4, <4>1
    <3> QED BY <3>2, <3>3, <3>4
  <2> QED BY <2>3, <2>4
<1>4. CASE (\E task \in Tasks : FireStep(task)) \/ (Stop /\ UNCHANGED failed) \/ UNCHANGED vars
  <2>1. UNCHANGED <<plan, current, planning, worker, meter, sync, failed>>
    BY <1>4 DEF FireStep, Fire, Stop, vars, TaskQueue!Stop, queueVars, planVars, workerVars
  <2> QED BY <2>1 DEF SyncedIsRead, Scheduling, Removing
<1> QED BY <1>1, <1>2, <1>3, <1>4 DEF Next

-----------------------------------------------------------------------------
LEMMA MeterInit == ASSUME Init PROVE MeterInv
<1>1. TypeOK
  BY MeterTypeInit
<1>2. plan["frc"] = {}
  BY FrcIsATask DEF Init
<1>3. PlaceInv
  BY <1>2, FrcIsATask DEF Init, TaskQueue!AbsInit, PlaceInv, Reading
<1>4. PassedInv /\ RaceInv /\ RecordInv /\ SoughtUntilFound /\ FrcRecordAgrees /\ SyncedIsRead
  BY DEF Init, PassedInv, RaceInv, Removing, RecordInv, SoughtUntilFound, FrcRecordAgrees, SyncedIsRead
<1> QED BY <1>1, <1>3, <1>4 DEF MeterInv

LEMMA MeterStep == ASSUME MeterInv, [Next]_vars PROVE MeterInv'
BY MeterTypeStep, PlaceStep, PassedStep, RaceStep, RecordStep, SoughtStep, FrcStep, SyncedStep DEF MeterInv

\* What is known of a meter's records between the steps bounds them by one.
LEMMA OneRecord == ASSUME TypeOK, RecordInv PROVE OneReadRecord
<1> SUFFICES ASSUME NEW m \in Meters, service # "created"
             PROVE  /\ Cardinality(plan[m]) <= 1
                    /\ ~Scheduling(m) => plan[m] \subseteq {taskHandle[m]}
  BY DEF OneReadRecord
<1>1. \E h : plan[m] \subseteq {h}
  <2>1. CASE ~Scheduling(m) \/ planning = "remove"
    BY <2>1 DEF RecordInv
  <2>2. CASE Scheduling(m) /\ planning \in {"clear", "plan", "assign"}
    BY <2>2 DEF RecordInv
  <2> QED BY <2>1, <2>2 DEF Scheduling
<1>2. PICK h : plan[m] \subseteq {h}
  BY <1>1
<1>3. plan[m] = {} \/ plan[m] = {h}
  BY <1>2
<1>4. Cardinality({}) = 0 /\ Cardinality({h}) = 1
  BY FS_EmptySet, FS_Singleton
<1> QED BY <1>3, <1>4 DEF RecordInv

\* ClientServicePm, for any number of watched meters and in every order of the two workers,
\* tasks that were fired before their record was removed included: a meter is sought until
\* it is found, a synced one is read unless its reading failed for good, the FRC has a
\* record exactly while it is active, and the service knows the one record of each meter.
THEOREM MetersAreSoughtOrRead == Spec => []MeterIsSoughtOrRead
<1>1. Init => MeterInv
  BY MeterInit
<1>2. MeterInv /\ [Next]_vars => MeterInv'
  BY MeterStep
<1>3. MeterInv => MeterIsSoughtOrRead
  BY OneRecord DEF MeterInv, MeterIsSoughtOrRead
<1> QED BY <1>1, <1>2, <1>3, PTL DEF Spec

\* The Scheduler's worker pushes, the queue's worker takes and finishes, and stop() resets
\* the queue, as TaskQueueAbs lets them: a meter is planned after those found before it,
\* one at a time, and none after stop().
THEOREM TaskQueueIsUsed == Spec => TaskQueue!AbsSafety
<1>1. Init => TaskQueue!AbsInit
  BY DEF Init
<1>2. ASSUME MeterInv, Next PROVE TaskQueue!AbsNext \/ UNCHANGED queueVars
  <2>1. CASE Scan
    <3>1. index \in 1..Len(Watched)
      BY <1>2, <2>1 DEF MeterInv, TypeOK, Scan
    <3>2. Watched[index] \in Meters
      BY <3>1 DEF Meters
    <3>3. TaskQueue!Accept(Watched[index]) \/ UNCHANGED queueVars
      BY <2>1 DEF Scan
    <3> QED BY <3>2, <3>3 DEF TaskQueue!AbsNext
  <2>2. CASE Found \/ Planned \/ Stop
    BY <2>2 DEF Found, Planned, Stop, TaskQueue!AbsNext
  <2>3. CASE ~Scan /\ ~Found /\ ~Planned /\ ~Stop
    BY <1>2, <2>3
       DEF Next, WorkerStep, QueueStep, StartStep, FireStep, WorkerNext, QueueNext, Start, Fire,
           TakeTask, FrcFinished, ScanCrashes, ScanEnds, ReadFinished, RemoveRead, ClearRead,
           Desync, SeekAgain, RemoveOld, ClearOld, PlanRead, AssignHandle
  <2> QED BY <2>1, <2>2, <2>3
<1>3. MeterInv /\ [Next]_vars => [TaskQueue!AbsNext]_(TaskQueue!absVars)
  BY <1>2 DEF vars, queueVars, TaskQueue!absVars
<1>4. MeterInv /\ [Next]_vars => MeterInv'
  BY MeterStep
<1> QED BY <1>1, <1>3, <1>4, MeterInit, PTL DEF Spec, TaskQueue!AbsSafety

-----------------------------------------------------------------------------
(* The example.                                                            *)

\* m_watchedThermometers' elements, and the Scheduler's records of the service.
Thermometer == [adr : Nat, sync : BOOLEAN, handle : Nat]
ThermometerRecord == [handle : Nat \ {0}, task : {FrcTask} \union {ReadTask(adr) : adr \in Nat}, period : Nat]

\* A plan: each record is the FRC's or the reading of a thermometer that knows its handle,
\* each handle that is known is that of one record, and no handle is known to two.
IsPlan(used, f, list) ==
    /\ IsFiniteSet(used) /\ used \subseteq ThermometerRecord /\ f \in Nat /\ list \in Seq(Thermometer)
    /\ \A r \in used :
         \/ r.handle = f /\ r.task = FrcTask
         \/ \E i \in 1..Len(list) : /\ r.handle = list[i].handle
                                    /\ r.task = ReadTask(list[i].adr) /\ r.period = sleepPeriod
    /\ f # 0 => \E r \in used : r.handle = f
    /\ \A i \in 1..Len(list) : list[i].handle # 0 =>
         /\ \E r \in used : r.handle = list[i].handle
         /\ list[i].handle # f
         /\ \A j \in 1..Len(list) : list[j].handle = list[i].handle => j = i
    /\ \A r, q \in used : r.handle = q.handle => r = q

\* A handle that is drawn is valid, and no record has it: there are more than records.
LEMMA HandleIsFresh ==
    ASSUME NEW used, IsFiniteSet(used)
    PROVE  FreshHandle(used) \in Nat \ {0} /\ FreshHandle(used) \notin {r.handle : r \in used}
<1> DEFINE n == Cardinality(used)
           H == {r.handle : r \in used}
<1>1. n \in Nat
  BY FS_CardinalityType
<1>2. \E h \in 1..(n + 1) : h \notin H
  <2> SUFFICES ASSUME \A h \in 1..(n + 1) : h \in H PROVE FALSE
    OBVIOUS
  <2> DEFINE f == [h \in 1..(n + 1) |-> CHOOSE r \in used : r.handle = h]
  <2>1. \A h \in 1..(n + 1) : f[h] \in used /\ f[h].handle = h
    OBVIOUS
  <2>2. f \in [1..(n + 1) -> used]
    BY <2>1
  <2>3. IsFiniteSet(1..(n + 1)) /\ Cardinality(1..(n + 1)) = n + 1
    BY <1>1, FS_Interval
  <2> HIDE DEF f
  <2>4. \E x, y \in 1..(n + 1) : x # y /\ f[x] = f[y]
    BY <1>1, <2>2, <2>3, FS_PigeonHole
  <2> QED BY <2>1, <2>4
<1>3. FreshHandle(used) \in 1..(n + 1) /\ FreshHandle(used) \notin H
  BY <1>2 DEF FreshHandle
<1> QED BY <1>1, <1>3

\* list2 is list but for the handle of one thermometer, and its sync.
Rehandled(list, list2, i, h) ==
    /\ list2 \in Seq(Thermometer) /\ Len(list2) = Len(list)
    /\ \A j \in 1..Len(list) : /\ list2[j].adr = list[j].adr
                               /\ list2[j].handle = IF j = i THEN h ELSE list[j].handle

\* The record of a thermometer that forgets its handle can be removed,
LEMMA ReadIsRemoved ==
    ASSUME NEW used, NEW f, NEW list, IsPlan(used, f, list), NEW i \in 1..Len(list), NEW list2,
           Rehandled(list, list2, i, 0)
    PROVE  IsPlan(Without(used, list[i].handle), f, list2)
<1> DEFINE left == Without(used, list[i].handle)
<1>1. left \subseteq used /\ \A r \in used : r \in left <=> r.handle # list[i].handle
  BY DEF Without
<1>2. IsFiniteSet(left)
  BY <1>1, FS_Subset DEF IsPlan
<1>3. list2 \in Seq(Thermometer) /\ Len(list2) = Len(list) /\ left \subseteq ThermometerRecord /\ f \in Nat
  BY <1>1 DEF IsPlan, Rehandled
<1>4. \A r \in left :
         \/ r.handle = f /\ r.task = FrcTask
         \/ \E j \in 1..Len(list2) : /\ r.handle = list2[j].handle
                                     /\ r.task = ReadTask(list2[j].adr) /\ r.period = sleepPeriod
  BY <1>1, <1>3 DEF IsPlan, Rehandled
<1>5. f # 0 => \E r \in left : r.handle = f
  <2>1. f # 0 => list[i].handle # f
    BY DEF IsPlan
  <2> QED BY <1>1, <2>1 DEF IsPlan
<1>6. ASSUME NEW j \in 1..Len(list2), list2[j].handle # 0
      PROVE  /\ \E r \in left : r.handle = list2[j].handle
             /\ list2[j].handle # f
             /\ \A k \in 1..Len(list2) : list2[k].handle = list2[j].handle => k = j
  <2>1. j # i /\ list2[j].handle = list[j].handle /\ list[j].handle # list[i].handle
    BY <1>3, <1>6 DEF IsPlan, Rehandled
  <2>2. \E r \in left : r.handle = list2[j].handle
    BY <1>1, <1>3, <1>6, <2>1 DEF IsPlan
  <2> QED BY <1>3, <1>6, <2>1, <2>2 DEF IsPlan, Rehandled
<1>7. \A r, q \in left : r.handle = q.handle => r = q
  BY <1>1 DEF IsPlan
<1> HIDE DEF left
<1> QED BY <1>2, <1>3, <1>4, <1>5, <1>6, <1>7 DEF IsPlan, left

\* and so can that of the FRC.
LEMMA FrcIsRemoved ==
    ASSUME NEW used, NEW f, NEW list, IsPlan(used, f, list)
    PROVE  IsPlan(Without(used, f), 0, list)
<1> DEFINE left == Without(used, f)
<1>1. left \subseteq used /\ \A r \in used : r \in left <=> r.handle # f
  BY DEF Without
<1>2. IsFiniteSet(left)
  BY <1>1, FS_Subset DEF IsPlan
<1>4. \A r \in left :
         \E j \in 1..Len(list) : /\ r.handle = list[j].handle
                                 /\ r.task = ReadTask(list[j].adr) /\ r.period = sleepPeriod
  BY <1>1 DEF IsPlan
<1>6. ASSUME NEW j \in 1..Len(list), list[j].handle # 0
      PROVE  \E r \in left : r.handle = list[j].handle
  BY <1>1, <1>6 DEF IsPlan
<1> HIDE DEF left
<1> QED BY <1>1, <1>2, <1>4, <1>6 DEF IsPlan, left

\* The FRC gets a record when it has none,
LEMMA FrcIsPlanned ==
    ASSUME NEW used, NEW list, IsPlan(used, 0, list), frcPeriod \in Nat
    PROVE  IsPlan(Scheduled(used, FrcTask, frcPeriod), FreshHandle(used), list)
<1> DEFINE h == FreshHandle(used)
           more == Scheduled(used, FrcTask, frcPeriod)
           new == [handle |-> h, task |-> FrcTask, period |-> frcPeriod]
<1>1. h \in Nat \ {0} /\ h \notin {r.handle : r \in used}
  BY HandleIsFresh DEF IsPlan
<1>2. more = used \union {new}
  BY DEF Scheduled
<1>3. IsFiniteSet(more)
  <2> HIDE DEF new, more
  <2>1. IsFiniteSet(used)
    BY DEF IsPlan
  <2> QED BY <1>2, <2>1, FS_AddElement
<1> HIDE DEF h, more
<1>4. new \in ThermometerRecord /\ new.handle = h /\ new.task = FrcTask
  BY <1>1 DEF ThermometerRecord
<1> HIDE DEF new
<1>5. \A j \in 1..Len(list) : list[j].handle # h
  BY <1>1 DEF IsPlan
<1>7. more \subseteq ThermometerRecord /\ \E r \in more : r.handle = h
  BY <1>2, <1>4 DEF IsPlan
<1>8. ASSUME NEW r \in more
      PROVE  \/ r.handle = h /\ r.task = FrcTask
             \/ \E j \in 1..Len(list) : /\ r.handle = list[j].handle
                                        /\ r.task = ReadTask(list[j].adr) /\ r.period = sleepPeriod
  <2>1. CASE r \in used
    <3>1. r.handle # 0
      BY <2>1 DEF IsPlan, ThermometerRecord
    <3> QED BY <2>1, <3>1 DEF IsPlan
  <2> QED BY <1>2, <1>4, <2>1
<1>9. \A j \in 1..Len(list) : list[j].handle # 0 =>
        /\ \E r \in more : r.handle = list[j].handle
        /\ \A k \in 1..Len(list) : list[k].handle = list[j].handle => k = j
  BY <1>2 DEF IsPlan
<1>10. \A r, q \in more : r.handle = q.handle => r = q
  BY <1>1, <1>2, <1>4 DEF IsPlan
<1>6. IsPlan(more, h, list)
  BY <1>1, <1>3, <1>5, <1>7, <1>8, <1>9, <1>10 DEF IsPlan
<1> QED BY <1>6 DEF h, more

\* and a thermometer that has none gets one of its own.
LEMMA ReadIsPlanned ==
    ASSUME NEW used, NEW f, NEW list, IsPlan(used, f, list), sleepPeriod \in Nat,
           NEW i \in 1..Len(list), list[i].handle = 0, NEW list2,
           Rehandled(list, list2, i, FreshHandle(used))
    PROVE  IsPlan(Scheduled(used, ReadTask(list[i].adr), sleepPeriod), f, list2)
<1> DEFINE h == FreshHandle(used)
           more == Scheduled(used, ReadTask(list[i].adr), sleepPeriod)
           new == [handle |-> h, task |-> ReadTask(list[i].adr), period |-> sleepPeriod]
<1>1. h \in Nat \ {0} /\ h \notin {r.handle : r \in used}
  BY HandleIsFresh DEF IsPlan
<1>2. more = used \union {new}
  BY DEF Scheduled
<1>3. IsFiniteSet(more)
  <2> HIDE DEF new, more
  <2>1. IsFiniteSet(used)
    BY DEF IsPlan
  <2> QED BY <1>2, <2>1, FS_AddElement
<1> HIDE DEF h, more
<1>4. new \in ThermometerRecord /\ new.handle = h /\ new.task = ReadTask(list[i].adr) /\ new.period = sleepPeriod
  <2>1. list[i] \in Thermometer
    BY DEF IsPlan
  <2>2. list[i].adr \in Nat
    BY <2>1 DEF Thermometer
  <2> QED BY <1>1, <2>2 DEF ThermometerRecord, new
<1> HIDE DEF new
<1>5. h # f /\ \A j \in 1..Len(list) : list[j].handle # h
  BY <1>1 DEF IsPlan
<1>6. list2 \in Seq(Thermometer) /\ Len(list2) = Len(list)
  BY DEF Rehandled
<1>7. \A j \in 1..Len(list) : /\ list2[j].adr = list[j].adr
                              /\ list2[j].handle = IF j = i THEN h ELSE list[j].handle
  BY DEF Rehandled, h
<1>8. ASSUME NEW r \in more
      PROVE  \/ r.handle = f /\ r.task = FrcTask
             \/ \E j \in 1..Len(list2) : /\ r.handle = list2[j].handle
                                         /\ r.task = ReadTask(list2[j].adr) /\ r.period = sleepPeriod
  <2>1. CASE r = new
    BY <1>4, <1>6, <1>7, <2>1
  <2>2. CASE r \in used
    <3>1. r.handle # 0
      BY <2>2 DEF IsPlan, ThermometerRecord
    <3> QED BY <1>6, <1>7, <2>2, <3>1 DEF IsPlan
  <2> QED BY <1>2, <2>1, <2>2
<1>9. ASSUME NEW j \in 1..Len(list2), list2[j].handle # 0
      PROVE  /\ \E r \in more : r.handle = list2[j].handle
             /\ list2[j].handle # f
             /\ \A k \in 1..Len(list2) : list2[k].handle = list2[j].handle => k = j
  BY <1>2, <1>4, <1>5, <1>6, <1>7, <1>9 DEF IsPlan
<1>10. \A r, q \in more : r.handle = q.handle => r = q
  BY <1>1, <1>2, <1>4 DEF IsPlan
<1>11. more \subseteq ThermometerRecord /\ f \in Nat /\ (f # 0 => \E r \in more : r.handle = f)
  BY <1>2, <1>4 DEF IsPlan
<1>12. IsPlan(more, f, list2)
  BY <1>3, <1>6, <1>8, <1>9, <1>10, <1>11 DEF IsPlan
<1> QED BY <1>12 DEF more

-----------------------------------------------------------------------------
(* The invariant: types and the plan; a thermometer without record is not   *)
(* synced, or the first of its address and given up; while the service runs *)
(* one that is not synced is sought or in the queue.                        *)

ExampleTypeOK ==
    /\ state \in {"made", "refused", "started", "stopped"}
    /\ frcPeriod \in Nat /\ sleepPeriod \in Nat /\ found \in Seq(Positions) /\ asleep \in {-1, SleepPeriod}
    /\ state \in {"made", "refused"} => records = {} /\ frc = 0 /\ found = <<>> /\ asleep = -1
HasHandle ==
    \A i \in Positions : IF watched[i].sync THEN watched[i].handle = 0 => First(i) /\ watched[i].adr \in givenUp
                         ELSE watched[i].handle = 0
Sought == state = "started" => \A i \in Positions : watched[i].sync \/ frc # 0 \/ Waits(i)
ExampleInv == ExampleTypeOK /\ IsPlan(records, frc, watched) /\ HasHandle /\ Sought

\* A plan of the new values is a plan in the next state.
LEMMA SamePlanIsPlan ==
    ASSUME sleepPeriod' = sleepPeriod, IsPlan(records', frc', watched')
    PROVE  IsPlan(records, frc, watched)'
BY DEF IsPlan

\* setFrc keeps the plan, whichever records the caller has left.
LEMMA FrcPlanned ==
    ASSUME NEW val \in BOOLEAN, NEW left, NEW list, IsPlan(left, frc, list), frcPeriod \in Nat, SetFrcActive(val, left)
    PROVE  IsPlan(records', frc', list) /\ (val => frc' # 0)
<1>0. TaskHandleInvalid = 0
  BY DEF TaskHandleInvalid
<1>1. CASE val = (frc # 0)
  BY <1>0, <1>1 DEF SetFrcActive
<1>2. CASE val # (frc # 0) /\ val
  <2>1. records' = Scheduled(left, FrcTask, frcPeriod) /\ frc' = FreshHandle(left)
    BY <1>0, <1>2 DEF SetFrcActive
  <2>2. frc = 0
    BY <1>2
  <2>3. IsFiniteSet(left)
    BY DEF IsPlan
  <2>4. IsPlan(left, 0, list)
    BY <2>2
  <2> QED BY <2>1, <2>3, <2>4, FrcIsPlanned, HandleIsFresh
<1>3. CASE val # (frc # 0) /\ ~val
  <2>1. records' = Without(left, frc) /\ frc' = 0
    BY <1>0, <1>3 DEF SetFrcActive
  <2> QED BY <1>3, <2>1, FrcIsRemoved
<1> QED BY <1>1, <1>2, <1>3

LEMMA ExampleStarts == ExampleInit => ExampleInv
<1> SUFFICES ASSUME ExampleInit PROVE ExampleInv
  OBVIOUS
<1>1. Len(watched) = 0 /\ watched \in Seq(Thermometer) /\ found \in Seq(Positions)
  BY DEF ExampleInit
<1>2. ExampleTypeOK
  BY <1>1 DEF ExampleInit, ExampleTypeOK, TaskHandleInvalid, SleepPeriod
<1>3. IsPlan(records, frc, watched)
  BY <1>1, FS_EmptySet DEF ExampleInit, IsPlan, TaskHandleInvalid
<1>4. HasHandle /\ Sought
  BY <1>1 DEF HasHandle, Sought, Positions, ExampleInit
<1> QED BY <1>2, <1>3, <1>4 DEF ExampleInv

\* One lemma for each action.
LEMMA UpdateKeeps ==
    ASSUME ExampleInv, NEW cfg \in ExampleConfigurations, UpdateConfiguration(cfg)
    PROVE  ExampleInv'
<1>1. cfg.frcPeriod \in Int /\ cfg.sleepPeriod \in Int /\ cfg.nodes \in Seq(Nat)
  BY ServiceExampleAssumption
<1>2. state = "made" /\ records' = {} /\ frc' = 0 /\ found' = <<>> /\ asleep' = -1 /\ state' \in {"made", "refused"}
  BY DEF UpdateConfiguration, ExampleInv, ExampleTypeOK
<1>3. frcPeriod' \in Nat /\ sleepPeriod' \in Nat
  BY <1>1 DEF UpdateConfiguration, Uint16
<1>4. /\ watched' \in Seq(Thermometer)
      /\ \A i \in 1..Len(watched') : ~watched'[i].sync /\ watched'[i].handle = 0
  <2>1. CASE watched' = watched
    <3>1. watched = <<>> /\ Len(watched) = 0
      BY DEF UpdateConfiguration
    <3> QED BY <2>1, <3>1
  <2>2. CASE watched' = [i \in 1..Len(cfg.nodes) |-> ScheduleDpaTask(cfg.nodes[i])]
    <3>1. Len(cfg.nodes) \in Nat /\ \A i \in 1..Len(cfg.nodes) : cfg.nodes[i] \in Nat
      BY <1>1
    <3>2. \A i \in 1..Len(cfg.nodes) : ScheduleDpaTask(cfg.nodes[i]) \in Thermometer
      BY <3>1 DEF ScheduleDpaTask, Thermometer, TaskHandleInvalid
    <3>3. watched' \in Seq(Thermometer) /\ Len(watched') = Len(cfg.nodes)
      BY <2>2, <3>1, <3>2
    <3> QED BY <2>2, <3>3 DEF ScheduleDpaTask, TaskHandleInvalid
  <2> QED BY <2>1, <2>2 DEF UpdateConfiguration
<1>5. ExampleTypeOK'
  <2>1. found' \in Seq(Positions')
    BY <1>2
  <2> QED BY <1>2, <1>3, <2>1 DEF ExampleTypeOK
<1>6. IsPlan(records, frc, watched)'
  BY <1>2, <1>4, FS_EmptySet DEF IsPlan
<1>7. HasHandle' /\ Sought'
  BY <1>2, <1>4 DEF HasHandle, Sought, Positions
<1> QED BY <1>5, <1>6, <1>7 DEF ExampleInv

LEMMA StartKeeps == ASSUME ExampleInv, StartService PROVE ExampleInv'
<1>1. /\ ExampleTypeOK /\ IsPlan(records, frc, watched) /\ HasHandle /\ state = "made" /\ state' = "started"
      /\ SetFrcActive(TRUE, {}) /\ UNCHANGED <<frcPeriod, sleepPeriod, watched, found, asleep, givenUp>>
  BY DEF StartService, ExampleInv
<1>2. records = {} /\ frcPeriod \in Nat
  BY <1>1 DEF ExampleTypeOK
<1>3. IsPlan({}, frc, watched)
  BY <1>1, <1>2
<1>4. IsPlan(records', frc', watched) /\ frc' # 0
  BY <1>1, <1>2, <1>3, FrcPlanned
<1>5. IsPlan(records, frc, watched)'
  BY <1>1, <1>4, SamePlanIsPlan
<1>6. ExampleTypeOK'
  BY <1>1 DEF ExampleTypeOK, Positions, SleepPeriod
<1>7. HasHandle' /\ Sought'
  BY <1>1, <1>4 DEF HasHandle, Sought, Positions, First
<1> QED BY <1>5, <1>6, <1>7 DEF ExampleInv

LEMMA StopKeeps == ASSUME ExampleInv, StopService PROVE ExampleInv'
<1>1. /\ ExampleTypeOK /\ IsPlan(records, frc, watched) /\ HasHandle /\ state = "started" /\ state' = "stopped"
      /\ found' = <<>> /\ UNCHANGED <<frcPeriod, sleepPeriod, watched, records, frc, asleep, givenUp>>
  BY DEF StopService, ExampleInv
<1>2. IsPlan(records, frc, watched)'
  BY <1>1, SamePlanIsPlan
<1>3. ExampleTypeOK'
  BY <1>1 DEF ExampleTypeOK, Positions, SleepPeriod
<1> QED BY <1>1, <1>2, <1>3 DEF ExampleInv, HasHandle, Sought, Positions, First

\* A step that leaves all but the tasks on their way.
LEMMA FireKeeps ==
    ASSUME ExampleInv, UNCHANGED <<state, frcPeriod, sleepPeriod, watched, records, frc, found, asleep, givenUp>>
    PROVE  ExampleInv'
<1>1. IsPlan(records, frc, watched)'
  BY SamePlanIsPlan DEF ExampleInv
<1> QED BY <1>1 DEF ExampleInv, ExampleTypeOK, HasHandle, Sought, Positions, First, Waits, SleepPeriod

\* Those who answered wait behind those who waited.
LEMMA Enqueued ==
    ASSUME Len(watched) \in Nat, NEW set \in SUBSET Positions, found \in Seq(Positions), found' \in {found \o s : s \in InOrder(set)}
    PROVE  /\ found' \in Seq(Positions)
           /\ \A i \in Positions : (i \in set \/ Waits(i)) => \E k \in 1..Len(found') : found'[k] = i
<1>1. PICK s \in InOrder(set) : found' = found \o s
  OBVIOUS
<1>2. IsFiniteSet(set)
  <2>1. IsFiniteSet(Positions)
    BY FS_Interval DEF Positions
  <2> QED BY <2>1, FS_Subset
<1>3. Cardinality(set) \in Nat
  BY <1>2, FS_CardinalityType
<1> DEFINE n == Cardinality(set)
<1>4. s \in [1..n -> set] /\ \A i \in set : \E k \in 1..n : s[k] = i
  BY <1>1 DEF InOrder
<1> HIDE DEF n
<1>5. n \in Nat
  BY <1>3 DEF n
<1>6. s \in Seq(Positions) /\ Len(s) = n
  BY <1>4, <1>5
<1>7. found' \in Seq(Positions) /\ Len(found') = Len(found) + n
  <2>1. found \o s \in Seq(Positions) /\ Len(found \o s) = Len(found) + Len(s)
    BY <1>6, ConcatProperties
  <2> QED BY <1>1, <1>6, <2>1
<1>8. /\ \A k \in 1..Len(found) : found'[k] = found[k]
      /\ \A k \in 1..n : found'[Len(found) + k] = s[k]
  BY <1>1, <1>6, <1>5
<1>9. ASSUME NEW i \in set PROVE \E k \in 1..Len(found') : found'[k] = i
  <2>1. PICK k \in 1..n : s[k] = i
    BY <1>4
  <2>2. Len(found) + k \in 1..Len(found')
    BY <1>5, <1>7
  <2> QED BY <1>8, <2>1, <2>2
<1>10. ASSUME NEW i \in Positions, Waits(i) PROVE \E k \in 1..Len(found') : found'[k] = i
  BY <1>5, <1>7, <1>8, <1>10 DEF Waits
<1> QED BY <1>7, <1>9, <1>10

LEMMA ProcessFrcKeeps ==
    ASSUME ExampleInv, NEW answering, ProcessFrc(answering)
    PROVE  ExampleInv'
<1> DEFINE answers == {i \in Positions : ~watched[i].sync /\ watched[i].adr \in answering}
           val == \E i \in Positions \ answers : ~watched[i].sync
<1>1. /\ ExampleTypeOK /\ IsPlan(records, frc, watched) /\ HasHandle /\ state = "started"
      /\ found' \in {found \o s : s \in InOrder(answers)} /\ SetFrcActive(val, records)
      /\ UNCHANGED <<state, frcPeriod, sleepPeriod, watched, asleep, givenUp>>
  BY DEF ProcessFrc, ExampleInv, Handled
<1>2. Len(watched) \in Nat
  BY <1>1 DEF IsPlan
<1>3. /\ found' \in Seq(Positions)
      /\ \A i \in Positions : (i \in answers \/ Waits(i)) => \E k \in 1..Len(found') : found'[k] = i
  <2> HIDE DEF answers
  <2>1. found \in Seq(Positions) /\ answers \in SUBSET Positions
    BY <1>1 DEF ExampleTypeOK, answers
  <2> QED BY <1>1, <1>2, <2>1, Enqueued
<1>4. IsPlan(records', frc', watched) /\ (val => frc' # 0)
  <2> HIDE DEF val
  <2>1. val \in BOOLEAN /\ frcPeriod \in Nat
    BY <1>1 DEF ExampleTypeOK, val
  <2> QED BY <1>1, <2>1, FrcPlanned
<1>5. IsPlan(records, frc, watched)'
  BY <1>1, <1>4, SamePlanIsPlan
<1>6. ExampleTypeOK'
  BY <1>1, <1>3 DEF ExampleTypeOK, Positions, SleepPeriod
<1>7. HasHandle'
  BY <1>1 DEF HasHandle, Positions, First
<1>8. ASSUME NEW i \in Positions, ~watched[i].sync, ~(frc' # 0) PROVE \E k \in 1..Len(found') : found'[k] = i
  BY <1>3, <1>4, <1>8
<1>9. Sought'
  BY <1>1, <1>8 DEF Sought, Positions, Waits
<1> QED BY <1>5, <1>6, <1>7, <1>9 DEF ExampleInv

LEMMA ProcessFoundKeeps == ASSUME ExampleInv, ProcessFound PROVE ExampleInv'
<1> DEFINE i == Head(found)
           left == Without(records, watched[i].handle)
<1>1. /\ ExampleTypeOK /\ IsPlan(records, frc, watched) /\ HasHandle /\ Sought /\ state = "started"
      /\ found # <<>> /\ found' = Tail(found) /\ found \in Seq(Positions) /\ frcPeriod \in Nat /\ sleepPeriod \in Nat
      /\ UNCHANGED <<state, frcPeriod, sleepPeriod, frc, asleep, givenUp>>
  BY DEF ProcessFound, ExampleInv, ExampleTypeOK
<1>2. i \in Positions /\ found' \in Seq(Positions) /\ Len(found') = Len(found) - 1 /\ Len(found) \in Nat /\ found[1] = i
      /\ \A k \in 1..Len(found) - 1 : found'[k] = found[k + 1]
  BY <1>1
<1>3. watched \in Seq(Thermometer)
  BY <1>1 DEF IsPlan
<1>4. ASSUME NEW j \in Positions, Waits(j), j # i PROVE \E k \in 1..Len(found') : found'[k] = j
  <2>1. PICK k \in 1..Len(found) : found[k] = j
    BY <1>4 DEF Waits
  <2>2. k # 1 /\ k - 1 \in 1..Len(found) - 1 /\ found'[k - 1] = found[(k - 1) + 1] /\ (k - 1) + 1 = k
    BY <1>2, <1>4, <2>1
  <2> QED BY <1>2, <2>1, <2>2
<1>5. CASE watched[i].sync
  <2>1. UNCHANGED <<watched, records>>
    BY <1>5 DEF ProcessFound
  <2>2. IsPlan(records, frc, watched)'
    BY <1>1, <2>1, SamePlanIsPlan
  <2>3. ExampleTypeOK'
    BY <1>1, <1>2, <2>1 DEF ExampleTypeOK, Positions, SleepPeriod
  <2>4. HasHandle' /\ Sought'
    BY <1>1, <1>4, <1>5, <2>1 DEF HasHandle, Sought, Positions, First, Waits
  <2> QED BY <2>2, <2>3, <2>4 DEF ExampleInv
<1>6. CASE ~watched[i].sync
  <2> DEFINE h == FreshHandle(left)
  <2>1. /\ watched' = [watched EXCEPT ![i].sync = TRUE, ![i].handle = h]
        /\ records' = Scheduled(left, ReadTask(watched[i].adr), sleepPeriod)
    BY <1>6 DEF ProcessFound
  <2>2. watched[i].handle = 0 /\ i \in 1..Len(watched)
    BY <1>1, <1>2, <1>6 DEF HasHandle, Positions
  <2> HIDE DEF i
  <2>3. Rehandled(watched, watched, i, 0)
    BY <1>3, <2>2 DEF Rehandled
  <2>4. IsPlan(left, frc, watched)
    BY <1>1, <2>2, <2>3, ReadIsRemoved
  <2>5. h \in Nat \ {0}
    BY <2>4, HandleIsFresh DEF IsPlan
  <2> HIDE DEF left
  <2>6. /\ Rehandled(watched, watched', i, h)
        /\ \A j \in 1..Len(watched) : watched'[j].sync = IF j = i THEN TRUE ELSE watched[j].sync
    <3> HIDE DEF h
    <3> DEFINE t == watched[i]
               new == [t EXCEPT !.sync = TRUE, !.handle = h]
    <3>1. t \in Thermometer /\ DOMAIN watched = 1..Len(watched)
      BY <1>3, <2>2
    <3>2. watched' = [watched EXCEPT ![i] = new]
      BY <2>1, <2>2, <3>1
    <3>3. new \in Thermometer /\ new.adr = t.adr /\ new.sync = TRUE /\ new.handle = h
      <4> HIDE DEF t
      <4> QED BY <2>5, <3>1 DEF Thermometer
    <3> HIDE DEF new
    <3>4. /\ watched' \in Seq(Thermometer) /\ Len(watched') = Len(watched)
          /\ \A j \in 1..Len(watched) : watched'[j] = IF j = i THEN new ELSE watched[j]
      BY <1>3, <2>2, <3>1, <3>2, <3>3
    <3> QED BY <3>3, <3>4 DEF Rehandled
  <2>7. IsPlan(records', frc', watched')
    BY <1>1, <2>1, <2>2, <2>4, <2>6, ReadIsPlanned
  <2>8. IsPlan(records, frc, watched)'
    BY <1>1, <2>7, SamePlanIsPlan
  <2> HIDE DEF h
  <2>9. Len(watched') = Len(watched) /\ \A j \in 1..Len(watched) : watched'[j].adr = watched[j].adr /\ watched'[j].handle = IF j = i THEN h ELSE watched[j].handle
    BY <2>6 DEF Rehandled
  <2>10. ExampleTypeOK'
    BY <1>1, <1>2, <2>9 DEF ExampleTypeOK, Positions, SleepPeriod
  <2>11. \A j \in Positions : First(j)' <=> First(j)
    <3> SUFFICES ASSUME NEW j \in Positions PROVE First(j)' <=> First(j)
      OBVIOUS
    <3>1. \A l \in 1..(j - 1) : l \in 1..Len(watched)
      BY <1>3 DEF Positions
    <3> QED BY <2>9, <3>1 DEF First, Positions
  <2>12. HasHandle'
    BY <1>1, <2>5, <2>6, <2>9, <2>11 DEF HasHandle, Positions
  <2>13. Sought'
    BY <1>1, <1>4, <2>6, <2>9 DEF Sought, Positions, Waits
  <2> QED BY <2>8, <2>10, <2>12, <2>13 DEF ExampleInv
<1> QED BY <1>5, <1>6

LEMMA ReadKeeps ==
    ASSUME ExampleInv, NEW i \in Positions, NEW result \in {"data", "timeout", "error"}, ReadThermometer(i, result)
    PROVE  ExampleInv'
<1> DEFINE left == Without(records, watched[i].handle)
<1>1. /\ ExampleTypeOK /\ IsPlan(records, frc, watched) /\ HasHandle /\ Sought /\ state = "started" /\ First(i)
      /\ frcPeriod \in Nat /\ sleepPeriod \in Nat /\ asleep' = SleepPeriod
      /\ UNCHANGED <<state, frcPeriod, sleepPeriod, found>>
  BY DEF ReadThermometer, Handled, ExampleInv, ExampleTypeOK
<1>2. watched \in Seq(Thermometer) /\ i \in 1..Len(watched) /\ Len(watched) \in Nat
  BY <1>1 DEF IsPlan, Positions
<1>3. CASE result = "data"
  <2>1. UNCHANGED <<watched, records, frc, givenUp>>
    BY <1>3 DEF ReadThermometer
  <2>2. IsPlan(records, frc, watched)'
    BY <1>1, <2>1, SamePlanIsPlan
  <2>3. ExampleTypeOK'
    BY <1>1, <2>1 DEF ExampleTypeOK, Positions, SleepPeriod
  <2>4. HasHandle' /\ Sought'
    BY <1>1, <2>1 DEF HasHandle, Sought, Positions, First, Waits
  <2> QED BY <2>2, <2>3, <2>4 DEF ExampleInv
<1> DEFINE t == watched[i]
           lost == [t EXCEPT !.sync = FALSE, !.handle = TaskHandleInvalid]
           dropped == [t EXCEPT !.handle = TaskHandleInvalid]
<1>4. t \in Thermometer /\ DOMAIN watched = 1..Len(watched)
  BY <1>2
<1>5. /\ lost \in Thermometer /\ lost.adr = t.adr /\ lost.sync = FALSE /\ lost.handle = 0
      /\ dropped \in Thermometer /\ dropped.adr = t.adr /\ dropped.sync = t.sync /\ dropped.handle = 0
  <2> HIDE DEF t
  <2> QED BY <1>4 DEF Thermometer, TaskHandleInvalid
<1>6. ASSUME NEW new \in {lost, dropped}, watched' = [watched EXCEPT ![i] = new]
      PROVE  /\ Rehandled(watched, watched', i, 0) /\ Len(watched') = Len(watched)
             /\ \A j \in 1..Len(watched) : /\ watched'[j].sync = IF j = i THEN new.sync ELSE watched[j].sync
                                           /\ watched'[j].adr = watched[j].adr
                                           /\ watched'[j].handle = IF j = i THEN 0 ELSE watched[j].handle
             /\ \A j \in Positions : First(j)' <=> First(j)
             /\ IsPlan(left, frc, watched')
  <2>0. new \in Thermometer /\ new.adr = t.adr /\ new.handle = 0
    BY <1>5
  <2> HIDE DEF lost, dropped
  <2>1. /\ watched' \in Seq(Thermometer) /\ Len(watched') = Len(watched)
        /\ \A j \in 1..Len(watched) : watched'[j] = IF j = i THEN new ELSE watched[j]
    BY <1>2, <1>4, <1>6, <2>0
  <2>2. Rehandled(watched, watched', i, 0)
    BY <2>0, <2>1 DEF Rehandled
  <2>3. \A j \in Positions : First(j)' <=> First(j)
    <3> SUFFICES ASSUME NEW j \in Positions PROVE First(j)' <=> First(j)
      OBVIOUS
    <3>1. \A l \in 1..(j - 1) : l \in 1..Len(watched)
      BY <1>2 DEF Positions
    <3>2. \A l \in 1..Len(watched) : watched'[l].adr = watched[l].adr
      BY <2>0, <2>1
    <3> QED BY <3>1, <3>2 DEF First, Positions
  <2>4. IsPlan(left, frc, watched')
    BY <1>1, <1>2, <2>2, ReadIsRemoved
  <2> QED BY <2>0, <2>1, <2>2, <2>3, <2>4
<1>7. CASE result = "timeout"
  <2>1. /\ watched' = [watched EXCEPT ![i].sync = FALSE, ![i].handle = TaskHandleInvalid]
        /\ SetFrcActive(TRUE, left) /\ UNCHANGED givenUp
    BY <1>7 DEF ReadThermometer
  <2>2. watched' = [watched EXCEPT ![i] = lost]
    BY <1>4, <2>1
  <2>3. /\ Len(watched') = Len(watched) /\ IsPlan(left, frc, watched')
        /\ \A j \in 1..Len(watched) : /\ watched'[j].sync = IF j = i THEN lost.sync ELSE watched[j].sync
                                      /\ watched'[j].adr = watched[j].adr
                                      /\ watched'[j].handle = IF j = i THEN 0 ELSE watched[j].handle
        /\ \A j \in Positions : First(j)' <=> First(j)
    <3> HIDE DEF lost, dropped
    <3> QED BY <1>6, <2>2
  <2>4. lost.sync = FALSE
    BY <1>5
  <2> HIDE DEF lost, dropped, left
  <2>5. IsPlan(records', frc', watched') /\ frc' # 0
    BY <1>1, <2>1, <2>3, FrcPlanned
  <2>6. IsPlan(records, frc, watched)'
    BY <1>1, <2>5, SamePlanIsPlan
  <2>7. ExampleTypeOK'
    BY <1>1, <2>3 DEF ExampleTypeOK, Positions, SleepPeriod
  <2>8. ASSUME NEW j \in Positions
        PROVE  IF watched'[j].sync THEN watched'[j].handle = 0 => First(j)' /\ watched'[j].adr \in givenUp'
               ELSE watched'[j].handle = 0
    <3>1. j \in 1..Len(watched)
      BY DEF Positions
    <3>2. CASE j = i
      BY <2>3, <2>4, <3>1, <3>2
    <3>3. CASE j # i
      <4>1. watched'[j].sync = watched[j].sync /\ watched'[j].adr = watched[j].adr /\ watched'[j].handle = watched[j].handle
        BY <2>3, <3>1, <3>3
      <4>2. givenUp' = givenUp
        BY <2>1
      <4>3. First(j)' <=> First(j)
        BY <2>3
      <4> QED BY <1>1, <4>1, <4>2, <4>3 DEF HasHandle
    <3> QED BY <3>2, <3>3
  <2>10. HasHandle'
    BY <2>3, <2>8 DEF HasHandle, Positions
  <2>9. Sought'
    BY <2>5 DEF Sought
  <2> QED BY <2>6, <2>7, <2>9, <2>10 DEF ExampleInv
<1>8. CASE result = "error"
  <2>1. /\ watched' = [watched EXCEPT ![i].handle = TaskHandleInvalid]
        /\ records' = left /\ givenUp' = givenUp \union {watched[i].adr} /\ UNCHANGED frc
    BY <1>8 DEF ReadThermometer
  <2>2. watched' = [watched EXCEPT ![i] = dropped]
    BY <1>4, <2>1
  <2>3. /\ Len(watched') = Len(watched) /\ IsPlan(left, frc, watched')
        /\ \A j \in 1..Len(watched) : /\ watched'[j].sync = IF j = i THEN dropped.sync ELSE watched[j].sync
                                      /\ watched'[j].adr = watched[j].adr
                                      /\ watched'[j].handle = IF j = i THEN 0 ELSE watched[j].handle
        /\ \A j \in Positions : First(j)' <=> First(j)
    <3> HIDE DEF lost, dropped
    <3> QED BY <1>6, <2>2
  <2>4. dropped.sync = watched[i].sync
    BY <1>5
  <2> HIDE DEF lost, dropped, left
  <2>5. IsPlan(records', frc', watched') /\ frc' = frc
    BY <2>1, <2>3
  <2>6. IsPlan(records, frc, watched)'
    BY <1>1, <2>5, SamePlanIsPlan
  <2>7. ExampleTypeOK'
    BY <1>1, <2>3 DEF ExampleTypeOK, Positions, SleepPeriod
  <2>8. ASSUME NEW j \in Positions
        PROVE  IF watched'[j].sync THEN watched'[j].handle = 0 => First(j)' /\ watched'[j].adr \in givenUp'
               ELSE watched'[j].handle = 0
    <3>1. j \in 1..Len(watched) /\ watched[i].adr \in givenUp'
      BY <2>1 DEF Positions
    <3>2. CASE j = i
      <4>1. First(j)'
        BY <1>1, <2>3, <3>2
      <4>2. watched'[j].adr \in givenUp' /\ watched'[j].handle = 0
        BY <2>3, <3>1, <3>2
      <4> QED BY <4>1, <4>2
    <3>3. CASE j # i
      <4>1. watched'[j].sync = watched[j].sync /\ watched'[j].adr = watched[j].adr /\ watched'[j].handle = watched[j].handle
        BY <2>3, <3>1, <3>3
      <4>2. givenUp \subseteq givenUp'
        BY <2>1
      <4>3. First(j)' <=> First(j)
        BY <2>3
      <4> QED BY <1>1, <4>1, <4>2, <4>3 DEF HasHandle
    <3> QED BY <3>2, <3>3
  <2>10. HasHandle'
    BY <2>3, <2>8 DEF HasHandle, Positions
  <2>9. Sought'
    BY <1>1, <2>3, <2>4, <2>5 DEF Sought, Positions, Waits
  <2> QED BY <2>6, <2>7, <2>9, <2>10 DEF ExampleInv
<1> QED BY <1>3, <1>7, <1>8

LEMMA ExampleStep == ExampleInv /\ [ExampleNext]_exampleVars => ExampleInv'
<1> SUFFICES ASSUME ExampleInv, [ExampleNext]_exampleVars PROVE ExampleInv'
  OBVIOUS
<1>1. CASE FrcFails \/ InvalidAddress \/ (\E record \in records : FireTask(record)) \/ UNCHANGED exampleVars
  BY <1>1, FireKeeps DEF FrcFails, InvalidAddress, FireTask, exampleVars
<1>2. CASE \E answering \in SUBSET Nodes : ProcessFrc(answering)
  BY <1>2, ProcessFrcKeeps
<1>3. CASE \E i \in Positions, result \in {"data", "timeout", "error"} : ReadThermometer(i, result)
  BY <1>3, ReadKeeps
<1>4. CASE \E cfg \in ExampleConfigurations : UpdateConfiguration(cfg)
  BY <1>4, UpdateKeeps
<1>5. CASE StartService \/ StopService \/ ProcessFound
  BY <1>5, StartKeeps, StopKeeps, ProcessFoundKeeps
<1> QED BY <1>1, <1>2, <1>3, <1>4, <1>5 DEF ExampleNext

\* The example's service, for any configuration and whatever the network answers: each
\* thermometer is sought, waits in the queue or is read by a record of its own address, which
\* the service can remove; only one whose reading failed otherwise than by a timeout may have
\* none; and a thermometer that was sent to sleep wakes before it is read again.
THEOREM ThermometersRead == ExampleSpec => []ThermometersAreRead
<1>1. ExampleInv => ThermometersAreRead
  <2> SUFFICES ASSUME ExampleInv PROVE ThermometersAreRead
    OBVIOUS
  <2>0. ExampleTypeOK /\ IsPlan(records, frc, watched) /\ HasHandle /\ Sought /\ TaskHandleInvalid = 0
    BY DEF ExampleInv, TaskHandleInvalid
  <2>1. ASSUME state = "started", NEW i \in Positions
        PROVE  /\ watched[i].sync \/ frc # TaskHandleInvalid \/ Waits(i)
               /\ watched[i].sync => \/ \E r \in records : RecordsOf(i) = {r}
                                     \/ First(i) /\ watched[i].adr \in givenUp
               /\ \A r \in RecordsOf(i) : r.task = ReadTask(watched[i].adr)
    <3>1. watched[i].sync \/ frc # 0 \/ Waits(i)
      BY <2>0, <2>1 DEF Sought
    <3>2. CASE watched[i].handle = 0
      <4>1. RecordsOf(i) = {}
        BY <2>0, <3>2 DEF RecordsOf, IsPlan, ThermometerRecord
      <4> QED BY <2>0, <3>1, <3>2, <4>1 DEF HasHandle
    <3>3. CASE watched[i].handle # 0
      <4>1. PICK r \in records : r.handle = watched[i].handle
        BY <2>0, <3>3 DEF IsPlan, Positions
      <4>2. RecordsOf(i) = {r}
        BY <2>0, <4>1 DEF RecordsOf, IsPlan
      <4>3. r.task = ReadTask(watched[i].adr)
        <5>1. r.handle # frc
          BY <2>0, <3>3, <4>1 DEF IsPlan, Positions
        <5> QED BY <2>0, <3>3, <4>1, <5>1 DEF IsPlan, Positions
      <4> QED BY <2>0, <3>1, <4>2, <4>3
    <3> QED BY <3>2, <3>3
  <2>2. {r.handle : r \in records} \subseteq {frc} \union {watched[i].handle : i \in Positions}
    BY <2>0 DEF IsPlan, Positions
  <2>3. AwakeWhenRead
    <3> SUFFICES ASSUME asleep >= 0, NEW r \in records, r.task # FrcTask PROVE asleep = 0 \/ asleep < r.period
      BY DEF AwakeWhenRead
    <3>1. r.period = sleepPeriod
      BY <2>0 DEF IsPlan
    <3> QED BY <2>0, <3>1 DEF ExampleTypeOK, SleepPeriod
  <2> QED BY <2>1, <2>2, <2>3 DEF ThermometersAreRead, ThermometerIsSoughtOrRead
<1> QED BY <1>1, ExampleStarts, ExampleStep, PTL DEF ExampleSpec
=============================================================================

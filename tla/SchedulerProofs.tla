---------------------------- MODULE SchedulerProofs ----------------------------
(***************************************************************************)
(* What Scheduler.tla guarantees for any set of handles, clients and plans *)
(* and however long the clock runs: its types; that the timer thread never *)
(* sleeps over a record or over stop(); that the two tables agree; that a  *)
(* removed record is not picked and a one-shot is handed on once; that no  *)
(* record is lost on its way; and that the queue is used as promised.      *)
(*                                                                         *)
(* The inductive invariant follows timePoint through the whole round of    *)
(* the timer, and a one-shot record through table, hand and queue.         *)
(***************************************************************************)
EXTENDS Scheduler, TLAPS

\* A record that exists has a plan; a pattern has a positive distance.
Records ==
    \A h \in Handles :
        /\ record[h].kind = "cron" => record[h].period > 0
        /\ record[h] = NoRecord <=> record[h].kind = "none"
        /\ record[h].kind = "none" => h \notin byHandle \union removed

\* The timer holds a record exactly when it is about to fire it.
Hand == timer = "fire" <=> hand.handle \in Handles

\* Outside of the wait's end and the reading of the clock, timePoint is not
\* later than the earliest record, or has come, or a push is pending.
Wakeup ==
    timer \in {"test", "wait", "loop", "fire"} /\ ~pushed =>
        timePoint <= now \/ \A h \in Planned(byTime) : timePoint <= byTime[h]

\* m_runTimerThread is set between start() and stop(); start() starts the timer.
Running == (runTimer <=> main = "run") /\ (main = "configure" => timer = "none")

\* A one-shot record is in the table, in the timer's hand, or has been fired.
OneShot ==
    \A h \in Handles : record[h].kind \in {"at", "none"} =>
        /\ byTime[h] # Off =>
             byTime[h] = record[h].start /\ fired[h] = 0 /\ hand.handle # h
        /\ hand.handle = h => fired[h] = 0
        /\ fired[h] <= 1
        /\ record[h].kind = "none" => byTime[h] = Off /\ hand.handle # h /\ fired[h] = 0

IInv ==
    /\ TypeOK /\ Records /\ Hand
    /\ TablesAgree /\ Wakeup /\ Running /\ StopIsNoticed /\ OneShot

-----------------------------------------------------------------------------
\* The record of a handle before it is planned has no plan.
LEMMA NoRecordType ==
    NoRecord \in [kind : {"none"}, client : Clients, start : {0}, period : {0}]
BY SchedulerAssumption DEF NoRecord

\* The constructor establishes the invariant.
LEMMA InvInit == Init => IInv
<1> SUFFICES ASSUME Init PROVE IInv
  OBVIOUS
<1> USE SchedulerAssumption, NoRecordType DEF Init, TaskQueue!AbsInit, NoHand, Off
<1>1. <<>> \in Seq(Handles)
  OBVIOUS
<1>2. TypeOK
  <2>1. now \in 0..MaxTime /\ timePoint \in Nat /\ timeStr \in Nat
    OBVIOUS
  <2>2. record \in [Handles -> [kind : Kind \union {"none"}, client : Clients,
                                start : Nat, period : Nat]]
    OBVIOUS
  <2>3. hand \in [handle : Handles \union {NoHandle}, due : Nat]
    OBVIOUS
  <2>4. byTime \in [Handles -> Nat \union {Off}] /\ fired \in [Handles -> Nat]
    OBVIOUS
  <2> QED BY <1>1, <2>1, <2>2, <2>3, <2>4 DEF TypeOK
<1>3. Records
  BY DEF Records
<1>4. Hand /\ TablesAgree /\ Wakeup /\ Running /\ StopIsNoticed /\ OneShot
  BY DEF Hand, TablesAgree, Wakeup, Running, StopIsNoticed, OneShot, Planned
<1> QED BY <1>2, <1>3, <1>4 DEF IInv

\* The times that a record answers are natural numbers.
LEMMA NextIsNat ==
    ASSUME NEW r \in [kind : Kind \union {"none"}, client : Clients, start : Nat, period : Nat],
           NEW tp \in Nat, NEW actual \in Nat, r.kind = "cron" => r.period > 0
    PROVE  GetNext(r, tp, actual) \in Nat /\ FirstTime(r, actual) \in Nat
<1>1. r.start \in Nat /\ r.period \in Nat
  OBVIOUS
<1>2. ASSUME r.kind = "cron", NEW t \in Nat PROVE t + (r.period - (actual % r.period)) \in Nat
  <2>1. actual % r.period \in 0..(r.period - 1)
    BY <1>1, <1>2
  <2> QED BY <1>1, <2>1
<1> QED BY <1>1, <1>2 DEF GetNext, FirstTime
-----------------------------------------------------------------------------
(* Preservation: one lemma for each kind of step.                          *)

\* A client, or the configuration, plans a record.
LEMMA AddStep ==
    ASSUME IInv, NEW h \in Handles, NEW c \in Clients, NEW plan \in Plans,
           AddScheduleRecord(h, c, plan)
    PROVE  IInv'
<1> USE SchedulerAssumption
    DEF IInv, TypeOK, Records, Hand, TablesAgree, Wakeup, Running, StopIsNoticed,
        OneShot, Planned, NoHand, planVars, runVars, timerVars, queueVars,
        AddScheduleRecord, Plan
<1> DEFINE r == [kind |-> plan.kind, client |-> c, start |-> now + plan.delay,
                 period |-> plan.period]
<1>1. plan \in Plan
  OBVIOUS
<1>2. r \in [kind : Kind \union {"none"}, client : Clients, start : Nat, period : Nat]
  BY <1>1
<1>3. r.kind \in Kind /\ (r.kind = "cron" => r.period > 0)
  BY <1>1
<1>4. FirstTime(r, now) \in Nat /\ (r.kind = "at" => FirstTime(r, now) = r.start)
  BY <1>2, <1>3, NextIsNat DEF FirstTime
<1>5. r.kind # "none" /\ r # NoRecord /\ NoRecord.kind = "none"
  BY <1>3 DEF Kind, NoRecord
<1>6. TypeOK'
  BY <1>2, <1>3, <1>4, <1>5
<1>7. Records'
  BY <1>2, <1>3, <1>4, <1>5
<1>8. Hand' /\ Running' /\ StopIsNoticed'
  BY <1>2, <1>3, <1>4, <1>5
<1>9. TablesAgree'
  BY <1>2, <1>3, <1>4, <1>5
<1>10. Wakeup'
  BY <1>2, <1>3, <1>4, <1>5
<1>11. OneShot'
  BY <1>2, <1>3, <1>4, <1>5
<1> QED BY <1>6, <1>7, <1>8, <1>9, <1>10, <1>11

\* A client removes one of its records, or all of them.
LEMMA RemoveStep ==
    ASSUME IInv, (\E h \in Handles : RemoveTask(h)) \/ (\E c \in Clients : RemoveAllMyTasks(c))
    PROVE  IInv'
<1> USE SchedulerAssumption
    DEF IInv, TypeOK, Records, Hand, TablesAgree, Wakeup, Running, StopIsNoticed,
        OneShot, Planned, NoHand, planVars, runVars, timerVars, queueVars,
        RemoveTask, RemoveAllMyTasks, MyTasks
<1>1. /\ byTime' \in [Handles -> Nat \union {Off}]
      /\ \A g \in Handles : byTime'[g] = Off \/ byTime'[g] = byTime[g]
  <2>1. CASE \E h \in Handles : RemoveTask(h)
    <3> PICK h \in Handles : byTime' = [byTime EXCEPT ![h] = Off]
      BY <2>1
    <3> QED OBVIOUS
  <2>2. CASE \E c \in Clients : RemoveAllMyTasks(c)
    <3> PICK c \in Clients :
          byTime' = [h \in Handles |-> IF h \in MyTasks(c) THEN Off ELSE byTime[h]]
      BY <2>2
    <3> HIDE DEF MyTasks
    <3> QED OBVIOUS
  <2> QED BY <2>1, <2>2
<1>2. /\ byHandle' \subseteq byHandle /\ removed' \subseteq removed \union byHandle
      /\ removed' \intersect byHandle' = {}
      /\ \A g \in byHandle \ byHandle' : byTime'[g] = Off
  OBVIOUS
<1>3. UNCHANGED <<now, record, pushed, runVars, timerVars, queueVars, registered, fired>>
  OBVIOUS
<1>4. TypeOK'
  BY <1>1, <1>2, <1>3
<1>5. Records'
  BY <1>1, <1>2, <1>3
<1>6. Hand' /\ Running' /\ StopIsNoticed'
  BY <1>1, <1>2, <1>3
<1>7. TablesAgree'
  BY <1>1, <1>2, <1>3
<1>8. Wakeup'
  BY <1>1, <1>2, <1>3
<1>9. OneShot'
  BY <1>1, <1>2, <1>3
<1> QED BY <1>4, <1>5, <1>6, <1>7, <1>8, <1>9

\* The timer picks a record, plans its next time and the next wake-up.
LEMMA PickStep ==
    ASSUME IInv, NEW h \in Handles, PickDue(h)
    PROVE  IInv'
<1> USE SchedulerAssumption
    DEF IInv, TypeOK, Records, Hand, TablesAgree, Wakeup, Running, StopIsNoticed,
        OneShot, Planned, NoHand, planVars, runVars, timerVars, queueVars,
        PickDue, Earliest
<1> DEFINE next == GetNext(record[h], timePoint, timeStr)
<1> DEFINE table == [byTime EXCEPT ![h] = IF next >= timePoint THEN next ELSE Off]
<1>1. next \in Nat
  BY NextIsNat
<1>2. table \in [Handles -> Nat \union {Off}] /\ byTime' = table
  BY <1>1
<1>3. NextWakeup(table) /\ byTime[h] # Off /\ byTime[h] < timePoint
  OBVIOUS
<1>4. timePoint' \in Nat
  BY <1>2, <1>3 DEF NextWakeup
<1>5. record[h].kind = "at" => next = record[h].start
  BY DEF GetNext
<1>6. TypeOK'
  BY <1>1, <1>2, <1>3, <1>4, <1>5
<1>7. Records'
  BY <1>1, <1>2, <1>3, <1>4, <1>5
<1>8. Hand' /\ Running' /\ StopIsNoticed'
  BY <1>1, <1>2, <1>3, <1>4, <1>5
<1>9. TablesAgree'
  BY <1>1, <1>2, <1>3, <1>4, <1>5
<1>10. Wakeup'
  <2>1. ASSUME NEW g \in Handles, byTime'[g] # Off PROVE timePoint' <= byTime'[g]
    <3>1. g \in Planned(table) /\ byTime'[g] = table[g]
      BY ONLY <1>2, <2>1 DEF Planned
    <3>2. PICK e \in Earliest(table) : timePoint' = table[e]
      BY ONLY <1>3, <3>1 DEF NextWakeup
    <3> QED BY ONLY <3>1, <3>2 DEF Earliest
  <2> QED BY ONLY <2>1 DEF Wakeup, Planned
<1>11. OneShot'
  BY <1>1, <1>2, <1>3, <1>4, <1>5
<1> QED BY <1>6, <1>7, <1>8, <1>9, <1>10, <1>11

\* The timer pushes the copy in its hand, or finds that the pattern does not match.
LEMMA FireStep ==
    ASSUME IInv, Fire
    PROVE  IInv'
<1> USE SchedulerAssumption
    DEF IInv, TypeOK, Records, Hand, TablesAgree, Wakeup, Running, StopIsNoticed,
        OneShot, Planned, NoHand, planVars, runVars, timerVars, queueVars,
        Fire, TaskQueue!Accept
<1>1. hand.handle \in Handles
  OBVIOUS
<1>2. \/ TaskQueue!Accept(hand.handle) /\ fired' = [fired EXCEPT ![hand.handle] = @ + 1]
      \/ UNCHANGED <<queueVars, fired>>
  OBVIOUS
<1>3. /\ queue' \in Seq(Handles) /\ current' = current /\ running' = running
      /\ fired' \in [Handles -> Nat]
      /\ \A h \in Handles : fired'[h] \in {fired[h], fired[h] + 1}
      /\ \A h \in Handles : h # hand.handle => fired'[h] = fired[h]
  <2>1. CASE UNCHANGED <<queueVars, fired>>
    BY <2>1
  <2>2. CASE TaskQueue!Accept(hand.handle) /\ fired' = [fired EXCEPT ![hand.handle] = @ + 1]
    <3>1. queue \in Seq(Handles) /\ queue' = Append(queue, hand.handle)
      BY <2>2
    <3>2. queue' \in Seq(Handles)
      BY <1>1, <3>1
    <3> QED BY <1>1, <2>2, <3>2
  <2> QED BY <1>2, <2>1, <2>2
<1>4. hand' = NoHand /\ timer' = "loop"
  OBVIOUS
<1>5. UNCHANGED <<now, planVars, pushed, runVars, timePoint, timeStr, registered, removed>>
  OBVIOUS
<1>6. \A h \in Handles : hand'.handle # h
  BY <1>4
<1>7. hand' \in [handle : Handles \union {NoHandle}, due : Nat]
  OBVIOUS
<1> HIDE DEF Fire, TaskQueue!Accept
<1>8. TypeOK'
  BY <1>1, <1>7, <1>3, <1>4, <1>5, <1>6
<1>9. Records'
  BY <1>1, <1>7, <1>3, <1>4, <1>5, <1>6
<1>10. Hand' /\ Running' /\ StopIsNoticed'
  BY <1>1, <1>7, <1>3, <1>4, <1>5, <1>6
<1>11. TablesAgree'
  BY <1>1, <1>7, <1>3, <1>4, <1>5, <1>6
<1>12. Wakeup'
  BY <1>1, <1>7, <1>3, <1>4, <1>5, <1>6
<1>13. OneShot'
  BY <1>1, <1>3, <1>5, <1>6
<1> QED BY <1>8, <1>9, <1>10, <1>11, <1>12, <1>13

\* The remaining steps of the timer change no table.
LEMMA OtherTimerStep ==
    ASSUME IInv, TimerStarts \/ TimerTests \/ TimerWakes \/ TimerGetsTime \/ LoopEnds
    PROVE  IInv'
<1> USE SchedulerAssumption
    DEF IInv, TypeOK, Records, Hand, TablesAgree, Wakeup, Running, StopIsNoticed,
        OneShot, Planned, NoHand, planVars, runVars, timerVars, queueVars,
        TimerStarts, TimerTests, TimerWakes, TimerGetsTime, LoopEnds
<1>1. /\ now \in Nat
      /\ UNCHANGED <<now, planVars, runVars, hand, queueVars, registered, removed, fired>>
  OBVIOUS
<1>2. timePoint' \in Nat /\ timeStr' \in Nat /\ pushed' \in BOOLEAN
  BY <1>1
<1>3. timer' \in {"test", "wait", "getTime", "loop", "done"}
  OBVIOUS
<1>4. TypeOK'
  BY <1>1, <1>2, <1>3
<1>5. Records'
  BY <1>1, <1>2, <1>3
<1>6. Hand' /\ Running' /\ StopIsNoticed'
  BY <1>1, <1>2, <1>3
<1>7. TablesAgree'
  BY <1>1, <1>2, <1>3
<1>8. Wakeup'
  BY <1>1, <1>2, <1>3
<1>9. OneShot'
  BY <1>1, <1>2, <1>3
<1> QED BY <1>4, <1>5, <1>6, <1>7, <1>8, <1>9

\* The timer finds nothing due and plans the next wake-up.
LEMMA NothingDueStep ==
    ASSUME IInv, NothingDue
    PROVE  IInv'
<1> USE SchedulerAssumption
    DEF IInv, TypeOK, Records, Hand, TablesAgree, Wakeup, Running, StopIsNoticed,
        OneShot, Planned, NoHand, planVars, runVars, timerVars, queueVars,
        NothingDue, NextWakeup, Earliest
<1>1. TypeOK'
  OBVIOUS
<1>2. Records'
  OBVIOUS
<1>3. Hand' /\ Running' /\ StopIsNoticed'
  OBVIOUS
<1>4. TablesAgree'
  OBVIOUS
<1>5. Wakeup'
  OBVIOUS
<1>6. OneShot'
  OBVIOUS
<1> QED BY <1>1, <1>2, <1>3, <1>4, <1>5, <1>6

\* start() and the three steps of stop().
LEMMA MainStep ==
    ASSUME IInv, Start \/ StopNext
    PROVE  IInv'
<1> USE SchedulerAssumption
    DEF IInv, TypeOK, Records, Hand, TablesAgree, Wakeup, Running, StopIsNoticed,
        OneShot, Planned, NoHand, planVars, runVars, timerVars, queueVars,
        Start, StopNext, StopTimer, NotifyStop, StopQueue, TaskQueue!Stop
<1>1. TypeOK'
  BY ZenonT(60)
<1>2. Records'
  OBVIOUS
<1>3. Hand' /\ Running' /\ StopIsNoticed'
  OBVIOUS
<1>4. TablesAgree'
  OBVIOUS
<1>5. Wakeup'
  OBVIOUS
<1>6. OneShot'
  OBVIOUS
<1> QED BY <1>1, <1>2, <1>3, <1>4, <1>5, <1>6

\* The worker of the queue takes a task, or has handled it.
LEMMA WorkerStep ==
    ASSUME IInv, WorkerNext
    PROVE  IInv'
<1> USE SchedulerAssumption
    DEF IInv, TypeOK, Records, Hand, TablesAgree, Wakeup, Running, StopIsNoticed,
        OneShot, Planned, NoHand, planVars, runVars, timerVars, queueVars,
        WorkerNext, TakeTask, TaskHandled, TaskQueue!Take, TaskQueue!Finish
<1>1. queue' \in Seq(Handles) /\ current' \in Handles \union {NoHandle} /\ running' \in BOOLEAN
  <2>1. CASE TakeTask
    <3>1. queue \in Seq(Handles) /\ queue # <<>>
      BY <2>1
    <3>2. Head(queue) \in Handles /\ Tail(queue) \in Seq(Handles)
      BY <3>1
    <3> QED BY <2>1, <3>2
  <2>2. CASE TaskHandled
    BY <2>2
  <2> QED BY <2>1, <2>2
<1>2. UNCHANGED <<now, planVars, pushed, runVars, timerVars, registered, removed, fired>>
  OBVIOUS
<1>3. TypeOK'
  BY <1>1, <1>2
<1>4. Records'
  BY <1>1, <1>2
<1>5. Hand' /\ Running' /\ StopIsNoticed'
  BY <1>1, <1>2
<1>6. TablesAgree'
  BY <1>1, <1>2
<1>7. Wakeup'
  BY <1>1, <1>2
<1>8. OneShot'
  BY <1>1, <1>2
<1> QED BY <1>3, <1>4, <1>5, <1>6, <1>7, <1>8

\* Time passes.
LEMMA ClockStep ==
    ASSUME IInv, Tick
    PROVE  IInv'
<1> USE SchedulerAssumption
    DEF IInv, TypeOK, Records, Hand, TablesAgree, Wakeup, Running, StopIsNoticed,
        OneShot, Planned, NoHand, planVars, runVars, timerVars, queueVars,
        Tick
<1>1. now' \in 0..MaxTime /\ now \in Nat /\ now' = now + 1
  OBVIOUS
<1>2. TypeOK'
  BY <1>1
<1>3. Records'
  BY <1>1
<1>4. Hand' /\ Running' /\ StopIsNoticed'
  BY <1>1
<1>5. TablesAgree'
  BY <1>1
<1>6. Wakeup'
  BY <1>1
<1>7. OneShot'
  BY <1>1
<1> QED BY <1>2, <1>3, <1>4, <1>5, <1>6, <1>7

\* Handlers are registered and unregistered, or nothing happens.
LEMMA RestStep ==
    ASSUME IInv, \/ UNCHANGED vars
           \/ \E c \in Clients : RegisterMessageHandler(c) \/ UnregisterMessageHandler(c)
    PROVE  IInv'
<1> USE SchedulerAssumption
    DEF IInv, TypeOK, Records, Hand, TablesAgree, Wakeup, Running, StopIsNoticed,
        OneShot, Planned, NoHand, planVars, runVars, timerVars, queueVars,
        RegisterMessageHandler, UnregisterMessageHandler, vars
<1>1. TypeOK'
  OBVIOUS
<1>2. Records'
  OBVIOUS
<1>3. Hand' /\ Running' /\ StopIsNoticed'
  OBVIOUS
<1>4. TablesAgree'
  OBVIOUS
<1>5. Wakeup'
  OBVIOUS
<1>6. OneShot'
  OBVIOUS
<1> QED BY <1>1, <1>2, <1>3, <1>4, <1>5, <1>6

-----------------------------------------------------------------------------
(* The invariant, and what follows from it.                                *)

\* Every step of clients, timer, worker, clock and stop() keeps the invariant.
LEMMA InvStep == IInv /\ [Next]_vars => IInv'
<1> SUFFICES ASSUME IInv, [Next]_vars PROVE IInv'
  OBVIOUS
<1>1. CASE \E c \in Clients : ClientNext(c)
  <2> PICK c \in Clients : ClientNext(c)
    BY <1>1
  <2> QED BY AddStep, RemoveStep, RestStep DEF ClientNext
<1>2. CASE TimerNext
  BY <1>2, PickStep, FireStep, NothingDueStep, OtherTimerStep DEF TimerNext
<1>3. CASE WorkerNext
  BY <1>3, WorkerStep
<1>4. CASE Start \/ StopNext
  BY <1>4, MainStep
<1>5. CASE Tick
  BY <1>5, ClockStep
<1>6. CASE UNCHANGED vars
  BY <1>6, RestStep
<1> QED BY <1>1, <1>2, <1>3, <1>4, <1>5, <1>6 DEF Next

LEMMA Invariance == Spec => []IInv
BY InvInit, InvStep, PTL DEF Spec

\* Every variable has its type, however many records and clients there are:
\* wake-ups stay natural numbers, and the queue holds handles only.
THEOREM TypeCorrect == Spec => []TypeOK
<1>1. IInv => TypeOK
  BY DEF IInv
<1> QED BY <1>1, Invariance, PTL

\* The timer thread never waits past the time of a planned record unless a
\* push that wakes it is pending (Scheduler::timer, nextWakeupAndUnlock).
THEOREM NothingSleptOver == Spec => []WakesInTime
<1>1. IInv => WakesInTime
  BY SchedulerAssumption DEF IInv, Wakeup, WakesInTime, TypeOK, Planned
<1> QED BY <1>1, Invariance, PTL

\* The timer thread never waits past stop(): when it has been told, the flag
\* that wakes it is set (Scheduler::stop).
THEOREM StopNoticed == Spec => []StopIsNoticed
<1>1. IInv => StopIsNoticed
  BY DEF IInv
<1> QED BY <1>1, Invariance, PTL

\* Every record in the table of times is in the table of handles, and what a
\* client removed is in neither.
THEOREM TablesInAgreement == Spec => []TablesAgree
<1>1. IInv => TablesAgree
  BY DEF IInv
<1> QED BY <1>1, Invariance, PTL

\* A task for one time point is handed to the queue at most once.
THEOREM OneShotOnce == Spec => []OneShotFiresOnce
<1>1. IInv => OneShotFiresOnce
  BY DEF IInv, OneShot, OneShotFiresOnce
<1> QED BY <1>1, Invariance, PTL

\* The timer picks no record that a client has removed: PickDue is the only
\* step that puts a record in its hand, and what it picks is in both tables.
THEOREM RemovedNotPicked == Spec => RemovedIsNotPicked
<1>1. ASSUME IInv, [Next]_vars, hand'.handle # hand.handle
      PROVE  hand'.handle \notin removed
  <2>1. ASSUME NEW h \in Handles, PickDue(h) PROVE hand'.handle \notin removed
    BY <1>1, <2>1 DEF IInv, TablesAgree, PickDue, Earliest, Planned
  <2>2. ASSUME Fire PROVE hand'.handle \notin removed
    BY <1>1, <2>2, SchedulerAssumption DEF IInv, TypeOK, Fire, NoHand
  <2>3. ASSUME UNCHANGED hand PROVE FALSE
    BY <1>1, <2>3
  <2> QED
    BY <1>1, <2>1, <2>2, <2>3
    DEF Next, ClientNext, TimerNext, StopNext, WorkerNext, vars, timerVars,
        AddScheduleRecord, RemoveTask, RemoveAllMyTasks, RegisterMessageHandler,
        UnregisterMessageHandler, Start, StopTimer, NotifyStop, StopQueue, TimerStarts,
        TimerTests, TimerWakes, TimerGetsTime, NothingDue, LoopEnds, TakeTask,
        TaskHandled, Tick
<1>2. IInv /\ [Next]_vars => [hand'.handle # hand.handle => hand'.handle \notin removed]_vars
  BY <1>1
<1> QED BY <1>2, Invariance, PTL DEF RemovedIsNotPicked, Spec

-----------------------------------------------------------------------------
\* What the timer, the worker and stop() do to the queue are steps of a FIFO executor:
\* only whole records of the table are pushed, one is handled at a time, and after stop()
\* nothing more is taken.
THEOREM TaskQueueIsUsed == Spec => TaskQueue!AbsSafety
<1>1. Init => TaskQueue!AbsInit
  BY DEF Init
<1>2. ASSUME IInv, Next PROVE TaskQueue!AbsNext \/ UNCHANGED queueVars
  <2>1. CASE Fire
    <3>1. hand.handle \in Handles
      BY <1>2, <2>1 DEF IInv, Hand, Fire
    <3>2. TaskQueue!Accept(hand.handle) \/ UNCHANGED queueVars
      BY <2>1 DEF Fire
    <3> QED BY <3>1, <3>2 DEF TaskQueue!AbsNext
  <2>2. CASE WorkerNext \/ StopQueue
    BY <2>2 DEF WorkerNext, TakeTask, TaskHandled, StopQueue, TaskQueue!AbsNext
  <2>3. CASE ~Fire /\ ~WorkerNext /\ ~StopQueue
    BY <1>2, <2>3
       DEF Next, ClientNext, TimerNext, StopNext, AddScheduleRecord, RemoveTask,
           RemoveAllMyTasks, RegisterMessageHandler, UnregisterMessageHandler, Start, StopTimer,
           NotifyStop, TimerStarts, TimerTests, TimerWakes, TimerGetsTime, NothingDue, LoopEnds,
           PickDue, Tick
  <2> QED BY <2>1, <2>2, <2>3
<1>3. IInv /\ [Next]_vars => [TaskQueue!AbsNext]_(TaskQueue!absVars)
  BY <1>2 DEF vars, queueVars, TaskQueue!absVars
<1> QED BY <1>1, <1>3, Invariance, PTL DEF Spec, TaskQueue!AbsSafety

-----------------------------------------------------------------------------
\* No record is lost between the timer's picking it and planning its next time: until a
\* client removes it a recurring one is planned, and one for a time point is planned, or
\* in the timer's hand, or was handed on.
NothingIsLost ==
    \A h \in Handles :
        record[h].kind # "none" /\ h \notin removed =>
            \/ byTime[h] # Off
            \/ record[h].kind = "at" /\ (hand.handle = h \/ fired[h] = 1)

\* The time after the one at which a recurring record was picked has not come.
LEMMA NextIsLater ==
    ASSUME NEW r \in [kind : Kind \union {"none"}, client : Clients, start : Nat, period : Nat],
           NEW tp \in Nat, NEW actual \in Nat, r.kind = "cron" => r.period > 0,
           r.kind \in {"periodic", "cron"}
    PROVE  GetNext(r, tp, actual) \in Nat /\ GetNext(r, tp, actual) >= tp
<1>1. r.period \in Nat
  OBVIOUS
<1>2. CASE r.kind = "periodic"
  BY <1>1, <1>2 DEF GetNext
<1>3. CASE r.kind = "cron"
  <2>1. actual % r.period \in 0..(r.period - 1)
    BY <1>1, <1>3
  <2> QED BY <1>1, <1>3, <2>1 DEF GetNext
<1> QED BY <1>2, <1>3

LEMMA NothingLostStep ==
    ASSUME IInv, NothingIsLost, [Next]_vars PROVE NothingIsLost'
<1> DEFINE Held(h) ==
        record[h].kind # "none" /\ h \notin removed =>
            \/ byTime[h] # Off
            \/ record[h].kind = "at" /\ (hand.handle = h \/ fired[h] = 1)
<1> SUFFICES ASSUME NEW h \in Handles, Held(h) PROVE Held(h)'
  BY DEF NothingIsLost
<1>0. /\ record[h] \in [kind : Kind \union {"none"}, client : Clients, start : Nat, period : Nat]
      /\ byTime \in [Handles -> Nat \union {Off}] /\ timePoint \in Nat /\ timeStr \in Nat
      /\ now \in Nat /\ NoHandle # h
      /\ record \in [Handles -> [kind : Kind \union {"none"}, client : Clients,
                                 start : Nat, period : Nat]]
      /\ fired \in [Handles -> Nat]
  BY SchedulerAssumption DEF IInv, TypeOK
<1>1. ASSUME NEW g \in Handles, NEW c \in Clients, NEW plan \in Plans, AddScheduleRecord(g, c, plan)
      PROVE  Held(h)'
  <2>1. CASE g = h
    <3>1. plan \in Plan /\ (plan.kind = "cron" => plan.period > 0)
      BY SchedulerAssumption
    <3> DEFINE r == [kind |-> plan.kind, client |-> c,
                     start |-> now + plan.delay, period |-> plan.period]
    <3>2. r \in [kind : Kind \union {"none"}, client : Clients, start : Nat, period : Nat]
      BY <1>0, <3>1 DEF Plan
    <3>3. byTime'[h] = FirstTime(r, now)
      BY <1>0, <1>1, <2>1 DEF AddScheduleRecord
    <3>4. FirstTime(r, now) \in Nat
      BY <1>0, <3>1, <3>2, NextIsNat
    <3> QED BY <3>3, <3>4 DEF Off
  <2>2. CASE g # h
    BY <1>0, <1>1, <2>2 DEF AddScheduleRecord, timerVars
  <2> QED BY <2>1, <2>2
<1>2. ASSUME NEW g \in Handles, PickDue(g) PROVE Held(h)'
  <2>1. UNCHANGED <<record, removed, fired>> /\ hand'.handle = g
    BY <1>2 DEF PickDue
  <2>2. CASE g # h
    <3>1. byTime'[h] = byTime[h]
      BY <1>0, <1>2, <2>2 DEF PickDue
    <3>2. hand.handle = h => timer = "fire"
      BY DEF IInv, Hand
    <3>3. timer = "loop"
      BY <1>2 DEF PickDue
    <3> QED BY <2>1, <3>1, <3>2, <3>3
  <2>3. CASE g = h /\ record[h].kind \in {"periodic", "cron"}
    <3>1. record[h].kind = "cron" => record[h].period > 0
      BY DEF IInv, Records
    <3>2. GetNext(record[h], timePoint, timeStr) \in Nat
          /\ GetNext(record[h], timePoint, timeStr) >= timePoint
      BY <1>0, <2>3, <3>1, NextIsLater
    <3>3. byTime'[h] = GetNext(record[h], timePoint, timeStr)
      BY <1>0, <1>2, <2>3, <3>2 DEF PickDue
    <3> QED BY <3>2, <3>3 DEF Off
  <2>4. CASE g = h /\ record[h].kind \in {"at", "none"}
    BY <2>1, <2>4
  <2> QED BY <1>0, <2>2, <2>3, <2>4 DEF Kind
<1>3. CASE Fire
  <2>1. UNCHANGED <<byTime, record, removed>>
    BY <1>3 DEF Fire, planVars
  <2>2. CASE hand.handle = h /\ record[h].kind = "at"
    <3>1. fired[h] = 0
      BY <2>2 DEF IInv, OneShot
    <3>2. fired' = [fired EXCEPT ![h] = @ + 1]
      BY <1>3, <2>2 DEF Fire, TimePatternMatches
    <3> QED BY <1>0, <2>1, <2>2, <3>1, <3>2
  <2>3. CASE hand.handle # h
    <3>1. fired'[h] = fired[h]
      BY <1>0, <1>3, <2>3 DEF Fire
    <3> QED BY <2>1, <2>3, <3>1
  <2> QED BY <2>1, <2>2, <2>3
<1>4. ASSUME (\E g \in Handles : RemoveTask(g)) \/ (\E c \in Clients : RemoveAllMyTasks(c))
      PROVE  Held(h)'
  <2>1. /\ UNCHANGED <<record, hand, fired>> /\ removed \subseteq removed'
        /\ h \notin removed' => byTime'[h] = byTime[h]
    BY <1>0, <1>4 DEF RemoveTask, RemoveAllMyTasks, timerVars
  <2> QED BY <2>1
<1>5. CASE UNCHANGED <<byTime, record, removed, hand, fired>>
  BY <1>5
<1> HIDE DEF Held
<1> QED BY <1>1, <1>2, <1>3, <1>4, <1>5
    DEF Next, ClientNext, TimerNext, StopNext, WorkerNext, vars, planVars, timerVars,
        RegisterMessageHandler, UnregisterMessageHandler, Start, StopTimer, NotifyStop,
        StopQueue, TimerStarts, TimerTests, TimerWakes, TimerGetsTime, NothingDue, LoopEnds,
        TakeTask, TaskHandled, Tick

\* However late the timer is, and whatever clients plan and remove while it has let go of
\* the table, it loses no record.
THEOREM RecordsAreKept == Spec => []NothingIsLost
<1>1. Init => NothingIsLost
  BY DEF Init, NothingIsLost, NoRecord
<1>2. IInv /\ NothingIsLost /\ [Next]_vars => NothingIsLost'
  BY NothingLostStep
<1> QED BY <1>1, <1>2, Invariance, PTL DEF Spec
=============================================================================

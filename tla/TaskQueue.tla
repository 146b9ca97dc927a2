------------------------------ MODULE TaskQueue ------------------------------
(***************************************************************************)
(* TaskQueue<T> of src/daemon/include/TaskQueue.h: a queue with one worker *)
(* thread. Clients call pushToQueue and stopQueue from any thread; the     *)
(* owner runs the destructor.                                              *)
(*                                                                         *)
(* A critical section of a client under m_taskQueueMutex is one step: it   *)
(* does not block inside, and what it writes is read under the same mutex  *)
(* (m_runWorkerThread is also read without it, at line 117: a step of its  *)
(* own here, which may come before or after any other). The notify_all     *)
(* that follows the critical section is a separate step, as it is made     *)
(* after the mutex is released.                                            *)
(***************************************************************************)
EXTENDS Naturals, Sequences

CONSTANTS
    Clients,    \* threads that push and stop
    Task,       \* values of T
    NoTask,     \* the worker is processing nothing
    MaxPushes   \* bound on the pushes of a behaviour

ASSUME TaskQueueAssumption ==
    /\ NoTask \notin Task
    /\ MaxPushes \in Nat

VARIABLES
    m_taskQueue,        \* std::queue<T>
    m_taskPushed,       \* predicate of the condition variable
    m_runWorkerThread,  \* FALSE once the queue is stopped
    locked,             \* the worker holds m_taskQueueMutex between two steps
    worker,             \* where the worker thread is
    current,            \* the task in m_processTaskFunc, or NoTask
    client,             \* where each client is
    owner,              \* progress of the destructor
    pushed, started     \* history: tasks pushed, tasks handed to m_processTaskFunc

queueVars == <<m_taskQueue, m_taskPushed, m_runWorkerThread>>
workerVars == <<locked, worker, current>>
history == <<pushed, started>>
vars == <<queueVars, workerVars, client, owner, history>>

-----------------------------------------------------------------------------
\* The constructor starts the worker, which reads m_runWorkerThread first.
Init ==
    /\ m_taskQueue = <<>>
    /\ m_taskPushed = FALSE
    /\ m_runWorkerThread = TRUE
    /\ locked = FALSE
    /\ worker = "test"
    /\ current = NoTask
    /\ client = [c \in Clients |-> "idle"]
    /\ owner = "alive"
    /\ pushed = <<>>
    /\ started = <<>>

\* notify_all moves a worker that sleeps in wait() to the mutex's contenders.
NotifyAll == worker' = IF worker = "sleep" THEN "woken" ELSE worker

-----------------------------------------------------------------------------
(* Clients. They may not touch the queue once its destructor runs.         *)

PushToQueue(c, t) ==
    /\ client[c] = "idle" /\ owner = "alive"
    /\ ~locked
    /\ Len(pushed) < MaxPushes
    /\ m_taskQueue' = Append(m_taskQueue, t)
    /\ m_taskPushed' = TRUE
    /\ pushed' = Append(pushed, t)
    /\ client' = [client EXCEPT ![c] = "notify"]
    /\ UNCHANGED <<m_runWorkerThread, workerVars, owner, started>>

\* Mutant: stopping does not set the predicate.
MutantStopUnflagged ==
    ~locked /\ m_runWorkerThread' = FALSE /\ UNCHANGED <<m_taskPushed, m_taskQueue>>

\* The flag changes of stopQueue() and of the destructor.
SetStopped ==
    /\ ~locked
    /\ m_runWorkerThread' = FALSE
    /\ m_taskPushed' = TRUE
    /\ UNCHANGED m_taskQueue

StopQueue(c) ==
    /\ client[c] = "idle" /\ owner = "alive"
    /\ SetStopped
    /\ client' = [client EXCEPT ![c] = "notify"]
    /\ UNCHANGED <<workerVars, owner, history>>

\* The notify_all that ends both calls.
Notify(c) ==
    /\ client[c] = "notify"
    /\ NotifyAll
    /\ client' = [client EXCEPT ![c] = "idle"]
    /\ UNCHANGED <<queueVars, locked, current, owner, history>>

-----------------------------------------------------------------------------
(* The destructor: stop, notify, join. No call of a client is in progress. *)

Destroy ==
    /\ owner = "alive"
    /\ \A c \in Clients : client[c] = "idle"
    /\ SetStopped
    /\ owner' = "notify"
    /\ UNCHANGED <<workerVars, client, history>>

DestroyNotify ==
    /\ owner = "notify"
    /\ NotifyAll
    /\ owner' = "join"
    /\ UNCHANGED <<queueVars, locked, current, client, history>>

Join ==
    /\ owner = "join"
    /\ worker = "done"
    /\ owner' = "destroyed"
    /\ UNCHANGED <<queueVars, workerVars, client, history>>

-----------------------------------------------------------------------------
(* The worker thread.                                                      *)

\* Mutant: the flag is cleared before the mutex is taken.
MutantTestRunClears ==
    /\ worker = "test"
    /\ worker' = IF m_runWorkerThread THEN "wait" ELSE "done"
    /\ m_taskPushed' = FALSE
    /\ UNCHANGED <<m_taskQueue, m_runWorkerThread, locked, current, client, owner, history>>

\* The outer while: m_runWorkerThread is read without the mutex.
TestRun ==
    /\ worker = "test"
    /\ worker' = IF m_runWorkerThread THEN "wait" ELSE "done"
    /\ UNCHANGED <<queueVars, locked, current, client, owner, history>>

\* lock() (or the re-lock inside wait()), then the wait's predicate: go on
\* with the mutex held, or sleep with it released.
WaitPushed ==
    /\ worker \in {"wait", "woken"}
    /\ ~locked
    /\ IF m_taskPushed
         THEN locked' = TRUE /\ worker' = "loop" /\ m_taskPushed' = FALSE
         ELSE worker' = "sleep" /\ UNCHANGED <<locked, m_taskPushed>>
    /\ UNCHANGED <<m_taskQueue, m_runWorkerThread, current, client, owner, history>>

\* wait() may return without a notification; it then tests the predicate.
SpuriousWakeup ==
    /\ worker = "sleep"
    /\ worker' = "woken"
    /\ UNCHANGED <<queueVars, locked, current, client, owner, history>>

\* What a pop of the task at position i does, the variants below included.
PopAt(i) ==
    /\ current' = m_taskQueue[i]
    /\ m_taskQueue' = SubSeq(m_taskQueue, 1, i - 1) \o SubSeq(m_taskQueue, i + 1, Len(m_taskQueue))
    /\ started' = Append(started, m_taskQueue[i])
    /\ locked' = FALSE /\ worker' = "process"
    /\ UNCHANGED <<m_taskPushed, m_runWorkerThread, client, owner, pushed>>

\* Mutant: the task that is processed stays in the queue.
MutantNoPop ==
    /\ worker = "loop" /\ m_runWorkerThread /\ m_taskQueue # <<>>
    /\ current' = Head(m_taskQueue) /\ Len(started) <= MaxPushes
    /\ started' = Append(started, Head(m_taskQueue))
    /\ locked' = FALSE /\ worker' = "process"
    /\ UNCHANGED <<queueVars, client, owner, pushed>>

\* The inner while finds a task: pop it, unlock, process.
PopTask ==
    /\ worker = "loop" /\ m_runWorkerThread /\ m_taskQueue # <<>>
    /\ current' = Head(m_taskQueue)
    /\ m_taskQueue' = Tail(m_taskQueue)
    /\ started' = Append(started, Head(m_taskQueue))
    /\ locked' = FALSE
    /\ worker' = "process"
    /\ UNCHANGED <<m_taskPushed, m_runWorkerThread, client, owner, pushed>>

\* The inner while finds nothing: unlock, break.
QueueEmpty ==
    /\ worker = "loop" /\ m_runWorkerThread /\ m_taskQueue = <<>>
    /\ locked' = FALSE
    /\ worker' = "test"
    /\ UNCHANGED <<queueVars, current, client, owner, history>>

\* The inner while is told to stop: both loops end and lck unlocks.
LoopStopped ==
    /\ worker = "loop" /\ ~m_runWorkerThread
    /\ locked' = FALSE
    /\ worker' = "done"
    /\ UNCHANGED <<queueVars, current, client, owner, history>>

\* m_processTaskFunc returns.
ProcessReturns ==
    /\ worker = "process"
    /\ current' = NoTask
    /\ worker' = "relock"
    /\ UNCHANGED <<queueVars, locked, client, owner, history>>

Relock ==
    /\ worker = "relock" /\ ~locked
    /\ locked' = TRUE
    /\ worker' = "loop"
    /\ UNCHANGED <<queueVars, current, client, owner, history>>

-----------------------------------------------------------------------------
ClientNext(c) ==
    \/ \E t \in Task : PushToQueue(c, t)
    \/ StopQueue(c)
    \/ Notify(c)

WorkerNext ==
    \/ TestRun \/ WaitPushed
    \/ PopTask \/ QueueEmpty \/ LoopStopped
    \/ ProcessReturns \/ Relock

OwnerNext == Destroy \/ DestroyNotify \/ Join

Next == (\E c \in Clients : ClientNext(c)) \/ OwnerNext \/ WorkerNext \/ SpuriousWakeup

Spec == Init /\ [][Next]_vars

\* The worker thread runs, the task function returns, and a call that has
\* begun ends. Nobody has to push, to stop or to destroy, and no wake-up
\* comes by itself. Taking the mutex is part of a worker's step: the fairness
\* assumes that the clients, which hold it for a few instructions, do not win
\* every race for it for ever.
Fairness ==
    /\ WF_vars(WorkerNext)
    /\ \A c \in Clients : WF_vars(Notify(c))
    /\ WF_vars(DestroyNotify) /\ WF_vars(Join)

FairSpec == Spec /\ Fairness

-----------------------------------------------------------------------------
TypeOK ==
    /\ m_taskQueue \in Seq(Task)
    /\ m_taskPushed \in BOOLEAN
    /\ m_runWorkerThread \in BOOLEAN
    /\ locked \in BOOLEAN
    /\ worker \in {"test", "wait", "sleep", "woken", "loop", "process", "relock", "done"}
    /\ current \in Task \union {NoTask}
    /\ client \in [Clients -> {"idle", "notify"}]
    /\ owner \in {"alive", "notify", "join", "destroyed"}
    /\ pushed \in Seq(Task)
    /\ started \in Seq(Task)

\* A call of a client or of the destructor has still to notify.
NotifyPending == owner = "notify" \/ \E c \in Clients : client[c] = "notify"

\* No lost wake-up: the worker sleeps with nobody about to wake it only while
\* there is nothing to process and nobody asked it to stop (the flag is set
\* under the mutex, before the notification, in pushToQueue and stopQueue).
NoLostWakeup ==
    worker = "sleep" /\ ~NotifyPending => m_taskQueue = <<>> /\ m_runWorkerThread

\* "The tasks are processed in FIFO way": what was handed to the processing
\* function followed by what still waits is exactly what was pushed, in
\* order; no task is lost, doubled or overtaken, before and after a stop.
ProcessedInFifoOrder == pushed = started \o m_taskQueue

\* The destructor returns only after the worker thread has ended, so the
\* processing function never runs on a destroyed queue.
DestroyedQueueIsQuiet == owner = "destroyed" => worker = "done" /\ current = NoTask

\* Once stopQueue() has changed the flag, no waiting task is started any
\* more; only the one in the processing function runs on.
StoppedStartsNothing == [][~m_runWorkerThread => started' = started]_vars

\* What is pushed to a queue that is not stopped is processed.
PushedIsProcessed ==
    \A n \in 1..MaxPushes :
        Len(pushed) = n ~> (Len(started) >= n \/ ~m_runWorkerThread)

\* The destructor returns: the join is not waiting for ever.
DestructorReturns == owner = "notify" ~> owner = "destroyed"

\* The promise to the owners of the queue.
Abs == INSTANCE TaskQueueAbs WITH queue <- m_taskQueue, running <- m_runWorkerThread

ImplementsFifo == Abs!AbsSpec
=============================================================================

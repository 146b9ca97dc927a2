---------------------------- MODULE TaskQueueAbs ----------------------------
(***************************************************************************)
(* What TaskQueue<T> (src/daemon/include/TaskQueue.h) promises to the      *)
(* components that own one: tasks are processed one at a time, in the      *)
(* order in which they were pushed, until the queue is stopped; a stopped  *)
(* queue keeps what is left in it and processes nothing more.              *)
(*                                                                         *)
(* The module hides the mutex, the condition variable and the worker       *)
(* thread's loop (they are in TaskQueue.tla, which implements this one).   *)
(* The components that own a queue use its actions through INSTANCE.       *)
(***************************************************************************)
EXTENDS Naturals, Sequences

CONSTANTS
    Task,    \* the tasks that clients push
    NoTask   \* the worker is processing nothing

VARIABLES
    queue,   \* pushed, not yet taken by the worker
    current, \* the task in m_processTaskFunc, or NoTask
    running  \* stopQueue() has not been called

absVars == <<queue, current, running>>

AbsInit == queue = <<>> /\ current = NoTask /\ running = TRUE

\* A task is accepted at any time, also after the queue was stopped.
Accept(t) == queue' = Append(queue, t) /\ UNCHANGED <<current, running>>

\* The oldest task is taken, if none is being processed and nobody stopped us.
Take ==
    /\ running
    /\ current = NoTask
    /\ queue # <<>>
    /\ current' = Head(queue)
    /\ queue' = Tail(queue)
    /\ UNCHANGED running

Finish == current # NoTask /\ current' = NoTask /\ UNCHANGED <<queue, running>>

Stop == running' = FALSE /\ UNCHANGED <<queue, current>>

AbsNext == (\E t \in Task : Accept(t)) \/ Take \/ Finish \/ Stop

\* The worker neither leaves a task in a running queue nor stays in one.
AbsSpec == AbsInit /\ [][AbsNext]_absVars /\ WF_absVars(Take) /\ WF_absVars(Finish)

AbsSafety == AbsInit /\ [][AbsNext]_absVars
=============================================================================

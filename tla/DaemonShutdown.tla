---------------------------- MODULE DaemonShutdown ----------------------------
(***************************************************************************)
(* DaemonController::stop() against the threads it stops: the controller's *)
(* DPA worker and the requesters of DaemonController, which are here the   *)
(* Scheduler's worker and one thread per messaging. Each messaging carries *)
(* one BaseService, so a messaging's name also stands for its service.     *)
(*                                                                         *)
(* The main thread stops the two queues, kills the running transaction,    *)
(* unregisters each service from the Scheduler, destroys the services,     *)
(* stops the messagings (which join their threads) and deletes the DPA     *)
(* handler, the DPA queue and the Scheduler (which join their workers).    *)
(* It takes no notice of m_modeMtx.                                        *)
(*                                                                         *)
(* External: KillDpaTransaction finishes the transaction in progress as    *)
(* aborted; deleting a channel of a messaging lets its thread finish the   *)
(* message in progress and joins it (MqChannel).                           *)
(***************************************************************************)
EXTENDS DaemonController

CONSTANTS
    Sched,     \* the Scheduler's worker, one of the requesters
    AsyncDpa   \* a service has AsyncDpaMessage configured

ASSUME ShutdownAssumption == Sched \in Requesters /\ AsyncDpa \in BOOLEAN

Messagings == Requesters \ {Sched}

VARIABLES
    main,          \* where the main thread is
    sched,         \* the Scheduler's queue: "running", "popped": stopped, but its worker
                   \* has a task for which it has not locked the mutex, or "stopped"
    handlersMtx,   \* Scheduler::m_messageHandlersMutex: Sched or NoOne
    registered,    \* services with a handler in m_messageHandlers
    services,      \* m_services is not cleared
    closed,        \* messagings that take no message any more
    async          \* a service is in handleAsyncDpaMessage

stopVars == <<sched, handlersMtx, registered, services, closed, async>>
allVars == <<vars, main, stopVars>>

\* After start().
ShutdownInit ==
    /\ Init
    /\ main = "run" /\ sched = "running" /\ handlersMtx = NoOne
    /\ registered = Messagings /\ services = TRUE /\ closed = {} /\ async = FALSE

-----------------------------------------------------------------------------
(* Threads that enter a service.                                           *)

\* handleMsgFromMessaging starts: a DPA request or a mode command.
Message(r) == DpaRequest(r) \/ \E mode \in Mode : Command(r, mode)

MessageArrives(m) ==
    /\ m \notin closed
    /\ Message(m)
    /\ UNCHANGED <<main, stopVars>>

\* handleScheduledRecord holds m_messageHandlersMutex while the handler runs.
\* Of a client without a handler it only writes a trace. The pop of the task before it
\* is seen by nobody but by the stop of the queue.
ScheduledTask ==
    /\ sched # "stopped" /\ registered # {}
    /\ handlersMtx = NoOne
    /\ Message(Sched)
    /\ handlersMtx' = Sched
    /\ sched' = IF sched = "popped" THEN "stopped" ELSE sched
    /\ UNCHANGED <<main, registered, services, closed, async>>

\* Mutant: the mutex of the handlers stays locked.
MutantHandlersLocked ==
    Reply(Sched) /\ UNCHANGED <<main, stopVars>>

ScheduledTaskDone ==
    /\ Reply(Sched)
    /\ handlersMtx' = NoOne
    /\ UNCHANGED <<main, sched, registered, services, closed, async>>

\* asyncDpaMessageHandler, called by the handler's thread: the function that
\* BaseService::start registered is never unregistered.
AsyncArrives ==
    /\ AsyncDpa /\ m_dpaHandler # "null" /\ ~async
    /\ async' = TRUE
    /\ UNCHANGED <<vars, main, sched, handlersMtx, registered, services, closed>>

AsyncReturns ==
    /\ async
    /\ async' = FALSE
    /\ UNCHANGED <<vars, main, sched, handlersMtx, registered, services, closed>>

-----------------------------------------------------------------------------
(* The main thread.                                                        *)

MainGoto(from, to) == main = from /\ main' = to

\* A signal or the watch dog ends the loop of run().
Exit == MainGoto("run", "stopScheduler") /\ UNCHANGED <<vars, stopVars>>

StopScheduler ==
    /\ MainGoto("stopScheduler", "stopQueue")
    /\ sched' = "stopped" \/ (sched' = "popped" /\ pc[Sched] = "idle")
    /\ UNCHANGED <<vars, handlersMtx, registered, services, closed, async>>

StopDpaQueue ==
    /\ MainGoto("stopQueue", "testHandler")
    /\ DpaQueue!Stop
    /\ UNCHANGED <<modeVars, workerVars, trans, requestVars, stopVars>>

\* if (nullptr != m_dpaHandler)
TestKill ==
    /\ MainGoto("testHandler", IF m_dpaHandler = "null" THEN "unregister" ELSE "kill")
    /\ UNCHANGED <<vars, stopVars>>

\* m_dpaHandler->KillDpaTransaction(): the pointer is read again, and a mode
\* command may have set it to nullptr.
KillTransaction ==
    /\ MainGoto("kill", IF m_dpaHandler = "null" THEN "crashed" ELSE "unregister")
    /\ IF m_dpaHandler # "null" /\ worker = "executing"
         THEN FinishCurrent("aborted") /\ worker' = "returning"
         ELSE UNCHANGED <<trans, worker>>
    /\ UNCHANGED <<modeVars, queueVars, workerMode, workerLocked, requestVars, stopVars>>

\* Mutant: unregisterMessageHandler takes no mutex.
MutantUnregisterUnlocked(s) ==
    /\ main = "unregister" /\ s \in registered
    /\ registered' = registered \ {s}
    /\ UNCHANGED <<vars, main, sched, handlersMtx, services, closed, async>>

\* BaseService::stop of one service.
UnregisterService(s) ==
    /\ main = "unregister" /\ s \in registered
    /\ handlersMtx = NoOne
    /\ registered' = registered \ {s}
    /\ UNCHANGED <<vars, main, sched, handlersMtx, services, closed, async>>

ClearServices ==
    /\ MainGoto("unregister", "stopMessagings")
    /\ registered = {}
    /\ services' = FALSE
    /\ UNCHANGED <<vars, sched, handlersMtx, registered, closed, async>>

\* Mutant: a messaging does not join its thread.
MutantNoJoin == closed \subseteq Messagings

\* The messagings stop one after the other; each joins its thread.
Joined == \A m \in closed : pc[m] = "idle"

CloseMessaging(m) ==
    /\ main = "stopMessagings" /\ m \notin closed
    /\ Joined
    /\ closed' = closed \union {m}
    /\ UNCHANGED <<vars, main, sched, handlersMtx, registered, services, async>>

\* stopDpa, with the worker possibly inside the handler.
DeleteDpaHandler ==
    /\ MainGoto("stopMessagings", "joinWorker")
    /\ closed = Messagings /\ Joined
    /\ m_dpaHandler' = "null"
    /\ worker' = CASE worker = "executing" -> "dangling"
                   [] worker = "returning" -> "danglingReturn"
                   [] OTHER -> worker
    /\ UNCHANGED <<m_mode, m_modeMtx, exclusive, queueVars, workerMode, workerLocked,
                   trans, requestVars, stopVars>>

\* stopIqrfIf: the destructor of the DPA queue joins its worker.
DeleteDpaQueue ==
    /\ MainGoto("joinWorker", "joinScheduler")
    /\ worker = "idle"
    /\ UNCHANGED <<vars, stopVars>>

\* delete m_scheduler joins the Scheduler's worker.
DeleteScheduler ==
    /\ MainGoto("joinScheduler", "stopped")
    /\ pc[Sched] = "idle"
    /\ UNCHANGED <<vars, stopVars>>

MainStops ==
    \/ StopScheduler \/ StopDpaQueue \/ TestKill \/ KillTransaction
    \/ \E s \in Messagings : UnregisterService(s)
    \/ ClearServices
    \/ \E m \in Messagings : CloseMessaging(m)
    \/ DeleteDpaHandler \/ DeleteDpaQueue \/ DeleteScheduler

-----------------------------------------------------------------------------
\* Steps of DaemonController that touch nothing of the shutdown: of a requester
\* after it has started on a message, and of the worker.
Continue(r) == (DpaFinished(r) \/ SetModeStep(r)) /\ UNCHANGED <<main, stopVars>>
MessageDone(m) == Reply(m) /\ UNCHANGED <<main, stopVars>>
WorkerContinues == WorkerNext /\ UNCHANGED <<main, stopVars>>
UndefinedContinues ==
    (\E result \in {"ok", "error"} : Undefined(result)) /\ UNCHANGED <<main, stopVars>>

ShutdownNext ==
    \/ \E m \in Messagings : MessageArrives(m) \/ MessageDone(m)
    \/ ScheduledTask \/ ScheduledTaskDone
    \/ \E r \in Requesters : Continue(r)
    \/ WorkerContinues \/ UndefinedContinues
    \/ AsyncArrives \/ AsyncReturns
    \/ Exit
    \/ MainStops

ShutdownSpec == ShutdownInit /\ [][ShutdownNext]_allVars

\* The worker, a thread in the middle of a message, the main thread and the handler's
\* thread run on; m_modeMtx is given to a thread that asks for it again and again. Nobody
\* has to send a message or to end the daemon, and undefined behaviour has to do nothing.
ShutdownFairness ==
    /\ WF_allVars(WorkerContinues)
    /\ \A r \in Requesters :
        /\ WF_allVars(Continue(r))
        /\ SF_allVars(LockMode(r) /\ UNCHANGED <<main, stopVars>>)
    /\ \A m \in Messagings : WF_allVars(MessageDone(m))
    /\ WF_allVars(ScheduledTaskDone)
    /\ WF_allVars(AsyncReturns)
    /\ WF_allVars(MainStops)

FairShutdownSpec == ShutdownSpec /\ ShutdownFairness

-----------------------------------------------------------------------------
ShutdownTypeOK ==
    /\ TypeOK
    /\ main \in {"run", "stopScheduler", "stopQueue", "testHandler", "kill", "unregister",
                 "stopMessagings", "joinWorker", "joinScheduler", "stopped", "crashed"}
    /\ sched \in {"running", "popped", "stopped"} /\ services \in BOOLEAN /\ async \in BOOLEAN
    /\ handlersMtx \in {Sched, NoOne}
    /\ registered \subseteq Messagings /\ closed \subseteq Messagings

\* stop() has not yet deleted the DPA handler under the worker.
HandlerStands == main \notin {"joinWorker", "joinScheduler", "stopped"}

\* stop() takes no notice of m_modeMtx: also while it runs, up to its deletion of the
\* handler, the mode, the exclusive channel and the handler agree outside of a switch.
SwitchesAgree == HandlerStands => ModeHandlerAgree

\* So long a worker that got m_modeMtx is safe, also when its transaction is killed.
LockedStaysSafe == HandlerStands => LockedTransactionIsSafe

\* The Scheduler's worker is out of every service before the services are
\* destroyed: unregisterMessageHandler waits for the handler in progress.
SchedulerLeavesServices == ~services => pc[Sched] = "idle"

\* Nobody uses the DPA queue, and nobody switches the mode, once the main
\* thread deletes the DPA handler and then the queue.
NoRequesterAtDeletion ==
    main \in {"joinWorker", "joinScheduler", "stopped"} =>
        \A r \in Requesters : pc[r] = "idle"

\* After stopQueue no transaction is handed to the worker any more.
StoppedQueueStartsNothing ==
    [][~dpaRunning => current' \in {current, NoOne}]_allVars

\* A queued transaction is never executed once its queue is stopped.
Abandoned == ~dpaRunning /\ dpaQueue # <<>>

\* stop() is never in progress for ever, unless a transaction was left in the stopped
\* queue, whose requester then waits for ever and is waited for.
ExitCompletes == []<>(main \in {"run", "stopped", "crashed"} \/ Abandoned \/ Crashed)

\* While the daemon runs, a transaction handed to executeDpaTransaction is finished: no
\* requester waits for one for ever.
TransactionFinishes ==
    \A r \in Requesters : []<>(pc[r] \notin {"dpaWait", "trWait"} \/ Crashed \/ main # "run")

\* And a mode command is answered: setMode, which waits for the queue's worker while it
\* holds m_modeMtx, does not block for ever.
CommandAnswered ==
    \A r \in Requesters : []<>(pc[r] \in {"idle", "dpaWait", "reply"} \/ Crashed \/ main # "run")

\* executeDpaTransaction: the transaction "is finished by DPA response or
\* timeout", also when the daemon is stopping.
EveryTransactionFinishes ==
    \A r \in Requesters :
        pc[r] \in {"dpaWait", "trWait"} ~>
            (pc[r] \in {"reply", "assign"} \/ Crashed \/ main = "crashed")

\* IService::stop: "stops processing incoming messages". No thread is in a
\* service once the services are stopped and destroyed.
StoppedServicesAreQuiet ==
    ~services => ~async /\ \A m \in Messagings : pc[m] = "idle"
=============================================================================

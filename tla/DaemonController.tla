--------------------------- MODULE DaemonController ---------------------------
(***************************************************************************)
(* src/daemon/DaemonController: DPA transactions of the services go        *)
(* through one TaskQueue to the worker that owns the DPA handler, while    *)
(* mode commands of the same services switch between the operational, the  *)
(* forwarding and the service mode and delete or create the DPA handler.   *)
(*                                                                         *)
(* A requester is a thread that runs BaseService::handleMsgFromMessaging   *)
(* (a messaging's thread, the Scheduler's worker, or the main thread with  *)
(* the configured start mode): it executes one transaction or one command  *)
(* at a time and waits for it. A DpaTransactionTask lives on the stack of  *)
(* its requester, so the requester's name stands for the transaction.      *)
(*                                                                         *)
(* setMode holds m_modeMtx from its first to its last step. The worker     *)
(* only try_locks it and goes on without it, so each of its reads of       *)
(* m_mode and m_dpaHandler is a step. DpaHandler is external code: it      *)
(* finishes a transaction with a response or, at its timeout, an error. In *)
(* forwarding mode it executes the same transaction, in a wrapper.         *)
(***************************************************************************)
EXTENDS Naturals, Sequences

CONSTANTS
    Requesters,  \* threads that run a message of a service
    NoOne,       \* no requester
    Worker,      \* the thread of m_dpaTransactionQueue
    Exclusive,   \* UdpMessaging is configured: m_dpaExclusiveAccess # nullptr
    Interface    \* m_iqrfInterface # nullptr

ASSUME DaemonAssumption ==
    /\ NoOne \notin Requesters /\ Worker \notin Requesters /\ NoOne # Worker
    /\ Exclusive \in BOOLEAN /\ Interface \in BOOLEAN

Mode == {"operational", "forwarding", "service"}

VARIABLES
    m_mode,        \* communication mode
    m_modeMtx,     \* holder of the mutex, or NoOne
    m_dpaHandler,  \* "null", "raw": created, "ready": also configured
    exclusive,     \* UdpMessaging::m_exclusiveChannel # nullptr
    dpaQueue,      \* m_dpaTransactionQueue
    current,       \* its task in executeDpaTransactionFunc
    dpaRunning,    \* it is not stopped
    worker,        \* where executeDpaTransactionFunc is
    workerMode,    \* the value of m_mode the worker switched on
    workerLocked,  \* the worker's local variable locked
    trans,         \* state of each requester's transaction
    pc,            \* where each requester is
    cmd,           \* the mode each requester was commanded to set
    answer         \* what each requester answers

queueVars == <<dpaQueue, current, dpaRunning>>
modeVars == <<m_mode, m_modeMtx, m_dpaHandler, exclusive>>
workerVars == <<worker, workerMode, workerLocked>>
requestVars == <<pc, cmd, answer>>
vars == <<modeVars, queueVars, workerVars, trans, requestVars>>

DpaQueue == INSTANCE TaskQueueAbs WITH
    Task <- Requesters, NoTask <- NoOne, queue <- dpaQueue, running <- dpaRunning

\* After startIqrfIf and startDpa. Without an interface there is no handler.
Init ==
    /\ m_mode = "operational" /\ m_modeMtx = NoOne /\ exclusive = FALSE
    /\ m_dpaHandler = IF Interface THEN "ready" ELSE "null"
    /\ DpaQueue!AbsInit
    /\ worker = "idle" /\ workerMode = "operational" /\ workerLocked = FALSE
    /\ trans = [r \in Requesters |-> "none"]
    /\ pc = [r \in Requesters |-> "idle"]
    /\ cmd = [r \in Requesters |-> "operational"]
    /\ answer = [r \in Requesters |-> "none"]

Goto(r, from, to) == pc[r] = from /\ pc' = [pc EXCEPT ![r] = to]

-----------------------------------------------------------------------------
(* Requesters: DPA requests.                                               *)

\* executeDpaTransaction: a pending transaction is pushed.
PushTransaction(r) ==
    /\ DpaQueue!Accept(r)
    /\ trans' = [trans EXCEPT ![r] = "pending"]

DpaRequest(r) ==
    /\ Goto(r, "idle", "dpaWait")
    /\ PushTransaction(r)
    /\ UNCHANGED <<modeVars, workerVars, cmd, answer>>

\* waitFinish returns and the response (or the error) is encoded.
DpaFinished(r) ==
    /\ Goto(r, "dpaWait", "reply")
    /\ trans[r] # "pending"
    /\ answer' = [answer EXCEPT ![r] = trans[r]]
    /\ UNCHANGED <<modeVars, queueVars, workerVars, trans, cmd>>

\* sendMessage, and the handler of the message returns.
Reply(r) ==
    /\ Goto(r, "reply", "idle")
    /\ answer' = [answer EXCEPT ![r] = "none"]
    /\ trans' = [trans EXCEPT ![r] = "none"]
    /\ UNCHANGED <<modeVars, queueVars, workerVars, cmd>>

-----------------------------------------------------------------------------
(* Requesters: mode commands.                                              *)

\* doCommand with a known mode. Any other command is answered ERROR_UNKNOWN,
\* or ERROR_IFACE, and changes nothing.
Command(r, mode) ==
    /\ pc[r] = "idle"
    /\ IF Interface
         THEN pc' = [pc EXCEPT ![r] = "lock"] /\ UNCHANGED answer
         ELSE pc' = [pc EXCEPT ![r] = "reply"]
              /\ answer' = [answer EXCEPT ![r] = "ERROR_IFACE"]
    /\ cmd' = [cmd EXCEPT ![r] = mode]
    /\ UNCHANGED <<modeVars, queueVars, workerVars, trans>>

\* The step of setMode that follows the lock.
FirstStep(mode) ==
    CASE mode = "service" -> IF Exclusive THEN "announce" ELSE "unlock"
      [] mode = "forwarding" /\ ~Exclusive -> "unlock"
      [] mode # "service" /\ Exclusive /\ m_mode = "service" -> "reset"
      [] OTHER -> "assign"

\* Mutant: setMode has no lock_guard.
MutantNoLock(r) ==
    /\ Goto(r, "lock", FirstStep(cmd[r]))
    /\ m_modeMtx' = r
    /\ UNCHANGED <<m_mode, m_dpaHandler, exclusive, queueVars, workerVars, trans, cmd, answer>>

LockMode(r) ==
    /\ Goto(r, "lock", FirstStep(cmd[r]))
    /\ m_modeMtx = NoOne
    /\ m_modeMtx' = r
    /\ UNCHANGED <<m_mode, m_dpaHandler, exclusive, queueVars, workerVars, trans, cmd, answer>>

\* resetExclusive, m_mode = mode. The worker reads only the second.
ResetExclusive(r) ==
    /\ Goto(r, "reset", "create")
    /\ exclusive' = FALSE
    /\ m_mode' = cmd[r]
    /\ UNCHANGED <<m_modeMtx, m_dpaHandler, queueVars, workerVars, trans, cmd, answer>>

\* startDpa: m_dpaHandler is assigned first and configured then.
CreateHandler(r) ==
    /\ Goto(r, "create", "configure")
    /\ m_dpaHandler' = "raw"
    /\ UNCHANGED <<m_mode, m_modeMtx, exclusive, queueVars, workerVars, trans, cmd, answer>>

ConfigureHandler(r) ==
    /\ Goto(r, "configure", "readTr")
    /\ m_dpaHandler' = "ready"
    /\ UNCHANGED <<m_mode, m_modeMtx, exclusive, queueVars, workerVars, trans, cmd, answer>>

\* startDpa: the TR module's parameters are read through the queue, with
\* m_modeMtx held; an error is logged and the handler is kept.
ReadTr(r) ==
    /\ Goto(r, "readTr", "trWait")
    /\ PushTransaction(r)
    /\ UNCHANGED <<modeVars, workerVars, cmd, answer>>

\* Mutant: startDpa does not wait for the transaction on its stack.
MutantNoTrWait(r) ==
    /\ Goto(r, "trWait", "assign")
    /\ UNCHANGED <<modeVars, queueVars, workerVars, trans, cmd, answer>>

TrFinished(r) ==
    /\ Goto(r, "trWait", "assign")
    /\ trans[r] # "pending"
    /\ UNCHANGED <<modeVars, queueVars, workerVars, trans, cmd, answer>>

\* The service mode is set before the handler is deleted.
AnnounceService(r) ==
    /\ Goto(r, "announce", "delete")
    /\ m_mode' = "service"
    /\ UNCHANGED <<m_modeMtx, m_dpaHandler, exclusive, queueVars, workerVars, trans, cmd, answer>>

\* Mutant: stopDpa leaves the pointer as it is.
MutantKeepHandler(r) ==
    /\ Goto(r, "delete", "setExclusive")
    /\ worker' = IF worker = "executing" THEN "dangling" ELSE worker
    /\ UNCHANGED <<modeVars, queueVars, workerMode, workerLocked, trans, cmd, answer>>

\* stopDpa. A worker inside the handler is left in freed memory.
DeleteHandler(r) ==
    /\ Goto(r, "delete", "setExclusive")
    /\ m_dpaHandler' = "null"
    /\ worker' = CASE worker = "executing" -> "dangling"
                   [] worker = "returning" -> "danglingReturn"
                   [] OTHER -> worker
    /\ UNCHANGED <<m_mode, m_modeMtx, exclusive, queueVars, workerMode, workerLocked,
                   trans, cmd, answer>>

SetExclusive(r) ==
    /\ Goto(r, "setExclusive", "assign")
    /\ exclusive' = TRUE
    /\ UNCHANGED <<m_mode, m_modeMtx, m_dpaHandler, queueVars, workerVars, trans, cmd, answer>>

\* Mutant: setMode switches the handler, not m_mode.
MutantNoAssign(r) ==
    /\ Goto(r, "assign", "unlock")
    /\ UNCHANGED <<modeVars, queueVars, workerVars, trans, cmd, answer>>

AssignMode(r) ==
    /\ Goto(r, "assign", "unlock")
    /\ m_mode' = cmd[r]
    /\ UNCHANGED <<m_modeMtx, m_dpaHandler, exclusive, queueVars, workerVars, trans, cmd, answer>>

\* Mutant: m_modeMtx stays locked.
MutantNoUnlock(r) ==
    /\ Goto(r, "unlock", "reply")
    /\ answer' = [answer EXCEPT ![r] = "OK"]
    /\ UNCHANGED <<modeVars, queueVars, workerVars, trans, cmd>>

\* setMode returns, also when it refused the mode, and doCommand answers OK.
UnlockMode(r) ==
    /\ Goto(r, "unlock", "reply")
    /\ m_modeMtx' = NoOne
    /\ answer' = [answer EXCEPT ![r] = "OK"]
    /\ UNCHANGED <<m_mode, m_dpaHandler, exclusive, queueVars, workerVars, trans, cmd>>

SetModeStep(r) ==
    \/ LockMode(r) \/ ResetExclusive(r) \/ CreateHandler(r) \/ ConfigureHandler(r)
    \/ ReadTr(r) \/ TrFinished(r) \/ AnnounceService(r) \/ DeleteHandler(r)
    \/ SetExclusive(r) \/ AssignMode(r) \/ UnlockMode(r)

-----------------------------------------------------------------------------
(* The worker: executeDpaTransactionFunc.                                  *)

FinishCurrent(result) == trans' = [trans EXCEPT ![current] = result]

TakeTransaction ==
    /\ worker = "idle"
    /\ DpaQueue!Take
    /\ worker' = "tryLock"
    /\ UNCHANGED <<modeVars, workerMode, workerLocked, trans, requestVars>>

\* m_modeMtx.try_lock(); the worker goes on whether it got the mutex or not.
TryLock ==
    /\ worker = "tryLock"
    /\ workerLocked' = (m_modeMtx = NoOne)
    /\ m_modeMtx' = IF m_modeMtx = NoOne THEN Worker ELSE m_modeMtx
    /\ worker' = "switch"
    /\ UNCHANGED <<m_mode, m_dpaHandler, exclusive, queueVars, workerMode, trans, requestVars>>

\* Mutant: a transaction is dropped in service mode.
MutantDropInService ==
    /\ worker = "switch"
    /\ workerMode' = m_mode
    /\ worker' = IF m_mode = "service" THEN "unlock" ELSE "test"
    /\ UNCHANGED <<modeVars, queueVars, workerLocked, trans, requestVars>>

\* switch (m_mode): in service mode the transaction is refused.
SwitchOnMode ==
    /\ worker = "switch"
    /\ workerMode' = m_mode
    /\ IF m_mode = "service"
         THEN worker' = "unlock" /\ FinishCurrent("error")
         ELSE worker' = "test" /\ UNCHANGED trans
    /\ UNCHANGED <<modeVars, queueVars, workerLocked, requestVars>>

\* if (m_dpaHandler), and in forwarding mode also if (m_dpaMessageForwarding),
\* which is UdpMessaging again.
TestHandler ==
    /\ worker = "test"
    /\ IF m_dpaHandler # "null" /\ (workerMode = "forwarding" => Exclusive)
         THEN worker' = "call" /\ UNCHANGED trans
         ELSE worker' = "unlock" /\ FinishCurrent("error")
    /\ UNCHANGED <<modeVars, queueVars, workerMode, workerLocked, requestVars>>

\* m_dpaHandler->ExecuteDpaTransaction: the pointer is read again.
CallHandler ==
    /\ worker = "call"
    /\ worker' = IF m_dpaHandler = "null" THEN "dangling" ELSE "executing"
    /\ UNCHANGED <<modeVars, queueVars, workerMode, workerLocked, trans, requestVars>>

\* External: a response or the timeout finishes the transaction.
HandlerFinishes(result) ==
    /\ worker = "executing"
    /\ FinishCurrent(result)
    /\ worker' = "returning"
    /\ UNCHANGED <<modeVars, queueVars, workerMode, workerLocked, requestVars>>

HandlerReturns ==
    /\ worker = "returning"
    /\ worker' = "unlock"
    /\ UNCHANGED <<modeVars, queueVars, workerMode, workerLocked, trans, requestVars>>

\* External: ExecuteDpaTransaction throws; the catch clause finishes it.
HandlerThrows ==
    /\ worker = "executing"
    /\ FinishCurrent("error")
    /\ worker' = "unlock"
    /\ UNCHANGED <<modeVars, queueVars, workerMode, workerLocked, requestVars>>

\* Undefined behaviour: in freed memory (or called through a null pointer) the
\* worker crashes, that is takes no step, or goes on with any result.
Undefined(result) ==
    /\ worker \in {"dangling", "danglingReturn"}
    /\ worker' = "unlock"
    /\ IF worker = "dangling" THEN FinishCurrent(result) ELSE UNCHANGED trans
    /\ UNCHANGED <<modeVars, queueVars, workerMode, workerLocked, requestVars>>

\* The mutex is unlocked if it was locked, and the watch dog is petted.
ReturnToQueue ==
    /\ worker = "unlock"
    /\ m_modeMtx' = IF workerLocked THEN NoOne ELSE m_modeMtx
    /\ workerLocked' = FALSE
    /\ worker' = "idle"
    /\ DpaQueue!Finish
    /\ UNCHANGED <<m_mode, m_dpaHandler, exclusive, workerMode, trans, requestVars>>

-----------------------------------------------------------------------------
RequesterNext(r) ==
    \/ DpaRequest(r) \/ DpaFinished(r) \/ Reply(r)
    \/ \E mode \in Mode : Command(r, mode)
    \/ SetModeStep(r)

WorkerNext ==
    \/ TakeTransaction \/ TryLock \/ SwitchOnMode \/ TestHandler \/ CallHandler
    \/ \E result \in {"ok", "error"} : HandlerFinishes(result)
    \/ HandlerReturns \/ HandlerThrows
    \/ ReturnToQueue

Next ==
    \/ \E r \in Requesters : RequesterNext(r)
    \/ WorkerNext
    \/ \E result \in {"ok", "error"} : Undefined(result)

Spec == Init /\ [][Next]_vars

-----------------------------------------------------------------------------
TypeOK ==
    /\ m_mode \in Mode /\ workerMode \in Mode
    /\ m_modeMtx \in Requesters \union {Worker, NoOne}
    /\ m_dpaHandler \in {"null", "raw", "ready"}
    /\ exclusive \in BOOLEAN /\ dpaRunning \in BOOLEAN /\ workerLocked \in BOOLEAN
    /\ dpaQueue \in Seq(Requesters)
    /\ current \in Requesters \union {NoOne}
    /\ worker \in {"idle", "tryLock", "switch", "test", "call", "executing",
                   "returning", "dangling", "danglingReturn", "unlock"}
    /\ trans \in [Requesters -> {"none", "pending", "ok", "error", "aborted"}]
    /\ pc \in [Requesters ->
               {"idle", "dpaWait", "reply", "lock", "reset", "create", "configure",
                "readTr", "trWait", "announce", "delete", "setExclusive", "assign",
                "unlock"}]
    /\ cmd \in [Requesters -> Mode]
    /\ answer \in [Requesters -> {"none", "ok", "error", "aborted", "OK", "ERROR_IFACE"}]

\* The worker is in executeDpaTransactionFunc and has not finished current.
Unfinished == worker \in {"tryLock", "switch", "test", "call", "executing", "dangling"}

\* The worker executes in a handler that was deleted, or through nullptr.
Crashed == worker \in {"dangling", "danglingReturn"}

\* Whenever no mode switch is in progress, the mode, the exclusive channel of
\* UdpMessaging and the DPA handler agree: the service mode has the channel
\* and no handler, the other modes a configured handler and no channel.
ModeHandlerAgree ==
    m_modeMtx \notin Requesters =>
        /\ m_mode = "service" <=> exclusive
        /\ m_dpaHandler = IF Interface /\ ~exclusive THEN "ready" ELSE "null"

\* A transaction is pending exactly as long as it is queued or in the worker,
\* each once, and its requester waits for it: none is lost, none is finished
\* twice, and the worker never holds one whose stack frame is gone.
PendingIsQueuedOnce ==
    /\ \A i, j \in 1..Len(dpaQueue) : i # j => dpaQueue[i] # dpaQueue[j]
    /\ \A i \in 1..Len(dpaQueue) : Unfinished => dpaQueue[i] # current
    /\ \A r \in Requesters :
        trans[r] = "pending" <=>
            (Unfinished /\ current = r) \/ \E i \in 1..Len(dpaQueue) : dpaQueue[i] = r
    /\ \A r \in Requesters : trans[r] = "pending" => pc[r] \in {"dpaWait", "trWait"}

\* What the try_lock of executeDpaTransactionFunc is for: a worker that got
\* m_modeMtx executes on the configured handler of the mode it switched on,
\* never in service mode.
LockedTransactionIsSafe ==
    workerLocked /\ worker \in {"executing", "returning"} =>
        /\ m_mode = workerMode /\ m_mode # "service"
        /\ m_dpaHandler = "ready" /\ ~exclusive

\* IDpaExclusiveAccess: "All other channels are blocked". Once setMode has
\* given the interface to UdpMessaging and returned, no transaction of a
\* service is in progress on it.
ExclusiveBlocksOthers ==
    exclusive /\ m_modeMtx \notin Requesters => worker # "executing" /\ ~Crashed

\* doCommand: "Switches communication mode". A command that is answered OK has switched to
\* the commanded mode, if UdpMessaging is configured or the operational mode is commanded.
\* (setMode refuses the other modes without it, and doCommand answers OK all the same.)
AnswerTellsOfSwitch ==
    [][\A r \in Requesters :
          /\ pc[r] # "reply" /\ pc'[r] = "reply" /\ answer'[r] = "OK"
          /\ Exclusive \/ cmd[r] = "operational"
          => m_mode' = cmd[r]]_vars

\* The same of every command, as the documentation of doCommand has it.
CommandSwitches ==
    [][\A r \in Requesters :
          pc[r] # "reply" /\ pc'[r] = "reply" /\ answer'[r] = "OK" => m_mode' = cmd[r]]_vars
=============================================================================

------------------------ MODULE DaemonControllerProofs ------------------------
(***************************************************************************)
(* What DaemonController.tla guarantees for any number of requesters, with *)
(* and without UdpMessaging and the IQRF interface: its types, the         *)
(* agreement of mode, handler and exclusive channel outside of a mode      *)
(* switch, the safety of a transaction whose worker got the mutex, and the *)
(* truth of the answer OK, if UdpMessaging is configured or the            *)
(* operational mode is commanded. And what                                 *)
(* DaemonShutdown.tla adds, for any number of messagings: the Scheduler's  *)
(* worker is out of the services before they are destroyed, no requester   *)
(* is left when the DPA handler and the queue are deleted, and a stopped   *)
(* queue starts nothing; up to the deletion all of the above is still true.*)
(* In both the queue of the transactions is used as TaskQueueAbs promises  *)
(* it, and a transaction gets one result, which stands.                    *)
(*                                                                         *)
(* The inductive invariant of the first adds who holds m_modeMtx, what     *)
(* holds at each place inside setMode, and what the worker knows if it got *)
(* the mutex. That of the second ties m_messageHandlersMutex to the        *)
(* Scheduler's worker and says how far the main thread is when what is     *)
(* closed.                                                                 *)
(***************************************************************************)
EXTENDS DaemonShutdown, TLAPS

\* The types are preserved by every step, and so hold in every behaviour.
LEMMA TypeInit == Init => TypeOK
<1> SUFFICES ASSUME Init PROVE TypeOK
  OBVIOUS
<1>1. <<>> \in Seq(Requesters)
  OBVIOUS
<1>2. /\ m_mode \in Mode /\ workerMode \in Mode
      /\ m_dpaHandler \in {"null", "raw", "ready"}
      /\ cmd \in [Requesters -> Mode]
  BY DEF Init, Mode
<1> QED BY <1>1, <1>2 DEF Init, TypeOK, DpaQueue!AbsInit

LEMMA RequesterTypeStep ==
    ASSUME TypeOK, NEW r \in Requesters, RequesterNext(r)
    PROVE  TypeOK'
<1> USE DEF TypeOK, Goto, PushTransaction, DpaQueue!Accept, modeVars, queueVars,
            workerVars
<1>1. CASE DpaRequest(r)
  BY <1>1 DEF DpaRequest
<1>2. CASE DpaFinished(r)
  BY <1>2 DEF DpaFinished
<1>3. CASE Reply(r)
  BY <1>3 DEF Reply
<1>4. ASSUME NEW mode \in Mode, Command(r, mode) PROVE TypeOK'
  BY <1>4 DEF Command
<1>5. CASE LockMode(r)
  BY <1>5 DEF LockMode, FirstStep
<1>6. CASE ResetExclusive(r)
  BY <1>6 DEF ResetExclusive
<1>7. CASE CreateHandler(r)
  BY <1>7 DEF CreateHandler
<1>8. CASE ConfigureHandler(r)
  BY <1>8 DEF ConfigureHandler
<1>9. CASE ReadTr(r)
  BY <1>9 DEF ReadTr
<1>10. CASE TrFinished(r)
  BY <1>10 DEF TrFinished
<1>11. CASE AnnounceService(r)
  BY <1>11 DEF AnnounceService, Mode
<1>12. CASE DeleteHandler(r)
  BY <1>12 DEF DeleteHandler
<1>13. CASE SetExclusive(r)
  BY <1>13 DEF SetExclusive
<1>14. CASE AssignMode(r)
  BY <1>14 DEF AssignMode
<1>15. CASE UnlockMode(r)
  BY <1>15 DEF UnlockMode
<1> QED BY <1>1, <1>2, <1>3, <1>4, <1>5, <1>6, <1>7, <1>8, <1>9, <1>10, <1>11, <1>12,
           <1>13, <1>14, <1>15 DEF RequesterNext, SetModeStep

LEMMA WorkerTypeStep ==
    ASSUME TypeOK, WorkerNext \/ \E result \in {"ok", "error"} : Undefined(result)
    PROVE  TypeOK'
<1> USE DEF TypeOK, FinishCurrent, modeVars, queueVars, workerVars, requestVars
<1>1. CASE TakeTransaction
  BY <1>1 DEF TakeTransaction, DpaQueue!Take
<1>2. CASE TryLock
  BY <1>2 DEF TryLock
<1>3. CASE SwitchOnMode
  BY <1>3 DEF SwitchOnMode
<1>4. CASE TestHandler
  BY <1>4 DEF TestHandler
<1>5. CASE CallHandler
  BY <1>5 DEF CallHandler
<1>6. ASSUME NEW result \in {"ok", "error"}, HandlerFinishes(result) PROVE TypeOK'
  BY <1>6 DEF HandlerFinishes
<1>7. CASE HandlerReturns
  BY <1>7 DEF HandlerReturns
<1>8. CASE HandlerThrows
  BY <1>8 DEF HandlerThrows
<1>9. CASE ReturnToQueue
  BY <1>9 DEF ReturnToQueue, DpaQueue!Finish
<1>10. ASSUME NEW result \in {"ok", "error"}, Undefined(result) PROVE TypeOK'
  BY <1>10 DEF Undefined
<1> QED BY <1>1, <1>2, <1>3, <1>4, <1>5, <1>6, <1>7, <1>8, <1>9, <1>10 DEF WorkerNext

LEMMA TypeStutter == TypeOK /\ UNCHANGED vars => TypeOK'
BY DEF TypeOK, vars, modeVars, queueVars, workerVars, requestVars

\* The variables hold values of their types in every reachable state.
THEOREM TypeCorrect == Spec => []TypeOK
<1>1. TypeOK /\ [Next]_vars => TypeOK'
  BY RequesterTypeStep, WorkerTypeStep, TypeStutter DEF Next
<1> QED BY <1>1, TypeInit, PTL DEF Spec

-----------------------------------------------------------------------------
\* The places inside setMode, where m_modeMtx is held.
Switching == {"reset", "create", "configure", "readTr", "trWait", "announce", "delete",
              "setExclusive", "assign", "unlock"}

\* m_modeMtx is held by the one requester inside setMode, or by the worker.
MutexHeld ==
    /\ \A r \in Requesters : pc[r] \in Switching <=> m_modeMtx = r
    /\ workerLocked <=> m_modeMtx = Worker
    /\ workerLocked => worker \notin {"idle", "tryLock"}

\* Mode, exclusive channel and handler agree.
Agree ==
    /\ m_mode = "service" <=> exclusive
    /\ m_dpaHandler = IF Interface /\ ~exclusive THEN "ready" ELSE "null"

\* What holds when setMode is about to take the step named place.
Phase(place, mode) ==
    CASE place = "reset" -> mode # "service" /\ Exclusive
      [] place \in {"create", "configure", "readTr", "trWait"} ->
           mode # "service" /\ m_mode = mode /\ ~exclusive
      [] place = "announce" -> mode = "service" /\ Exclusive
      [] place \in {"delete", "setExclusive"} ->
           mode = "service" /\ Exclusive /\ m_mode = mode
      [] place = "assign" ->
           IF mode = "service" THEN exclusive /\ m_mode = mode ELSE ~exclusive
      [] place = "unlock" -> Exclusive \/ mode = "operational" => m_mode = mode
      [] OTHER -> TRUE

\* What m_dpaHandler is at that place.
HandlerAt(place) ==
    CASE place \in {"readTr", "trWait"} -> m_dpaHandler = "ready"
      [] place = "setExclusive" -> m_dpaHandler = "null"
      [] place = "assign" ->
           m_dpaHandler = IF Interface /\ ~exclusive THEN "ready" ELSE "null"
      [] place = "unlock" -> Agree
      [] OTHER -> TRUE

SwitchInv ==
    /\ exclusive => Exclusive
    /\ m_modeMtx \notin Requesters => Agree
    /\ \A r \in Requesters :
         pc[r] \in Switching =>
            Interface /\ Phase(pc[r], cmd[r]) /\ HandlerAt(pc[r])
    /\ \A r \in Requesters : pc[r] = "lock" => Interface

\* A worker that got the mutex knows the mode and, past its test, the handler.
WorkerInv ==
    workerLocked =>
        /\ worker \in {"test", "call", "executing", "returning"} =>
               m_mode = workerMode /\ m_mode # "service"
        /\ worker \in {"call", "executing", "returning"} => m_dpaHandler = "ready"

IInv == TypeOK /\ MutexHeld /\ SwitchInv /\ WorkerInv

LEMMA InvInit == Init => IInv
BY TypeInit, DaemonAssumption
   DEF Init, IInv, MutexHeld, SwitchInv, WorkerInv, Agree, Switching

\* A step of a requester outside of setMode.
LEMMA OutsideStep ==
    ASSUME IInv, NEW r \in Requesters,
           DpaRequest(r) \/ DpaFinished(r) \/ Reply(r) \/ \E mode \in Mode : Command(r, mode)
    PROVE  MutexHeld' /\ SwitchInv' /\ WorkerInv'
<1> USE DEF IInv, TypeOK, Goto, modeVars, queueVars, workerVars
<1>1. /\ UNCHANGED <<modeVars, workerVars>>
      /\ pc' = [pc EXCEPT ![r] = pc'[r]]
      /\ pc[r] \notin Switching /\ pc'[r] \notin Switching
      /\ pc'[r] = "lock" => Interface
      /\ \A s \in Requesters : s # r => cmd'[s] = cmd[s]
  BY DEF DpaRequest, DpaFinished, Reply, Command, Switching
<1>2. \A s \in Requesters : s # r => pc'[s] = pc[s] /\ cmd'[s] = cmd[s]
  BY <1>1
<1>3. MutexHeld'
  BY <1>1, <1>2 DEF MutexHeld
<1>4. SwitchInv'
  BY <1>1, <1>2 DEF SwitchInv, Phase, HandlerAt, Agree
<1>5. WorkerInv'
  BY <1>1 DEF WorkerInv
<1> QED BY <1>3, <1>4, <1>5

\* A step of setMode.
LEMMA SwitchStep ==
    ASSUME IInv, NEW r \in Requesters, SetModeStep(r)
    PROVE  MutexHeld' /\ SwitchInv' /\ WorkerInv'
<1> USE DaemonAssumption DEF IInv, TypeOK, Goto, modeVars, queueVars, workerVars
<1>1. \A s \in Requesters : s # r => pc'[s] = pc[s] /\ cmd'[s] = cmd[s]
  BY DEF SetModeStep, LockMode, ResetExclusive, CreateHandler, ConfigureHandler, ReadTr,
         TrFinished, AnnounceService, DeleteHandler, SetExclusive, AssignMode, UnlockMode
<1>2. \A s \in Requesters : s # r => pc[s] \notin Switching
  BY DEF SetModeStep, LockMode, MutexHeld, Switching, ResetExclusive, CreateHandler,
         ConfigureHandler, ReadTr, TrFinished, AnnounceService, DeleteHandler,
         SetExclusive, AssignMode, UnlockMode
<1> USE DEF MutexHeld, SwitchInv, WorkerInv, Switching
<1>3. CASE LockMode(r)
  <2>1. MutexHeld'
    BY <1>1, <1>2, <1>3 DEF LockMode, FirstStep
  <2>2. SwitchInv'
    BY <1>1, <1>2, <1>3 DEF LockMode, FirstStep, Phase, HandlerAt, Agree
  <2>3. WorkerInv'
    BY <1>3 DEF LockMode, FirstStep
  <2> QED BY <2>1, <2>2, <2>3
<1>4. CASE ResetExclusive(r)
  <2>1. MutexHeld'
    BY <1>1, <1>2, <1>4 DEF ResetExclusive
  <2>2. SwitchInv'
    BY <1>1, <1>2, <1>4 DEF ResetExclusive, Phase, HandlerAt, Agree
  <2>3. WorkerInv'
    BY <1>4 DEF ResetExclusive
  <2> QED BY <2>1, <2>2, <2>3
<1>5. CASE CreateHandler(r)
  <2>1. MutexHeld'
    BY <1>1, <1>2, <1>5 DEF CreateHandler
  <2>2. SwitchInv'
    BY <1>1, <1>2, <1>5 DEF CreateHandler, Phase, HandlerAt, Agree
  <2>3. WorkerInv'
    BY <1>5 DEF CreateHandler
  <2> QED BY <2>1, <2>2, <2>3
<1>6. CASE ConfigureHandler(r)
  <2>1. MutexHeld'
    BY <1>1, <1>2, <1>6 DEF ConfigureHandler
  <2>2. SwitchInv'
    BY <1>1, <1>2, <1>6 DEF ConfigureHandler, Phase, HandlerAt, Agree
  <2>3. WorkerInv'
    BY <1>6 DEF ConfigureHandler
  <2> QED BY <2>1, <2>2, <2>3
<1>7. CASE ReadTr(r)
  <2>1. MutexHeld'
    BY <1>1, <1>2, <1>7 DEF ReadTr
  <2>2. SwitchInv'
    BY <1>1, <1>2, <1>7 DEF ReadTr, Phase, HandlerAt, Agree
  <2>3. WorkerInv'
    BY <1>7 DEF ReadTr
  <2> QED BY <2>1, <2>2, <2>3
<1>8. CASE TrFinished(r)
  <2>1. MutexHeld'
    BY <1>1, <1>2, <1>8 DEF TrFinished
  <2>2. SwitchInv'
    BY <1>1, <1>2, <1>8 DEF TrFinished, Phase, HandlerAt, Agree
  <2>3. WorkerInv'
    BY <1>8 DEF TrFinished
  <2> QED BY <2>1, <2>2, <2>3
<1>9. CASE AnnounceService(r)
  <2>1. MutexHeld'
    BY <1>1, <1>2, <1>9 DEF AnnounceService
  <2>2. SwitchInv'
    BY <1>1, <1>2, <1>9 DEF AnnounceService, Phase, HandlerAt, Agree
  <2>3. WorkerInv'
    BY <1>9 DEF AnnounceService
  <2> QED BY <2>1, <2>2, <2>3
<1>10. CASE DeleteHandler(r)
  <2>1. MutexHeld'
    BY <1>1, <1>2, <1>10 DEF DeleteHandler
  <2>2. SwitchInv'
    BY <1>1, <1>2, <1>10 DEF DeleteHandler, Phase, HandlerAt, Agree
  <2>3. WorkerInv'
    BY <1>10 DEF DeleteHandler
  <2> QED BY <2>1, <2>2, <2>3
<1>11. CASE SetExclusive(r)
  <2>1. MutexHeld'
    BY <1>1, <1>2, <1>11 DEF SetExclusive
  <2>2. SwitchInv'
    BY <1>1, <1>2, <1>11 DEF SetExclusive, Phase, HandlerAt, Agree
  <2>3. WorkerInv'
    BY <1>11 DEF SetExclusive
  <2> QED BY <2>1, <2>2, <2>3
<1>12. CASE AssignMode(r)
  <2>1. MutexHeld'
    BY <1>1, <1>2, <1>12 DEF AssignMode
  <2>2. SwitchInv'
    BY <1>1, <1>2, <1>12 DEF AssignMode, Phase, HandlerAt, Agree
  <2>3. WorkerInv'
    BY <1>12 DEF AssignMode
  <2> QED BY <2>1, <2>2, <2>3
<1>13. CASE UnlockMode(r)
  <2>1. MutexHeld'
    BY <1>1, <1>2, <1>13 DEF UnlockMode
  <2>2. SwitchInv'
    BY <1>1, <1>2, <1>13 DEF UnlockMode, Phase, HandlerAt, Agree
  <2>3. WorkerInv'
    BY <1>13 DEF UnlockMode
  <2> QED BY <2>1, <2>2, <2>3
<1> QED BY <1>3, <1>4, <1>5, <1>6, <1>7, <1>8, <1>9, <1>10, <1>11, <1>12, <1>13 DEF SetModeStep

\* A step of the worker.
LEMMA WorkerStep ==
    ASSUME IInv, WorkerNext \/ \E result \in {"ok", "error"} : Undefined(result)
    PROVE  MutexHeld' /\ SwitchInv' /\ WorkerInv'
<1> USE DaemonAssumption
    DEF IInv, TypeOK, FinishCurrent, modeVars, queueVars, workerVars, requestVars,
        MutexHeld, SwitchInv, WorkerInv, Switching, Phase, HandlerAt, Agree
<1>1. CASE TakeTransaction
  BY <1>1 DEF TakeTransaction
<1>2. CASE TryLock
  BY <1>2, ZenonT(60) DEF TryLock
<1>3. CASE SwitchOnMode
  BY <1>3 DEF SwitchOnMode
<1>4. CASE TestHandler
  BY <1>4 DEF TestHandler
<1>5. CASE CallHandler
  BY <1>5 DEF CallHandler
<1>6. CASE HandlerReturns
  BY <1>6 DEF HandlerReturns
<1>7. CASE HandlerThrows
  BY <1>7 DEF HandlerThrows
<1>8. CASE ReturnToQueue
  BY <1>8 DEF ReturnToQueue
<1>9. ASSUME NEW result \in {"ok", "error"}, HandlerFinishes(result)
      PROVE  MutexHeld' /\ SwitchInv' /\ WorkerInv'
  BY <1>9 DEF HandlerFinishes
<1>10. ASSUME NEW result \in {"ok", "error"}, Undefined(result)
      PROVE  MutexHeld' /\ SwitchInv' /\ WorkerInv'
  BY <1>10 DEF Undefined
<1> QED BY <1>1, <1>2, <1>3, <1>4, <1>5, <1>6, <1>7, <1>8, <1>9, <1>10 DEF WorkerNext

LEMMA InvStep == IInv /\ [Next]_vars => IInv'
<1>1. IInv /\ Next => IInv'
  BY RequesterTypeStep, WorkerTypeStep, OutsideStep, SwitchStep, WorkerStep
     DEF IInv, Next, RequesterNext
<1>2. IInv /\ UNCHANGED vars => IInv'
  BY TypeStutter
     DEF IInv, MutexHeld, SwitchInv, WorkerInv, Phase, HandlerAt, Agree,
         vars, modeVars, queueVars, workerVars, requestVars
<1> QED BY <1>1, <1>2

LEMMA Invariance == Spec => []IInv
BY InvInit, InvStep, PTL DEF Spec

\* Outside of a mode switch the mode, the exclusive channel and the handler agree.
THEOREM ModeAndHandler == Spec => []ModeHandlerAgree
<1>1. IInv => ModeHandlerAgree
  BY DEF IInv, SwitchInv, Agree, ModeHandlerAgree
<1> QED BY <1>1, Invariance, PTL

\* With m_modeMtx the worker executes on the configured handler of the mode it
\* switched on, never in service mode.
THEOREM LockedIsSafe == Spec => []LockedTransactionIsSafe
<1>1. IInv => LockedTransactionIsSafe
  BY DaemonAssumption
     DEF IInv, TypeOK, MutexHeld, SwitchInv, WorkerInv, Agree, LockedTransactionIsSafe
<1> QED BY <1>1, Invariance, PTL

\* Where UdpMessaging is configured, and where the operational mode is commanded, OK tells
\* that the mode was switched.
THEOREM OkMeansSwitched == Spec => AnswerTellsOfSwitch
<1> DEFINE Told == \A r \in Requesters :
       /\ pc[r] # "reply" /\ pc'[r] = "reply" /\ answer'[r] = "OK"
       /\ Exclusive \/ cmd[r] = "operational"
       => m_mode' = cmd[r]
<1>1. ASSUME IInv, NEW r \in Requesters, RequesterNext(r) PROVE Told
  <2> SUFFICES ASSUME NEW s \in Requesters,
                      pc[s] # "reply", pc'[s] = "reply", answer'[s] = "OK",
                      Exclusive \/ cmd[s] = "operational"
               PROVE  m_mode' = cmd[s]
    OBVIOUS
  <2> USE <1>1 DEF IInv, TypeOK, Goto
  <2>1. CASE UnlockMode(r)
    BY <2>1 DEF UnlockMode, SwitchInv, Phase, Switching
  <2>2. CASE DpaFinished(r)
    BY <2>2 DEF DpaFinished
  <2>3. ASSUME NEW mode \in Mode, Command(r, mode) PROVE FALSE
    BY <2>3 DEF Command
  <2>4. CASE LockMode(r)
    BY <2>4 DEF LockMode, FirstStep
  <2> QED BY <2>1, <2>2, <2>3, <2>4
          DEF RequesterNext, SetModeStep, DpaRequest, Reply, ResetExclusive,
              CreateHandler, ConfigureHandler, ReadTr, TrFinished, AnnounceService,
              DeleteHandler, SetExclusive, AssignMode
<1>2. ASSUME WorkerNext \/ (\E result \in {"ok", "error"} : Undefined(result))
      PROVE  Told
  <2>1. UNCHANGED requestVars
    BY <1>2 DEF WorkerNext, TakeTransaction, TryLock, SwitchOnMode, TestHandler,
                CallHandler, HandlerFinishes, HandlerReturns, HandlerThrows,
                ReturnToQueue, Undefined
  <2> QED BY <2>1 DEF requestVars
<1>3. IInv /\ [Next]_vars => [Told]_vars
  BY <1>1, <1>2 DEF Next
<1> QED BY <1>3, Invariance, PTL DEF Spec, AnswerTellsOfSwitch

-----------------------------------------------------------------------------
\* The worker is idle exactly when the queue has no task in its function.
TransactionInv == TypeOK /\ (worker = "idle" <=> current = NoOne) /\ PendingIsQueuedOnce

\* A step that neither queues nor finishes, and lets no pending one's requester go.
LEMMA TransactionsKept ==
    ASSUME TransactionInv, TypeOK', UNCHANGED <<dpaQueue, current>>,
           Unfinished' <=> Unfinished, worker' = "idle" <=> worker = "idle",
           \A r \in Requesters : trans'[r] = "pending" <=> trans[r] = "pending",
           \A r \in Requesters : trans[r] = "pending" => pc'[r] \in {"dpaWait", "trWait"}
    PROVE  TransactionInv'
BY DEF TransactionInv, PendingIsQueuedOnce

\* Only what is not pending is pushed, and its requester waits for it.
LEMMA Pushes ==
    ASSUME TransactionInv, TypeOK', NEW r \in Requesters, PushTransaction(r),
           UNCHANGED workerVars, pc[r] \notin {"dpaWait", "trWait"},
           pc' = [pc EXCEPT ![r] = pc'[r]], pc'[r] \in {"dpaWait", "trWait"}
    PROVE  TransactionInv'
<1> USE DEF TransactionInv, TypeOK, PushTransaction, DpaQueue!Accept, workerVars
<1>1. trans[r] # "pending"
  BY DEF PendingIsQueuedOnce
<1>2. /\ Len(dpaQueue) \in Nat /\ Len(dpaQueue') = Len(dpaQueue) + 1
      /\ dpaQueue'[Len(dpaQueue) + 1] = r
      /\ \A i \in 1..Len(dpaQueue) : dpaQueue'[i] = dpaQueue[i]
  OBVIOUS
<1>3. /\ \A i \in 1..Len(dpaQueue) : dpaQueue[i] # r
      /\ Unfinished => current # r
  BY <1>1 DEF PendingIsQueuedOnce
<1>4. \A i \in 1..Len(dpaQueue') : i \in 1..Len(dpaQueue) \/ i = Len(dpaQueue) + 1
  BY <1>2
<1>5. Unfinished' <=> Unfinished
  BY DEF Unfinished
<1>6. \A i, j \in 1..Len(dpaQueue') : i # j => dpaQueue'[i] # dpaQueue'[j]
  BY <1>2, <1>3, <1>4 DEF PendingIsQueuedOnce
<1>7. \A i \in 1..Len(dpaQueue') : Unfinished' => dpaQueue'[i] # current'
  BY <1>2, <1>3, <1>4, <1>5 DEF PendingIsQueuedOnce
<1>8. ASSUME NEW s \in Requesters
      PROVE  trans'[s] = "pending" <=>
               \/ Unfinished' /\ current' = s
               \/ \E i \in 1..Len(dpaQueue') : dpaQueue'[i] = s
  <2>1. CASE s = r
    BY <1>2, <2>1
  <2>2. CASE s # r
    <3>1. trans'[s] = trans[s]
      BY <2>2
    <3>2. (\E i \in 1..Len(dpaQueue') : dpaQueue'[i] = s) <=>
             \E i \in 1..Len(dpaQueue) : dpaQueue[i] = s
      BY <1>2, <1>4, <2>2
    <3> QED BY <1>5, <3>1, <3>2 DEF PendingIsQueuedOnce
  <2> QED BY <2>1, <2>2
<1>9. \A s \in Requesters : trans'[s] = "pending" => pc'[s] \in {"dpaWait", "trWait"}
  BY DEF PendingIsQueuedOnce
<1> QED BY <1>6, <1>7, <1>8, <1>9 DEF PendingIsQueuedOnce

\* The oldest is taken from the queue into the worker.
LEMMA Takes == ASSUME TransactionInv, TypeOK', TakeTransaction PROVE TransactionInv'
<1> USE DaemonAssumption DEF TransactionInv, TypeOK, TakeTransaction, DpaQueue!Take
<1>1. /\ Len(dpaQueue) \in Nat /\ Len(dpaQueue) > 0 /\ Len(dpaQueue') = Len(dpaQueue) - 1
      /\ current' = dpaQueue[1] /\ current' \in Requesters
      /\ \A i \in 1..Len(dpaQueue') : dpaQueue'[i] = dpaQueue[i + 1]
      /\ Unfinished' /\ ~Unfinished /\ UNCHANGED <<trans, pc>>
  BY DEF Unfinished, requestVars
<1>2. \A i \in 1..Len(dpaQueue') : i + 1 \in 1..Len(dpaQueue) /\ i + 1 # 1
  BY <1>1
<1>3. \A i \in 1..Len(dpaQueue) : i = 1 \/ (i - 1 \in 1..Len(dpaQueue') /\ i = (i - 1) + 1)
  BY <1>1
<1>4. \A i, j \in 1..Len(dpaQueue') : i # j => dpaQueue'[i] # dpaQueue'[j]
  BY <1>1, <1>2 DEF PendingIsQueuedOnce
<1>5. \A i \in 1..Len(dpaQueue') : dpaQueue'[i] # current'
  BY <1>1, <1>2 DEF PendingIsQueuedOnce
<1>6. ASSUME NEW s \in Requesters
      PROVE  (\E i \in 1..Len(dpaQueue) : dpaQueue[i] = s) <=>
               current' = s \/ \E i \in 1..Len(dpaQueue') : dpaQueue'[i] = s
  BY <1>1, <1>2, <1>3
<1>7. \A s \in Requesters :
        trans'[s] = "pending" <=>
           (Unfinished' /\ current' = s) \/ \E i \in 1..Len(dpaQueue') : dpaQueue'[i] = s
  BY <1>1, <1>6 DEF PendingIsQueuedOnce
<1>8. \A s \in Requesters : trans'[s] = "pending" => pc'[s] \in {"dpaWait", "trWait"}
  BY <1>1 DEF PendingIsQueuedOnce
<1> QED BY <1>1, <1>4, <1>5, <1>7, <1>8 DEF PendingIsQueuedOnce

\* The transaction in the worker is finished.
LEMMA Finishes ==
    ASSUME TransactionInv, TypeOK', Unfinished, ~Unfinished', worker' # "idle",
           NEW result \in {"ok", "error", "aborted"}, FinishCurrent(result),
           UNCHANGED <<dpaQueue, current, pc>>
    PROVE  TransactionInv'
<1> USE DEF TransactionInv, TypeOK, FinishCurrent
<1>1. worker # "idle" /\ current \in Requesters
  BY DEF Unfinished
<1>2. /\ trans'[current] = result
      /\ \A s \in Requesters : s # current => trans'[s] = trans[s]
  BY <1>1
<1>3. \A s \in Requesters :
        trans'[s] = "pending" <=> \E i \in 1..Len(dpaQueue') : dpaQueue'[i] = s
  BY <1>1, <1>2 DEF PendingIsQueuedOnce
<1> QED BY <1>1, <1>2, <1>3 DEF PendingIsQueuedOnce

LEMMA TransactionInit == Init => TransactionInv
BY TypeInit DEF Init, DpaQueue!AbsInit, TransactionInv, PendingIsQueuedOnce, Unfinished

LEMMA TransactionRequesterStep ==
    ASSUME TransactionInv, NEW r \in Requesters, RequesterNext(r)
    PROVE  TransactionInv'
<1>0. TypeOK /\ TypeOK'
  BY RequesterTypeStep DEF TransactionInv
<1> USE <1>0 DEF Goto
<1>1. CASE DpaRequest(r) \/ ReadTr(r)
  <2>1. /\ PushTransaction(r) /\ UNCHANGED workerVars /\ pc[r] \notin {"dpaWait", "trWait"}
        /\ pc' = [pc EXCEPT ![r] = pc'[r]] /\ pc'[r] \in {"dpaWait", "trWait"}
    BY <1>1 DEF DpaRequest, ReadTr, TypeOK
  <2> QED BY <2>1, Pushes
<1>2. CASE DpaFinished(r) \/ TrFinished(r)
  <2> QED BY <1>2, TransactionsKept
          DEF DpaFinished, TrFinished, TransactionInv, PendingIsQueuedOnce, TypeOK, workerVars,
              queueVars, Unfinished
<1>3. CASE Reply(r)
  <2>1. trans[r] # "pending" /\ trans'[r] # "pending"
    BY <1>3 DEF Reply, TransactionInv, PendingIsQueuedOnce, TypeOK
  <2> QED BY <1>3, <2>1, TransactionsKept
          DEF Reply, TransactionInv, PendingIsQueuedOnce, TypeOK, workerVars, queueVars, Unfinished
<1>4. CASE \/ \E mode \in Mode : Command(r, mode)
           \/ LockMode(r) \/ ResetExclusive(r) \/ CreateHandler(r) \/ ConfigureHandler(r)
           \/ AnnounceService(r) \/ SetExclusive(r) \/ AssignMode(r) \/ UnlockMode(r)
  <2>1. /\ UNCHANGED <<workerVars, queueVars, trans>> /\ pc[r] \notin {"dpaWait", "trWait"}
        /\ \A s \in Requesters : s # r => pc'[s] = pc[s]
    BY <1>4 DEF Command, LockMode, ResetExclusive, CreateHandler, ConfigureHandler,
                AnnounceService, SetExclusive, AssignMode, UnlockMode, TypeOK
  <2> QED BY <2>1, TransactionsKept
          DEF TransactionInv, PendingIsQueuedOnce, workerVars, queueVars, Unfinished
<1>5. CASE DeleteHandler(r)
  <2>1. /\ UNCHANGED <<queueVars, trans>> /\ pc[r] = "delete"
        /\ \A s \in Requesters : s # r => pc'[s] = pc[s]
        /\ Unfinished' <=> Unfinished
        /\ worker' = "idle" <=> worker = "idle"
    BY <1>5 DEF DeleteHandler, TypeOK, Unfinished
  <2> QED BY <2>1, TransactionsKept DEF TransactionInv, PendingIsQueuedOnce, queueVars
<1> QED BY <1>1, <1>2, <1>3, <1>4, <1>5 DEF RequesterNext, SetModeStep

LEMMA TransactionWorkerStep ==
    ASSUME TransactionInv, WorkerNext \/ \E result \in {"ok", "error"} : Undefined(result)
    PROVE  TransactionInv'
<1>0. TypeOK /\ TypeOK'
  BY WorkerTypeStep DEF TransactionInv
<1> USE <1>0 DEF queueVars, requestVars
<1>1. CASE TakeTransaction
  BY <1>1, Takes
<1>2. ASSUME \/ TryLock \/ CallHandler \/ HandlerReturns
             \/ (SwitchOnMode \/ TestHandler) /\ worker' # "unlock"
             \/ (\E result \in {"ok", "error"} : Undefined(result)) /\ worker = "danglingReturn"
      PROVE  TransactionInv'
  <2>1. /\ UNCHANGED <<queueVars, trans, requestVars>>
        /\ Unfinished' <=> Unfinished
        /\ worker' = "idle" <=> worker = "idle"
    BY <1>2 DEF TryLock, CallHandler, HandlerReturns, SwitchOnMode, TestHandler, Undefined,
                Unfinished
  <2> QED BY <2>1, TransactionsKept DEF TransactionInv, PendingIsQueuedOnce
<1>3. ASSUME NEW result \in {"ok", "error"}, FinishCurrent(result),
             \/ SwitchOnMode \/ TestHandler \/ HandlerFinishes(result) \/ HandlerThrows
             \/ Undefined(result) /\ worker = "dangling",
             worker' \in {"unlock", "returning"}
      PROVE  TransactionInv'
  <2>1. Unfinished /\ ~Unfinished' /\ worker' # "idle" /\ UNCHANGED <<dpaQueue, current, pc>>
    BY <1>3 DEF SwitchOnMode, TestHandler, HandlerFinishes, HandlerThrows, Undefined, Unfinished
  <2> QED BY <1>3, <2>1, Finishes
<1>4. CASE ReturnToQueue
  <2>1. /\ worker = "unlock" /\ worker' = "idle" /\ current' = NoOne
        /\ UNCHANGED <<dpaQueue, trans, pc>> /\ ~Unfinished /\ ~Unfinished'
    BY <1>4 DEF ReturnToQueue, DpaQueue!Finish, Unfinished
  <2> QED BY <2>1 DEF TransactionInv, PendingIsQueuedOnce
<1>5. CASE SwitchOnMode \/ TestHandler
  <2>1. worker' = "unlock" => FinishCurrent("error")
    BY <1>5 DEF SwitchOnMode, TestHandler
  <2>2. CASE worker' = "unlock"
    BY <1>3, <1>5, <2>1, <2>2
  <2>3. CASE worker' # "unlock"
    BY <1>2, <1>5, <2>3
  <2> QED BY <2>2, <2>3
<1>6. CASE HandlerThrows
  BY <1>3, <1>6 DEF HandlerThrows
<1>7. ASSUME NEW result \in {"ok", "error"}, HandlerFinishes(result) \/ Undefined(result)
      PROVE  TransactionInv'
  BY <1>2, <1>3, <1>7 DEF HandlerFinishes, Undefined
<1> QED BY <1>1, <1>2, <1>4, <1>5, <1>6, <1>7 DEF WorkerNext

\* Each pending transaction is in the queue or in the worker, once, and waited for.
THEOREM PendingOnce == Spec => []PendingIsQueuedOnce
<1>1. TransactionInv /\ Next => TransactionInv'
  BY TransactionRequesterStep, TransactionWorkerStep DEF Next
<1>2. TransactionInv /\ UNCHANGED vars => TransactionInv'
  BY TypeStutter
     DEF TransactionInv, PendingIsQueuedOnce, Unfinished, vars, queueVars, workerVars, requestVars
<1>3. TransactionInv => PendingIsQueuedOnce
  BY DEF TransactionInv
<1> QED BY <1>1, <1>2, <1>3, TransactionInit, PTL DEF Spec
-----------------------------------------------------------------------------
(* The shutdown.                                                           *)

\* The Scheduler's worker is in a service exactly while it holds the mutex.
InServiceLocked == handlersMtx = Sched <=> pc[Sched] # "idle"

\* Without a registered service the Scheduler's worker enters none.
UnregisteredIsLeft == registered = {} => pc[Sched] = "idle"

\* What the main thread has behind it.
Progress ==
    /\ main \in {"stopMessagings", "joinWorker", "joinScheduler", "stopped"} \/ ~services =>
         registered = {}
    /\ main \in {"joinWorker", "joinScheduler", "stopped"} =>
         closed = Messagings /\ \A m \in Messagings : pc[m] = "idle"

StopInv == ShutdownTypeOK /\ InServiceLocked /\ UnregisteredIsLeft /\ Progress

\* What each of the other threads' steps does to the places of the requesters.
LEMMA RequesterMoves ==
    ASSUME TypeOK, NEW r \in Requesters, RequesterNext(r)
    PROVE  /\ \A s \in Requesters : s # r => pc'[s] = pc[s]
           /\ (DpaFinished(r) \/ SetModeStep(r)) => pc[r] # "idle" /\ pc'[r] # "idle"
           /\ Message(r) => pc[r] = "idle" /\ pc'[r] # "idle"
           /\ Reply(r) => pc'[r] = "idle"
<1> USE DEF TypeOK, Goto
<1>1. \A s \in Requesters : s # r => pc'[s] = pc[s]
  BY DEF RequesterNext, DpaRequest, DpaFinished, Reply, Command, SetModeStep, LockMode,
         ResetExclusive, CreateHandler, ConfigureHandler, ReadTr, TrFinished, AnnounceService,
         DeleteHandler, SetExclusive, AssignMode, UnlockMode
<1>2. (DpaFinished(r) \/ SetModeStep(r)) => pc[r] # "idle" /\ pc'[r] # "idle"
  BY DEF DpaFinished, SetModeStep, LockMode, FirstStep, ResetExclusive, CreateHandler,
         ConfigureHandler, ReadTr, TrFinished, AnnounceService, DeleteHandler, SetExclusive,
         AssignMode, UnlockMode
<1>3. Message(r) => pc[r] = "idle" /\ pc'[r] # "idle"
  BY DEF Message, DpaRequest, Command
<1>4. Reply(r) => pc'[r] = "idle"
  BY DEF Reply
<1> QED BY <1>1, <1>2, <1>3, <1>4

LEMMA StopInit == ShutdownInit => StopInv
<1> SUFFICES ASSUME ShutdownInit PROVE StopInv
  OBVIOUS
<1>1. TypeOK
  BY TypeInit DEF ShutdownInit
<1>2. sched \in {"running", "popped", "stopped"} /\ services \in BOOLEAN /\ async \in BOOLEAN
  BY DEF ShutdownInit
<1>3. ShutdownTypeOK
  BY <1>1, <1>2 DEF ShutdownInit, ShutdownTypeOK
<1>4. \A r \in Requesters : pc[r] = "idle"
  BY DEF ShutdownInit, Init
<1> QED BY <1>3, <1>4, ShutdownAssumption, DaemonAssumption
        DEF ShutdownInit, StopInv, InServiceLocked, UnregisteredIsLeft, Progress

\* A messaging takes a message or has answered it.
LEMMA MessagingStep ==
    ASSUME StopInv, NEW m \in Messagings, MessageArrives(m) \/ MessageDone(m)
    PROVE  StopInv'
<1> USE ShutdownAssumption
    DEF StopInv, ShutdownTypeOK, Messagings, InServiceLocked, UnregisteredIsLeft, Progress, stopVars
<1>1. RequesterNext(m)
  BY DEF MessageArrives, Message, MessageDone, RequesterNext
<1>2. TypeOK'
  BY <1>1, RequesterTypeStep
<1>3. /\ \A s \in Requesters : s # m => pc'[s] = pc[s]
      /\ MessageDone(m) => pc'[m] = "idle"
  BY <1>1, RequesterMoves DEF MessageDone
<1>4. UNCHANGED <<main, stopVars>> /\ (MessageArrives(m) => m \notin closed)
  BY DEF MessageArrives, MessageDone
<1> QED BY <1>2, <1>3, <1>4

\* The Scheduler's worker enters a service or leaves it.
LEMMA SchedulerStep ==
    ASSUME StopInv, ScheduledTask \/ ScheduledTaskDone PROVE StopInv'
<1> USE ShutdownAssumption, DaemonAssumption
    DEF StopInv, ShutdownTypeOK, Messagings, InServiceLocked, UnregisteredIsLeft, Progress
<1>1. RequesterNext(Sched)
  BY DEF ScheduledTask, Message, ScheduledTaskDone, RequesterNext
<1>2. TypeOK'
  BY <1>1, RequesterTypeStep
<1>3. /\ \A s \in Requesters : s # Sched => pc'[s] = pc[s]
      /\ ScheduledTask => pc'[Sched] # "idle" /\ registered # {} /\ handlersMtx' = Sched
      /\ ScheduledTaskDone => pc'[Sched] = "idle" /\ handlersMtx' = NoOne
      /\ sched' \in {"running", "popped", "stopped"}
      /\ UNCHANGED <<main, registered, services, closed, async>>
  BY <1>1, RequesterMoves DEF ScheduledTask, ScheduledTaskDone
<1> QED BY <1>2, <1>3

\* A requester goes on, or the worker, or the handler's thread.
LEMMA OtherThreadStep ==
    ASSUME StopInv,
           \/ \E r \in Requesters : Continue(r)
           \/ WorkerContinues \/ UndefinedContinues \/ AsyncArrives \/ AsyncReturns
    PROVE  StopInv'
<1> USE ShutdownAssumption
    DEF StopInv, ShutdownTypeOK, Messagings, InServiceLocked, UnregisteredIsLeft, Progress, stopVars
<1>1. ASSUME NEW r \in Requesters, Continue(r) PROVE StopInv'
  <2>1. RequesterNext(r)
    BY <1>1 DEF Continue, RequesterNext
  <2>2. TypeOK'
    BY <2>1, RequesterTypeStep
  <2>3. /\ \A s \in Requesters : pc'[s] = "idle" <=> pc[s] = "idle"
        /\ UNCHANGED <<main, stopVars>>
    BY <1>1, <2>1, RequesterMoves DEF Continue
  <2> QED BY <2>2, <2>3
<1>2. CASE WorkerContinues \/ UndefinedContinues
  <2>1. TypeOK'
    BY <1>2, WorkerTypeStep DEF WorkerContinues, UndefinedContinues
  <2>2. UNCHANGED requestVars /\ UNCHANGED <<main, stopVars>>
    BY <1>2 DEF WorkerContinues, UndefinedContinues, WorkerNext, TakeTransaction, TryLock,
                SwitchOnMode, TestHandler, CallHandler, HandlerFinishes, HandlerReturns,
                HandlerThrows, ReturnToQueue, Undefined
  <2> QED BY <2>1, <2>2 DEF requestVars
<1>3. CASE AsyncArrives \/ AsyncReturns
  <2>1. /\ UNCHANGED <<vars, main, sched, handlersMtx, registered, services, closed>>
        /\ async' \in BOOLEAN
    BY <1>3 DEF AsyncArrives, AsyncReturns
  <2>2. TypeOK'
    BY <2>1, TypeStutter
  <2> QED BY <2>1, <2>2 DEF vars, requestVars
<1> QED BY <1>1, <1>2, <1>3

\* The main thread.
LEMMA MainStep == ASSUME StopInv, Exit \/ MainStops PROVE StopInv'
<1> USE ShutdownAssumption, DaemonAssumption
    DEF StopInv, ShutdownTypeOK, Messagings, InServiceLocked, UnregisteredIsLeft, Progress,
        MainGoto, stopVars, vars, requestVars
<1>1. ASSUME UNCHANGED <<vars, stopVars>>, \/ Exit \/ TestKill \/ DeleteDpaQueue \/ DeleteScheduler
      PROVE  StopInv'
  <2>1. TypeOK'
    BY <1>1, TypeStutter
  <2> QED BY <1>1, <2>1 DEF Exit, TestKill, DeleteDpaQueue, DeleteScheduler
<1>2. CASE StopScheduler
  <2>1. TypeOK' /\ sched' \in {"running", "popped", "stopped"}
    BY <1>2, TypeStutter DEF StopScheduler
  <2> QED BY <1>2, <2>1 DEF StopScheduler
<1>3. CASE StopDpaQueue
  <2>1. dpaRunning' \in BOOLEAN
    BY <1>3 DEF StopDpaQueue, DpaQueue!Stop
  <2>2. TypeOK'
    BY <1>3, <2>1 DEF StopDpaQueue, DpaQueue!Stop, TypeOK, modeVars, workerVars
  <2> QED BY <1>3, <2>2 DEF StopDpaQueue
<1>4. CASE KillTransaction
  <2>1. TypeOK'
    BY <1>4 DEF KillTransaction, FinishCurrent, TypeOK, modeVars, queueVars, workerVars
  <2> QED BY <1>4, <2>1 DEF KillTransaction
<1>5. ASSUME NEW s \in Messagings, UnregisterService(s) PROVE StopInv'
  <2>1. TypeOK'
    BY <1>5, TypeStutter DEF UnregisterService
  <2> QED BY <1>5, <2>1 DEF UnregisterService
<1>6. CASE ClearServices
  <2>1. TypeOK' /\ services' \in BOOLEAN
    BY <1>6, TypeStutter DEF ClearServices
  <2> QED BY <1>6, <2>1 DEF ClearServices
<1>7. ASSUME NEW m \in Messagings, CloseMessaging(m) PROVE StopInv'
  <2>1. TypeOK'
    BY <1>7, TypeStutter DEF CloseMessaging
  <2> QED BY <1>7, <2>1 DEF CloseMessaging
<1>8. CASE DeleteDpaHandler
  <2>1. TypeOK'
    BY <1>8 DEF DeleteDpaHandler, TypeOK, queueVars
  <2> QED BY <1>8, <2>1 DEF DeleteDpaHandler, Joined
<1> QED BY <1>1, <1>2, <1>3, <1>4, <1>5, <1>6, <1>7, <1>8
        DEF MainStops, Exit, TestKill, DeleteDpaQueue, DeleteScheduler

LEMMA StopInductive == StopInv /\ [ShutdownNext]_allVars => StopInv'
<1>1. StopInv /\ ShutdownNext => StopInv'
  BY MessagingStep, SchedulerStep, OtherThreadStep, MainStep DEF ShutdownNext
<1>2. StopInv /\ UNCHANGED allVars => StopInv'
  BY TypeStutter
     DEF allVars, stopVars, vars, requestVars, StopInv, ShutdownTypeOK, InServiceLocked,
         UnregisteredIsLeft, Progress
<1> QED BY <1>1, <1>2

LEMMA StopInvariance == ShutdownSpec => []StopInv
BY StopInit, StopInductive, PTL DEF ShutdownSpec
-----------------------------------------------------------------------------
\* The variables hold values of their types, for any messagings.
THEOREM ShutdownTypes == ShutdownSpec => []ShutdownTypeOK
<1>1. StopInv => ShutdownTypeOK
  BY DEF StopInv
<1> QED BY <1>1, StopInvariance, PTL

\* unregisterMessageHandler waits for the handler in progress: the Scheduler's worker
\* is in no service that is destroyed.
THEOREM SchedulerIsOut == ShutdownSpec => []SchedulerLeavesServices
<1>1. StopInv => SchedulerLeavesServices
  BY DEF StopInv, UnregisteredIsLeft, Progress, SchedulerLeavesServices
<1> QED BY <1>1, StopInvariance, PTL

\* Every requester is out of the controller when the DPA handler and queue are deleted.
THEOREM NobodyAtDeletion == ShutdownSpec => []NoRequesterAtDeletion
<1>1. StopInv => NoRequesterAtDeletion
  BY DEF StopInv, UnregisteredIsLeft, Progress, NoRequesterAtDeletion, Messagings
<1> QED BY <1>1, StopInvariance, PTL

\* After stopQueue no transaction is handed to the worker.
THEOREM StoppedStartsNothing == ShutdownSpec => StoppedQueueStartsNothing
<1> DEFINE Quiet == ~dpaRunning => current' \in {current, NoOne}
<1>1. ASSUME NEW r \in Requesters, RequesterNext(r) PROVE current' = current
  BY <1>1 DEF RequesterNext, DpaRequest, DpaFinished, Reply, Command, SetModeStep, LockMode,
              ResetExclusive, CreateHandler, ConfigureHandler, ReadTr, TrFinished, AnnounceService,
              DeleteHandler, SetExclusive, AssignMode, UnlockMode, PushTransaction,
              DpaQueue!Accept, queueVars
<1>2. ASSUME WorkerNext \/ \E result \in {"ok", "error"} : Undefined(result) PROVE Quiet
  BY <1>2 DEF WorkerNext, TakeTransaction, TryLock, SwitchOnMode, TestHandler, CallHandler,
              HandlerFinishes, HandlerReturns, HandlerThrows, ReturnToQueue, Undefined,
              DpaQueue!Take, DpaQueue!Finish, queueVars
<1>3. ASSUME Exit \/ MainStops \/ AsyncArrives \/ AsyncReturns PROVE current' = current
  BY <1>3 DEF Exit, MainStops, AsyncArrives, AsyncReturns, StopScheduler, StopDpaQueue, TestKill,
              KillTransaction, UnregisterService, ClearServices, CloseMessaging, DeleteDpaHandler,
              DeleteDpaQueue, DeleteScheduler, DpaQueue!Stop, vars, queueVars
<1>4. ASSUME ShutdownNext PROVE Quiet
  BY <1>1, <1>2, <1>3, <1>4, ShutdownAssumption
     DEF ShutdownNext, MessageArrives, MessageDone, Message, ScheduledTask, ScheduledTaskDone,
         Continue, WorkerContinues, UndefinedContinues, RequesterNext, Messagings
<1>5. [ShutdownNext]_allVars => [Quiet]_allVars
  BY <1>4
<1> QED BY <1>5, PTL DEF ShutdownSpec, StoppedQueueStartsNothing
-----------------------------------------------------------------------------
(* The DPA queue and its transactions, with and without a shutdown.        *)

\* A requester pushes its own transaction or leaves the queue alone.
LEMMA RequesterQueueStep ==
    ASSUME NEW r \in Requesters, RequesterNext(r)
    PROVE  DpaQueue!Accept(r) \/ UNCHANGED queueVars
BY DEF RequesterNext, DpaRequest, DpaFinished, Reply, Command, SetModeStep, LockMode,
       ResetExclusive, CreateHandler, ConfigureHandler, ReadTr, TrFinished, AnnounceService,
       DeleteHandler, SetExclusive, AssignMode, UnlockMode, PushTransaction

\* The worker takes the oldest, lets go of the one it has, or leaves the queue alone.
LEMMA WorkerQueueStep ==
    ASSUME WorkerNext \/ \E result \in {"ok", "error"} : Undefined(result)
    PROVE  DpaQueue!Take \/ DpaQueue!Finish \/ UNCHANGED queueVars
BY DEF WorkerNext, TakeTransaction, TryLock, SwitchOnMode, TestHandler, CallHandler,
       HandlerFinishes, HandlerReturns, HandlerThrows, ReturnToQueue, Undefined

\* The main thread stops the queue or leaves it alone, the handler's thread leaves it.
LEMMA MainQueueStep ==
    ASSUME Exit \/ MainStops \/ AsyncArrives \/ AsyncReturns
    PROVE  DpaQueue!Stop \/ UNCHANGED queueVars
BY DEF Exit, MainStops, AsyncArrives, AsyncReturns, StopScheduler, StopDpaQueue, TestKill,
       KillTransaction, UnregisterService, ClearServices, CloseMessaging, DeleteDpaHandler,
       DeleteDpaQueue, DeleteScheduler, vars

\* A step of the daemon is one of a requester, the worker, or one of the other two.
LEMMA ShutdownSteps ==
    ASSUME ShutdownNext
    PROVE  \/ (\E r \in Requesters : RequesterNext(r)) /\ UNCHANGED main
           \/ (WorkerNext \/ \E result \in {"ok", "error"} : Undefined(result)) /\ UNCHANGED main
           \/ Exit \/ MainStops \/ AsyncArrives \/ AsyncReturns
BY ShutdownAssumption
   DEF ShutdownNext, MessageArrives, MessageDone, Message, ScheduledTask, ScheduledTaskDone,
       Continue, WorkerContinues, UndefinedContinues, RequesterNext, Messagings

\* executeDpaTransaction, the worker and startDpa use the queue as a TaskQueue may be
\* used: what they do to it are steps of a FIFO executor, one transaction at a time.
THEOREM DpaQueueIsUsed == Spec => DpaQueue!AbsSafety
<1>1. Init => DpaQueue!AbsInit
  BY DEF Init
<1>2. [Next]_vars => [DpaQueue!AbsNext]_(DpaQueue!absVars)
  BY RequesterQueueStep, WorkerQueueStep
     DEF Next, vars, queueVars, DpaQueue!AbsNext, DpaQueue!absVars
<1> QED BY <1>1, <1>2, PTL DEF Spec, DpaQueue!AbsSafety

\* The same while the daemon stops: stop() only stops it, and keeps what is left in it.
THEOREM StoppedDpaQueueIsUsed == ShutdownSpec => DpaQueue!AbsSafety
<1>1. ShutdownInit => DpaQueue!AbsInit
  BY DEF ShutdownInit, Init
<1>2. [ShutdownNext]_allVars => [DpaQueue!AbsNext]_(DpaQueue!absVars)
  BY ShutdownSteps, RequesterQueueStep, WorkerQueueStep, MainQueueStep
     DEF allVars, vars, queueVars, DpaQueue!AbsNext, DpaQueue!absVars
<1> QED BY <1>1, <1>2, PTL DEF ShutdownSpec, DpaQueue!AbsSafety

\* The main thread kills the transaction in progress, deletes the handler under it, or
\* leaves it alone.
LEMMA MainKeepsTransactions ==
    ASSUME TransactionInv, TypeOK', Exit \/ MainStops \/ AsyncArrives \/ AsyncReturns
    PROVE  TransactionInv'
<1>1. CASE KillTransaction /\ m_dpaHandler # "null" /\ worker = "executing"
  <2>1. /\ Unfinished /\ ~Unfinished' /\ worker' # "idle" /\ FinishCurrent("aborted")
        /\ UNCHANGED <<dpaQueue, current, pc>>
    BY <1>1 DEF KillTransaction, Unfinished, queueVars, requestVars
  <2> QED BY <2>1, Finishes
<1>2. CASE ~(KillTransaction /\ m_dpaHandler # "null" /\ worker = "executing")
  <2>1. /\ UNCHANGED <<dpaQueue, current, trans, pc>>
        /\ Unfinished' <=> Unfinished
        /\ worker' = "idle" <=> worker = "idle"
    BY <1>2
       DEF Exit, MainStops, AsyncArrives, AsyncReturns, StopScheduler, StopDpaQueue, TestKill,
           KillTransaction, UnregisterService, ClearServices, CloseMessaging, DeleteDpaHandler,
           DeleteDpaQueue, DeleteScheduler, DpaQueue!Stop, vars, queueVars, workerVars,
           requestVars, Unfinished
  <2> QED BY <2>1, TransactionsKept DEF TransactionInv, PendingIsQueuedOnce
<1> QED BY <1>1, <1>2

LEMMA TransactionInShutdown ==
    ASSUME StopInv, TransactionInv, [ShutdownNext]_allVars PROVE TransactionInv'
<1>1. TypeOK'
  BY StopInductive DEF StopInv, ShutdownTypeOK
<1>2. CASE ShutdownNext
  BY <1>1, <1>2, ShutdownSteps, TransactionRequesterStep, TransactionWorkerStep,
     MainKeepsTransactions
<1>3. CASE UNCHANGED allVars
  BY <1>1, <1>3
     DEF allVars, vars, queueVars, workerVars, requestVars, TransactionInv,
         PendingIsQueuedOnce, Unfinished
<1> QED BY <1>2, <1>3

\* Also while the daemon stops, kills the transaction in progress and deletes the handler
\* under the worker, each pending transaction is in the queue or in the worker, once, and
\* waited for. One that stop() leaves in the queue is pending for ever, and not lost.
THEOREM PendingOnceInShutdown == ShutdownSpec => []PendingIsQueuedOnce
<1>1. ShutdownInit => StopInv /\ TransactionInv
  BY StopInit, TransactionInit DEF ShutdownInit
<1>2. StopInv /\ TransactionInv /\ [ShutdownNext]_allVars => StopInv' /\ TransactionInv'
  BY StopInductive, TransactionInShutdown
<1>3. TransactionInv => PendingIsQueuedOnce
  BY DEF TransactionInv
<1> QED BY <1>1, <1>2, <1>3, PTL DEF ShutdownSpec

-----------------------------------------------------------------------------
Results == {"ok", "error", "aborted"}

\* A requester has a result, or waits for one, only between its request and its answer;
\* what it answers to a DPA request is the result.
ResultInv ==
    \A r \in Requesters :
        /\ trans[r] # "none" => pc[r] \in {"dpaWait", "trWait", "assign", "unlock", "reply"}
        /\ pc[r] \in {"dpaWait", "trWait"} => trans[r] # "none"
        /\ pc[r] = "reply" /\ answer[r] \in Results => trans[r] = answer[r]

\* The result of a transaction stands until its requester has answered: no second
\* response, time-out, exception or kill finishes it again, though the worker, the main
\* thread and the requester touch it from three threads.
ResultStands ==
    \A r \in Requesters :
        trans[r] \in Results =>
            trans'[r] = trans[r] \/ (pc[r] = "reply" /\ pc'[r] = "idle" /\ trans'[r] = "none")

\* What the worker finishes was pending, and its requester waits.
LEMMA FinishedOnce ==
    ASSUME TransactionInv, ResultInv, Unfinished, NEW result \in Results,
           FinishCurrent(result), UNCHANGED <<pc, answer>>
    PROVE  ResultInv' /\ ResultStands
<1>1. current \in Requesters /\ trans[current] = "pending"
  BY DEF TransactionInv, TypeOK, PendingIsQueuedOnce, Unfinished
<1>2. pc[current] \in {"dpaWait", "trWait"}
  BY <1>1 DEF TransactionInv, PendingIsQueuedOnce
<1>3. /\ trans'[current] = result
      /\ \A r \in Requesters : r # current => trans'[r] = trans[r]
  BY <1>1 DEF FinishCurrent, TransactionInv, TypeOK
<1> QED BY <1>1, <1>2, <1>3 DEF ResultInv, ResultStands, Results

LEMMA ResultRequesterStep ==
    ASSUME TransactionInv, ResultInv, NEW r \in Requesters, RequesterNext(r)
    PROVE  ResultInv' /\ ResultStands
<1> USE DEF TransactionInv, TypeOK, Goto, ResultInv, ResultStands, Results
<1>1. CASE DpaRequest(r) \/ ReadTr(r)
  BY <1>1 DEF DpaRequest, ReadTr, PushTransaction
<1>2. CASE DpaFinished(r)
  BY <1>2 DEF DpaFinished
<1>3. CASE Reply(r)
  BY <1>3 DEF Reply
<1>4. ASSUME NEW mode \in Mode, Command(r, mode) PROVE ResultInv' /\ ResultStands
  BY <1>4 DEF Command
<1>5. CASE LockMode(r) \/ ResetExclusive(r) \/ CreateHandler(r) \/ ConfigureHandler(r)
           \/ AnnounceService(r) \/ DeleteHandler(r) \/ SetExclusive(r) \/ AssignMode(r)
           \/ TrFinished(r)
  <2>1. /\ UNCHANGED <<trans, answer>> /\ pc[r] \notin {"idle", "dpaWait", "reply", "unlock"}
        /\ pc'[r] \notin {"dpaWait", "trWait", "reply"}
        /\ pc[r] \in {"trWait", "assign"} => pc'[r] \in {"assign", "unlock"}
        /\ \A s \in Requesters : s # r => pc'[s] = pc[s]
    BY <1>5 DEF LockMode, FirstStep, ResetExclusive, CreateHandler, ConfigureHandler,
                AnnounceService, DeleteHandler, SetExclusive, AssignMode, TrFinished
  <2> QED BY <2>1
<1>6. CASE UnlockMode(r)
  BY <1>6 DEF UnlockMode
<1> QED BY <1>1, <1>2, <1>3, <1>4, <1>5, <1>6 DEF RequesterNext, SetModeStep

LEMMA ResultWorkerStep ==
    ASSUME TransactionInv, ResultInv,
           WorkerNext \/ \E result \in {"ok", "error"} : Undefined(result)
    PROVE  ResultInv' /\ ResultStands
<1>1. \/ UNCHANGED <<trans, pc, answer>>
      \/ /\ Unfinished /\ UNCHANGED <<pc, answer>>
         /\ \E result \in Results : FinishCurrent(result)
  BY DEF WorkerNext, TakeTransaction, TryLock, SwitchOnMode, TestHandler, CallHandler,
         HandlerFinishes, HandlerReturns, HandlerThrows, ReturnToQueue, Undefined,
         Unfinished, Results, requestVars
<1> QED BY <1>1, FinishedOnce DEF ResultInv, ResultStands, Results

LEMMA ResultMainStep ==
    ASSUME TransactionInv, ResultInv, Exit \/ MainStops \/ AsyncArrives \/ AsyncReturns
    PROVE  ResultInv' /\ ResultStands
<1>1. \/ UNCHANGED <<trans, pc, answer>>
      \/ Unfinished /\ UNCHANGED <<pc, answer>> /\ FinishCurrent("aborted")
  BY DEF Exit, MainStops, AsyncArrives, AsyncReturns, StopScheduler, StopDpaQueue, TestKill,
         KillTransaction, UnregisterService, ClearServices, CloseMessaging, DeleteDpaHandler,
         DeleteDpaQueue, DeleteScheduler, vars, requestVars, Unfinished
<1> QED BY <1>1, FinishedOnce DEF ResultInv, ResultStands, Results

LEMMA ResultInit == Init => ResultInv
BY DEF Init, ResultInv

\* A DPA request is answered with its own transaction's one result.
THEOREM OneResult == Spec => []ResultInv /\ [][ResultStands]_vars
<1> DEFINE Both == TransactionInv /\ ResultInv
<1>1. Init => Both
  BY TransactionInit, ResultInit
<1>2. TransactionInv /\ Next => TransactionInv'
  BY TransactionRequesterStep, TransactionWorkerStep DEF Next
<1>3. TransactionInv /\ UNCHANGED vars => TransactionInv'
  BY TypeStutter
     DEF TransactionInv, PendingIsQueuedOnce, Unfinished, vars, queueVars, workerVars, requestVars
<1>4. Both /\ Next => ResultInv' /\ ResultStands
  BY ResultRequesterStep, ResultWorkerStep DEF Next
<1>5. ResultInv /\ UNCHANGED vars => ResultInv'
  BY DEF ResultInv, vars, requestVars
<1>6. Both /\ [Next]_vars => Both' /\ [ResultStands]_vars
  BY <1>2, <1>3, <1>4, <1>5
<1>7. Both => ResultInv
  OBVIOUS
<1> HIDE DEF Both
<1> QED BY <1>1, <1>6, <1>7, PTL DEF Spec

\* The same while the daemon stops, where the main thread may abort a transaction that
\* its handler is about to finish.
THEOREM OneResultInShutdown == ShutdownSpec => []ResultInv /\ [][ResultStands]_allVars
<1> DEFINE All == StopInv /\ TransactionInv /\ ResultInv
<1>1. ShutdownInit => All
  BY StopInit, TransactionInit, ResultInit DEF ShutdownInit
<1>2. All /\ ShutdownNext => TransactionInv' /\ ResultInv' /\ ResultStands
  BY ShutdownSteps, TransactionInShutdown, ResultRequesterStep, ResultWorkerStep, ResultMainStep
<1>3. All /\ UNCHANGED allVars => TransactionInv' /\ ResultInv'
  BY TransactionInShutdown DEF ResultInv, allVars, vars, requestVars
<1>4. All /\ [ShutdownNext]_allVars => All' /\ [ResultStands]_allVars
  BY <1>2, <1>3, StopInductive
<1>5. All => ResultInv
  OBVIOUS
<1> HIDE DEF All
<1> QED BY <1>1, <1>4, <1>5, PTL DEF ShutdownSpec

-----------------------------------------------------------------------------
\* What the main thread does before it deletes the handler touches nothing of a switch.
LEMMA MainKeepsSwitch ==
    ASSUME IInv, TypeOK', Exit \/ MainStops \/ AsyncArrives \/ AsyncReturns, HandlerStands'
    PROVE  IInv' /\ UNCHANGED <<pc, cmd, answer>>
<1>1. CASE KillTransaction
  <2>1. /\ UNCHANGED <<modeVars, queueVars, workerMode, workerLocked, requestVars>>
        /\ worker' = worker \/ (worker = "executing" /\ worker' = "returning")
    BY <1>1 DEF KillTransaction
  <2> QED BY <2>1
          DEF IInv, MutexHeld, SwitchInv, WorkerInv, Phase, HandlerAt, Agree, modeVars, requestVars
<1>2. CASE ~KillTransaction
  <2>1. UNCHANGED <<modeVars, workerVars, requestVars>>
    BY <1>2
       DEF HandlerStands, Exit, MainStops, AsyncArrives, AsyncReturns, StopScheduler,
           StopDpaQueue, TestKill, UnregisterService, ClearServices, CloseMessaging,
           DeleteDpaHandler, DeleteDpaQueue, DeleteScheduler, MainGoto, vars
  <2> QED BY <2>1
          DEF IInv, MutexHeld, SwitchInv, WorkerInv, Phase, HandlerAt, Agree, modeVars,
              workerVars, requestVars
<1> QED BY <1>1, <1>2

SwitchInShutdown == StopInv /\ (HandlerStands => IInv)

LEMMA SwitchInShutdownStep ==
    ASSUME SwitchInShutdown, [ShutdownNext]_allVars PROVE SwitchInShutdown'
<1>1. StopInv' /\ TypeOK'
  BY StopInductive DEF SwitchInShutdown, StopInv, ShutdownTypeOK
<1>2. ASSUME UNCHANGED main, HandlerStands,
             \/ \E r \in Requesters : RequesterNext(r)
             \/ WorkerNext \/ \E result \in {"ok", "error"} : Undefined(result)
      PROVE  IInv'
  BY <1>2, InvStep DEF SwitchInShutdown, Next
<1>3. ASSUME Exit \/ MainStops \/ AsyncArrives \/ AsyncReturns, HandlerStands' PROVE IInv'
  <2>1. HandlerStands
    BY <1>3
       DEF HandlerStands, Exit, MainStops, AsyncArrives, AsyncReturns, StopScheduler,
           StopDpaQueue, TestKill, KillTransaction, UnregisterService, ClearServices,
           CloseMessaging, DeleteDpaHandler, DeleteDpaQueue, DeleteScheduler, MainGoto
  <2> QED BY <1>1, <1>3, <2>1, MainKeepsSwitch DEF SwitchInShutdown
<1>4. CASE UNCHANGED allVars
  <2>1. HandlerStands => IInv'
    BY <1>4, InvStep DEF SwitchInShutdown, allVars
  <2> QED BY <1>1, <1>4, <2>1 DEF SwitchInShutdown, HandlerStands, allVars
<1>5. CASE ShutdownNext
  BY <1>1, <1>2, <1>3, <1>5, ShutdownSteps DEF SwitchInShutdown, HandlerStands
<1> QED BY <1>4, <1>5

LEMMA SwitchInShutdownInvariance == ShutdownSpec => []SwitchInShutdown
<1>1. ShutdownInit => SwitchInShutdown
  BY StopInit, InvInit DEF ShutdownInit, SwitchInShutdown
<1> QED BY <1>1, SwitchInShutdownStep, PTL DEF ShutdownSpec

\* stop() takes no notice of m_modeMtx, and yet disturbs no mode switch that is in progress
\* while it runs: until it deletes the DPA handler the mode, the exclusive channel and the
\* handler agree outside of a switch, and a worker with the mutex executes on the handler
\* of its mode, also the one whose transaction was killed.
THEOREM AgreeUntilDeletion ==
    ShutdownSpec => []SwitchesAgree /\ []LockedStaysSafe
<1>1. SwitchInShutdown => SwitchesAgree /\ LockedStaysSafe
  BY DaemonAssumption
     DEF SwitchInShutdown, IInv, TypeOK, MutexHeld, SwitchInv, WorkerInv, Agree,
         ModeHandlerAgree, LockedTransactionIsSafe, SwitchesAgree, LockedStaysSafe
<1> QED BY <1>1, SwitchInShutdownInvariance, PTL
=============================================================================

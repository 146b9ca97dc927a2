--------------------------- MODULE ServicesProofs ---------------------------
(***************************************************************************)
(* MqttMessaging.tla, for any messages, reconnect intervals and size of    *)
(* the out-queue: the flags tell of the connection while the messaging     *)
(* runs, a connecting thread is joined before it is replaced, and none is  *)
(* left by stop(); the out-queue does what TaskQueueAbs promises. The      *)
(* inductive invariant says what the library's thread may assume in each   *)
(* of its callbacks, and follows the connecting thread through stop().     *)
(*                                                                         *)
(* Then the example's thermometers, for any thermometers and periods, and  *)
(* the Scheduler's table of tasks, for any table, any clock and any day.   *)
(***************************************************************************)
EXTENDS MqttMessaging, Thermometers, ScheduleRecord, WellFoundedInduction, TLAPS

\* Nothing has happened before start().
NotStarted ==
    main = "start" => /\ callback = "none" /\ lib = "none" /\ ~connected /\ ~subscribed
                      /\ thread = "none"

\* While connlost is handled there is no connection, and no other callback.
NoConnectionInConnlost == InConnlost => lib # "connected"

\* A subscription that m_subscribed tells of was made on this connection.
Subscription ==
    main = "run" /\ subscribed /\ callback # "lost" =>
        lib = "connected" /\ subscription = "made" /\ callback # "subscribe"

\* Behind the join in stop() a thread is there only if connlost has run since.
Stopped ==
    /\ Stopping /\ InConnlost => overlapped
    /\ main \in {"disconnect", "await", "destroy", "delete", "stopped"} =>
         thread = "none" \/ overlapped

IInv ==
    /\ TypeOK /\ NotStarted /\ NoConnectionInConnlost /\ FlagTellsConnection
    /\ Subscription /\ JoinedBeforeReplaced /\ Stopped
-----------------------------------------------------------------------------
\* The constructor establishes the invariant.
LEMMA InvInit == Init => IInv
<1> SUFFICES ASSUME Init PROVE IInv
  OBVIOUS
<1> USE MqttAssumption DEF Init, OutQueue!AbsInit
<1>0. /\ stopAutoConnect \in BOOLEAN /\ connected \in BOOLEAN /\ subscribed \in BOOLEAN
      /\ running \in BOOLEAN /\ registered \in BOOLEAN /\ disconnected \in BOOLEAN
      /\ overlapped \in BOOLEAN
  OBVIOUS
<1>1. TypeOK
  BY <1>0 DEF TypeOK
<1>2. NotStarted /\ NoConnectionInConnlost /\ FlagTellsConnection /\ Subscription
  BY DEF NotStarted, NoConnectionInConnlost, InConnlost, FlagTellsConnection, Subscription
<1>3. JoinedBeforeReplaced /\ Stopped
  BY DEF JoinedBeforeReplaced, Stopped, Stopping
<1> QED BY <1>1, <1>2, <1>3 DEF IInv

\* Taking, finishing and accepting a message keeps the types of the out-queue.
LEMMA QueueTypes ==
    ASSUME TypeOK
    PROVE  /\ \A m \in Messages : OutQueue!Accept(m) => queue' \in Seq(Messages)
           /\ OutQueue!Take => queue' \in Seq(Messages) /\ current' \in Messages
BY SMTT(30) DEF TypeOK, OutQueue!Accept, OutQueue!Take

\* The steps of the connecting thread.
LEMMA ThreadStep == ASSUME IInv, ThreadNext PROVE IInv'
<1> USE MqttAssumption, QueueTypes
    DEF IInv, TypeOK, NotStarted, NoConnectionInConnlost, InConnlost, FlagTellsConnection,
        Subscription, JoinedBeforeReplaced, Stopped, Stopping, Joining, Track, flagVars,
        threadVars, queueVars, mainVars, libVars
<1>1. CASE ConnectAsked /\ Track
  BY <1>1 DEF ConnectAsked
<1>2. CASE ConnectRefused /\ Track
  BY <1>2 DEF ConnectRefused
<1>3. CASE WaitEnds /\ Track
  BY <1>3 DEF WaitEnds
<1>4. CASE WaitTimesOut /\ Track
  BY <1>4 DEF WaitTimesOut
<1> QED BY <1>1, <1>2, <1>3, <1>4 DEF ThreadNext

\* What the broker and the network do.
LEMMA BrokerStep == ASSUME IInv, BrokerNext PROVE IInv'
<1> USE MqttAssumption, QueueTypes
    DEF IInv, TypeOK, NotStarted, NoConnectionInConnlost, InConnlost, FlagTellsConnection,
        Subscription, JoinedBeforeReplaced, Stopped, Stopping, Joining, Track, flagVars,
        threadVars, queueVars, mainVars, libVars
<1>1. CASE OnConnectFailure /\ Track
  <2> USE <1>1 DEF OnConnectFailure
  <2>0. connected' \in BOOLEAN
    OBVIOUS
  <2>1. TypeOK'
    BY <2>0
  <2>2. NotStarted' /\ NoConnectionInConnlost' /\ FlagTellsConnection' /\ Subscription'
    OBVIOUS
  <2>3. JoinedBeforeReplaced' /\ Stopped'
    OBVIOUS
  <2> QED BY <2>1, <2>2, <2>3
<1>2. CASE MessageArrives /\ Track
  BY <1>2 DEF MessageArrives
<1>3. CASE LoseConnection /\ Track
  <2> USE <1>3 DEF LoseConnection
  <2>1. TypeOK'
    OBVIOUS
  <2>2. NotStarted' /\ NoConnectionInConnlost' /\ FlagTellsConnection' /\ Subscription'
    OBVIOUS
  <2>3. JoinedBeforeReplaced' /\ Stopped'
    OBVIOUS
  <2> QED BY <2>1, <2>2, <2>3
<1> QED BY <1>1, <1>2, <1>3 DEF BrokerNext

\* What the library answers.
LEMMA AnswerStep == ASSUME IInv, AnswerNext PROVE IInv'
<1> USE MqttAssumption, QueueTypes
    DEF IInv, TypeOK, NotStarted, NoConnectionInConnlost, InConnlost, FlagTellsConnection,
        Subscription, JoinedBeforeReplaced, Stopped, Stopping, Joining, Track, flagVars,
        threadVars, queueVars, mainVars, libVars
<1>1. CASE OnConnect /\ Track
  BY <1>1 DEF OnConnect
<1>2. CASE OnSubscribe /\ Track
  <2> USE <1>2 DEF OnSubscribe
  <2>0. subscribed' \in BOOLEAN
    OBVIOUS
  <2>1. TypeOK'
    BY <2>0
  <2>2. NotStarted' /\ NoConnectionInConnlost' /\ FlagTellsConnection' /\ Subscription'
    OBVIOUS
  <2>3. JoinedBeforeReplaced' /\ Stopped'
    OBVIOUS
  <2> QED BY <2>1, <2>2, <2>3
<1>3. CASE OnDisconnect /\ Track
  BY <1>3 DEF OnDisconnect
<1> QED BY <1>1, <1>2, <1>3 DEF AnswerNext

\* The rest of a callback.
LEMMA CallbackStep == ASSUME IInv, CallbackNext PROVE IInv'
<1> USE MqttAssumption, QueueTypes
    DEF IInv, TypeOK, NotStarted, NoConnectionInConnlost, InConnlost, FlagTellsConnection,
        Subscription, JoinedBeforeReplaced, Stopped, Stopping, Joining, Track, flagVars,
        threadVars, queueVars, mainVars, libVars
<1>1. CASE Subscribe /\ Track
  BY <1>1 DEF Subscribe
<1>2. CASE MessageHandled /\ Track
  BY <1>2 DEF MessageHandled, OutQueue!Accept
<1>3. CASE ResetFlags /\ Track
  <2> USE <1>3 DEF ResetFlags
  <2>0. stopAutoConnect' \in BOOLEAN /\ connected' \in BOOLEAN /\ subscribed' \in BOOLEAN
    OBVIOUS
  <2>1. TypeOK'
    BY <2>0
  <2>2. NotStarted' /\ NoConnectionInConnlost' /\ FlagTellsConnection' /\ Subscription'
    OBVIOUS
  <2>3. JoinedBeforeReplaced' /\ Stopped'
    OBVIOUS
  <2> QED BY <2>1, <2>2, <2>3
<1>4. CASE JoinOld /\ Track
  BY <1>4 DEF JoinOld
<1>5. CASE SpawnNew /\ Track
  BY <1>5 DEF SpawnNew, Spawn
<1> QED BY <1>1, <1>2, <1>3, <1>4, <1>5 DEF CallbackNext

\* A service sends or leaves; the worker of the out-queue.
LEMMA ServiceStep == ASSUME IInv, ServiceNext \/ SenderNext PROVE IInv'
<1> USE MqttAssumption, QueueTypes
    DEF IInv, TypeOK, NotStarted, NoConnectionInConnlost, InConnlost, FlagTellsConnection,
        Subscription, JoinedBeforeReplaced, Stopped, Stopping, Joining, Track, flagVars,
        threadVars, queueVars, mainVars, libVars
<1>1. CASE (\E m \in Messages : SendMessage(m)) /\ Track
  BY <1>1 DEF SendMessage, OutQueue!Accept
<1>2. CASE UnregisterMessageHandler /\ Track
  <2> USE <1>2 DEF UnregisterMessageHandler
  <2>0. registered' \in BOOLEAN
    OBVIOUS
  <2>1. TypeOK'
    BY <2>0
  <2> QED BY <2>1
<1>3. CASE SenderNext
  BY <1>3 DEF SenderNext, TakeMessage, TestConnected, SendTo, OutQueue!Take, OutQueue!Finish
<1> QED BY <1>1, <1>2, <1>3 DEF ServiceNext

\* start() and stop().
LEMMA MainStep == ASSUME IInv, StartNext \/ (StopAutoConnect /\ Track) \/ StopNext PROVE IInv'
<1> USE MqttAssumption, QueueTypes
    DEF IInv, TypeOK, NotStarted, NoConnectionInConnlost, InConnlost, FlagTellsConnection,
        Subscription, JoinedBeforeReplaced, Stopped, Stopping, Joining, Track, flagVars,
        threadVars, queueVars, mainVars, libVars
<1>1. CASE Start /\ Track
  BY <1>1 DEF Start, Spawn
<1>2. CASE StartThrows /\ Track
  BY <1>2 DEF StartThrows
<1>3. CASE StopAutoConnect /\ Track
  <2> USE <1>3 DEF StopAutoConnect
  <2>0. stopAutoConnect' \in BOOLEAN
    OBVIOUS
  <2>1. TypeOK'
    BY <2>0
  <2>2. NotStarted' /\ NoConnectionInConnlost' /\ FlagTellsConnection' /\ Subscription'
    OBVIOUS
  <2>3. JoinedBeforeReplaced' /\ Stopped'
    OBVIOUS
  <2> QED BY <2>1, <2>2, <2>3
<1>4. CASE FailConnection /\ Track
  <2> USE <1>4 DEF FailConnection
  <2>0. connected' \in BOOLEAN
    OBVIOUS
  <2>1. TypeOK'
    BY <2>0
  <2>2. NotStarted' /\ NoConnectionInConnlost' /\ FlagTellsConnection' /\ Subscription'
    OBVIOUS
  <2>3. JoinedBeforeReplaced' /\ Stopped'
    OBVIOUS
  <2> QED BY <2>1, <2>2, <2>3
<1>5. CASE JoinThread /\ Track
  BY <1>5 DEF JoinThread
<1>6. CASE JoinTwice /\ Track
  BY <1>6 DEF JoinTwice
<1>7. CASE Disconnect /\ Track
  <2> USE <1>7 DEF Disconnect
  <2>0. disconnected' \in BOOLEAN
    OBVIOUS
  <2>1. TypeOK'
    BY <2>0
  <2>2. NotStarted' /\ NoConnectionInConnlost' /\ FlagTellsConnection' /\ Subscription'
    OBVIOUS
  <2>3. JoinedBeforeReplaced' /\ Stopped'
    OBVIOUS
  <2> QED BY <2>1, <2>2, <2>3
<1>8. CASE AwaitDisconnect /\ Track
  BY <1>8 DEF AwaitDisconnect
<1>9. CASE Destroy /\ Track
  BY <1>9 DEF Destroy
<1>10. CASE StopOutQueue /\ Track
  <2> USE <1>10 DEF StopOutQueue, OutQueue!Stop
  <2>0. running' \in BOOLEAN
    OBVIOUS
  <2>1. TypeOK'
    BY <2>0
  <2>2. NotStarted' /\ NoConnectionInConnlost' /\ FlagTellsConnection' /\ Subscription'
    OBVIOUS
  <2>3. JoinedBeforeReplaced' /\ Stopped'
    OBVIOUS
  <2> QED BY <2>1, <2>2, <2>3
<1>11. CASE DeleteOutQueue /\ Track
  BY <1>11 DEF DeleteOutQueue
<1> QED BY <1>1, <1>2, <1>3, <1>4, <1>5, <1>6, <1>7, <1>8, <1>9, <1>10, <1>11 DEF StartNext, StopNext

\* A stuttering step changes nothing.
LEMMA Stutter == ASSUME IInv, UNCHANGED vars PROVE IInv'
BY DEF IInv, TypeOK, NotStarted, NoConnectionInConnlost, InConnlost, FlagTellsConnection,
   Subscription, JoinedBeforeReplaced, Stopped, Stopping, vars, flagVars, threadVars, queueVars,
   mainVars, libVars

LEMMA Inductive == IInv /\ [Next]_vars => IInv'
BY ThreadStep, BrokerStep, AnswerStep, CallbackStep, ServiceStep, MainStep, Stutter DEF Next

\* The invariant holds in every state of the messaging.
LEMMA Invariance == Spec => []IInv
BY InvInit, Inductive, PTL DEF Spec

-----------------------------------------------------------------------------
\* The variables hold values of their types; the reconnect interval is limited.
THEOREM TypeCorrect == Spec => []TypeOK
<1>1. IInv => TypeOK
  BY DEF IInv
<1> QED BY <1>1, Invariance, PTL

\* While the messaging runs m_connected tells of the connection.
THEOREM FlagIsConnection == Spec => []FlagTellsConnection
<1>1. IInv => FlagTellsConnection
  BY DEF IInv
<1> QED BY <1>1, Invariance, PTL

\* m_subscribed is not left from an earlier connection.
THEOREM FlagIsSubscription == Spec => []FlagTellsSubscription
<1>1. IInv => FlagTellsSubscription
  BY DEF IInv, NoConnectionInConnlost, InConnlost, Subscription, FlagTellsSubscription
<1> QED BY <1>1, Invariance, PTL

\* No thread is replaced that was not joined.
THEOREM JoinBeforeReplace == Spec => []JoinedBeforeReplaced
<1>1. IInv => JoinedBeforeReplaced
  BY DEF IInv
<1> QED BY <1>1, Invariance, PTL

\* stop() leaves no connecting thread but for a loss that was handled while it ran.
THEOREM StopLeavesNone == Spec => []StopLeavesNoThread
<1>1. IInv => StopLeavesNoThread
  BY DEF IInv, Stopped, StopLeavesNoThread
<1> QED BY <1>1, Invariance, PTL

\* Services push and the worker of the out-queue takes as TaskQueueAbs lets them, whatever
\* callbacks come between, and stop() ends it.
THEOREM OutQueueIsUsed == Spec => OutQueue!AbsSafety
<1>1. Init => OutQueue!AbsInit
  BY DEF Init
<1>2. ASSUME Next PROVE OutQueue!AbsNext \/ UNCHANGED <<queue, current, running>>
  <2>1. CASE \/ MessageHandled \/ (\E m \in Messages : SendMessage(m))
             \/ TakeMessage \/ TestConnected \/ SendTo \/ StopOutQueue
    BY <2>1 DEF MessageHandled, SendMessage, TakeMessage, TestConnected, SendTo, StopOutQueue,
                OutQueue!AbsNext, queueVars
  <2>2. CASE ~(\/ MessageHandled \/ (\E m \in Messages : SendMessage(m))
               \/ TakeMessage \/ TestConnected \/ SendTo \/ StopOutQueue)
    BY <1>2, <2>2
       DEF Next, ThreadNext, BrokerNext, AnswerNext, CallbackNext, ServiceNext, SenderNext,
           StartNext, StopNext, ConnectAsked, ConnectRefused, WaitEnds, WaitTimesOut, OnConnect,
           Subscribe, OnConnectFailure, OnSubscribe, MessageArrives, LoseConnection, ResetFlags,
           JoinOld, SpawnNew, OnDisconnect, UnregisterMessageHandler, Start, StartThrows,
           StopAutoConnect, FailConnection, JoinThread, JoinTwice, Disconnect, AwaitDisconnect,
           Destroy, DeleteOutQueue, queueVars
  <2> QED BY <2>1, <2>2
<1>3. [Next]_vars => [OutQueue!AbsNext]_(OutQueue!absVars)
  BY <1>2 DEF vars, queueVars, OutQueue!absVars
<1> QED BY <1>1, <1>3, PTL DEF Spec, OutQueue!AbsSafety

-----------------------------------------------------------------------------
(* The thermometers.                                                       *)

Records == [handle : 1..MaxRecords, seconds : 1..Max16]

LEMMA Max16Nat == Max16 \in Nat /\ 7 <= Max16
BY DEF Max16

\* What m_readPeriod keeps is a uint16_t, and itself if it was one.
LEMMA Kept == ASSUME NEW n \in Int PROVE Uint16(n) \in 0..Max16 /\ (n \in 0..Max16 => Uint16(n) = n)
BY Max16Nat DEF Uint16

\* scheduleTaskPeriodic adds a record of the period under a new handle.
LEMMA Planned ==
    ASSUME NEW planned \in SUBSET Records, period \in 0..Max16, handle \in 0..MaxRecords,
           PlanOn(planned)
    PROVE  /\ plan' \in SUBSET Records /\ handle' \in 0..MaxRecords
           /\ planned = {} => plan' = IF period >= 1 THEN {[handle |-> handle', seconds |-> period]} ELSE {}
<1>1. CASE period >= 1
  <2>1. PICK h \in Fresh(planned) :
          plan' = planned \union {[handle |-> h, seconds |-> period]} /\ handle' = h
    BY <1>1 DEF PlanOn
  <2>2. h \in 1..MaxRecords
    BY <2>1 DEF Fresh
  <2>3. [handle |-> h, seconds |-> period] \in Records
    BY <1>1, <2>2 DEF Records
  <2> QED BY ThermometersAssumption, <1>1, <2>1, <2>2, <2>3
<1>2. CASE ~(period >= 1)
  BY <1>2 DEF PlanOn
<1> QED BY <1>1, <1>2

-----------------------------------------------------------------------------
LEMMA ThermometersTypeInit == ThermometersInit => ThermometersTypeOK
<1> SUFFICES ASSUME ThermometersInit PROVE ThermometersTypeOK
  OBVIOUS
<1>1. period \in 0..Max16 /\ wanted \in Periods
  BY ThermometersAssumption, Kept DEF ThermometersInit
<1>2. plan \subseteq Records
  BY ThermometersAssumption, Max16Nat DEF ThermometersInit, Records
<1> QED BY ThermometersAssumption, <1>1, <1>2 DEF ThermometersInit, ThermometersTypeOK, Records

LEMMA ThermometersTypeStep == ThermometersTypeOK /\ [ThermometersNext]_thermometersVars => ThermometersTypeOK'
<1> SUFFICES ASSUME ThermometersTypeOK, [ThermometersNext]_thermometersVars PROVE ThermometersTypeOK'
  OBVIOUS
<1>r. plan \in SUBSET Records
  BY DEF ThermometersTypeOK, Records
<1>1. CASE StartService
  <2>1. {} \in SUBSET Records
    OBVIOUS
  <2>2. period \in 0..Max16 /\ handle \in 0..MaxRecords /\ PlanOn({})
    BY <1>1 DEF StartService, ThermometersTypeOK
  <2>3. plan' \in SUBSET Records /\ handle' \in 0..MaxRecords
    BY <2>1, <2>2, Planned
  <2> QED BY <1>1, <2>3 DEF StartService, ThermometersTypeOK, Records, reading
<1>2. ASSUME NEW asked \in Periods, Message(asked) PROVE ThermometersTypeOK'
  BY <1>2 DEF Message, ThermometersTypeOK, settings, scheduled, reading
<1>3. CASE ImproperMessage
  BY <1>3 DEF ImproperMessage, ThermometersTypeOK, settings, scheduled, reading
<1>4. CASE NoObject
  BY <1>4 DEF NoObject, ThermometersTypeOK, scheduled, reading
<1>5. CASE AssignPeriod
  <2>1. wanted \in Int
    BY ThermometersAssumption DEF ThermometersTypeOK
  <2>2. period' \in 0..Max16
    BY <1>5, <2>1, Kept DEF AssignPeriod
  <2> QED BY <1>5, <2>2 DEF AssignPeriod, ThermometersTypeOK, scheduled, reading
<1>6. CASE LockSchedule
  BY <1>6 DEF LockSchedule, ThermometersTypeOK, settings, scheduled, reading
<1>7. CASE RemoveReading
  BY <1>7 DEF RemoveReading, ThermometersTypeOK, settings, reading
<1>8. CASE PlanReading
  <2>1. plan' \in SUBSET Records /\ handle' \in 0..MaxRecords
    BY <1>8, <1>r, Planned DEF PlanReading, ThermometersTypeOK
  <2> QED BY <1>8, <2>1 DEF PlanReading, ThermometersTypeOK, settings, reading, Records
<1>9. CASE Fire
  BY ThermometersAssumption, <1>9 DEF Fire, ThermometersTypeOK, settings, reading
<1>10. CASE TakeTask
  BY ThermometersAssumption, <1>10 DEF TakeTask, ThermometersTypeOK, settings
<1>11. CASE LockRead
  BY ThermometersAssumption, <1>11 DEF LockRead, ThermometersTypeOK, settings, scheduled
<1>12. ASSUME NEW ok \in BOOLEAN, ReadNode(ok) PROVE ThermometersTypeOK'
  <2>1. node' \in 0..Len(Nodes) /\ Nodes[node + 1] \in {Nodes[i] : i \in 1..Len(Nodes)}
    BY ThermometersAssumption, <1>12 DEF ReadNode, ThermometersTypeOK
  <2>2. /\ valid' \subseteq {Nodes[i] : i \in 1..Len(Nodes)}
        /\ outcome' \subseteq {Nodes[i] : i \in 1..Len(Nodes)}
    BY <1>12, <2>1 DEF ReadNode, ThermometersTypeOK
  <2> QED BY <1>12, <2>1, <2>2 DEF ReadNode, ThermometersTypeOK, settings, scheduled
<1>13. CASE Publish
  BY <1>13 DEF Publish, ThermometersTypeOK, settings, scheduled
<1>14. CASE UNCHANGED thermometersVars
  BY <1>14 DEF thermometersVars, ThermometersTypeOK, settings, scheduled, reading
<1> QED BY <1>1, <1>2, <1>3, <1>4, <1>5, <1>6, <1>7, <1>8, <1>9, <1>10, <1>11, <1>12, <1>13, <1>14
        DEF ThermometersNext, MessageStep, ReaderStep

\* The variables hold values of their types, see ThermometersTypeOK.
THEOREM ThermometersTypeCorrect == ThermometersSpec => []ThermometersTypeOK
BY ThermometersTypeInit, ThermometersTypeStep, PTL DEF ThermometersSpec

-----------------------------------------------------------------------------
\* Whatever record is planned has the handle the service knows, and none is left
\* between its removal and its replacement; the period is the one last asked for.
OneRecord ==
    /\ service # "aborted" /\ messages # "assign" => period = Uint16(wanted)
    /\ service = "configured" => messages = "idle"
    /\ service = "started" =>
          /\ \A r \in plan : r.handle = handle
          /\ messages = "idle" =>
                plan = IF period >= 1 THEN {[handle |-> handle, seconds |-> period]} ELSE {}
          /\ messages = "plan" => plan = {}

LEMMA OneRecordStep == ThermometersTypeOK /\ OneRecord /\ [ThermometersNext]_thermometersVars => OneRecord'
<1> SUFFICES ASSUME ThermometersTypeOK, OneRecord, [ThermometersNext]_thermometersVars PROVE OneRecord'
  OBVIOUS
<1>1. CASE StartService
  <2>1. {} \in SUBSET Records
    OBVIOUS
  <2>2. period \in 0..Max16 /\ handle \in 0..MaxRecords /\ PlanOn({})
    BY <1>1 DEF StartService, ThermometersTypeOK
  <2>3. plan' = IF period >= 1 THEN {[handle |-> handle', seconds |-> period]} ELSE {}
    BY <2>1, <2>2, Planned
  <2> QED BY <1>1, <2>3 DEF StartService, OneRecord
<1>2. ASSUME NEW asked \in Periods, Message(asked) PROVE OneRecord'
  BY <1>2 DEF Message, OneRecord, settings, scheduled
<1>3. CASE ImproperMessage
  BY <1>3 DEF ImproperMessage, OneRecord, settings, scheduled
<1>4. CASE NoObject
  BY <1>4 DEF NoObject, OneRecord
<1>5. CASE AssignPeriod
  BY <1>5 DEF AssignPeriod, OneRecord, scheduled
<1>6. CASE LockSchedule
  BY <1>6 DEF LockSchedule, OneRecord, settings, scheduled
<1>7. CASE RemoveReading
  <2>1. plan' = {}
    BY <1>7 DEF RemoveReading, OneRecord
  <2> QED BY <1>7, <2>1 DEF RemoveReading, OneRecord, settings
<1>8. CASE PlanReading
  <2>1. plan = {}
    BY <1>8 DEF PlanReading, OneRecord
  <2>2. plan \in SUBSET Records /\ period \in 0..Max16 /\ handle \in 0..MaxRecords /\ PlanOn(plan)
    BY <1>8 DEF PlanReading, ThermometersTypeOK, Records
  <2>3. plan' = IF period >= 1 THEN {[handle |-> handle', seconds |-> period]} ELSE {}
    BY <2>1, <2>2, Planned
  <2> QED BY <1>8, <2>1, <2>3 DEF PlanReading, OneRecord, settings
<1>9. CASE Fire \/ TakeTask
  BY <1>9 DEF Fire, TakeTask, OneRecord, settings
<1>10. CASE LockRead \/ Publish
  BY <1>10 DEF LockRead, Publish, OneRecord, settings, scheduled
<1>11. ASSUME NEW ok \in BOOLEAN, ReadNode(ok) PROVE OneRecord'
  BY <1>11 DEF ReadNode, OneRecord, settings, scheduled
<1>12. CASE UNCHANGED thermometersVars
  BY <1>12 DEF thermometersVars, OneRecord, settings, scheduled
<1> QED BY <1>1, <1>2, <1>3, <1>4, <1>5, <1>6, <1>7, <1>8, <1>9, <1>10, <1>11, <1>12
        DEF ThermometersNext, MessageStep, ReaderStep

\* One record reads the thermometers, with the period last asked for: of any number of
\* messages, whatever the Scheduler fires and the worker reads meanwhile.
THEOREM ReadAsAsked == ThermometersSpec => []ReadsAsAsked
<1>1. ThermometersInit => OneRecord
  BY DEF ThermometersInit, OneRecord
<1>2. ThermometersTypeOK /\ OneRecord => ReadsAsAsked
  BY Kept DEF ThermometersTypeOK, OneRecord, ReadsAsAsked
<1> QED BY <1>1, <1>2, ThermometersTypeCorrect, OneRecordStep, PTL DEF ThermometersSpec

-----------------------------------------------------------------------------
\* The values are those of the last readings, and outside of a round they are published.
RoundPublished ==
    /\ valid = outcome
    /\ reader \in {"idle", "lock"} => published = outcome

LEMMA RoundStep == RoundPublished /\ [ThermometersNext]_thermometersVars => RoundPublished'
<1> SUFFICES ASSUME RoundPublished, [ThermometersNext]_thermometersVars PROVE RoundPublished'
  OBVIOUS
<1>1. ASSUME NEW asked \in Periods, Message(asked) PROVE RoundPublished'
  BY <1>1 DEF Message, RoundPublished, reading
<1>2. CASE StartService \/ ImproperMessage \/ NoObject \/ MessageStep \/ Fire
  BY <1>2 DEF StartService, ImproperMessage, NoObject, MessageStep, AssignPeriod, LockSchedule,
              RemoveReading, PlanReading, Fire, RoundPublished, reading
<1>3. CASE TakeTask \/ LockRead \/ Publish
  BY <1>3 DEF TakeTask, LockRead, Publish, RoundPublished
<1>4. ASSUME NEW ok \in BOOLEAN, ReadNode(ok) PROVE RoundPublished'
  BY <1>4 DEF ReadNode, RoundPublished
<1>5. CASE UNCHANGED thermometersVars
  BY <1>5 DEF thermometersVars, RoundPublished, reading
<1> QED BY <1>1, <1>2, <1>3, <1>4, <1>5 DEF ThermometersNext, ReaderStep

\* No thermometer that failed to answer is published with an earlier value.
THEOREM PublishedLastRound == ThermometersSpec => []PublishesLastRound
<1>1. ThermometersInit => RoundPublished
  BY DEF ThermometersInit, RoundPublished
<1>2. RoundPublished => PublishesLastRound
  BY DEF RoundPublished, PublishesLastRound
<1> QED BY <1>1, <1>2, RoundStep, PTL DEF ThermometersSpec

-----------------------------------------------------------------------------
(* The table of tasks. *)

\* Division by what divides, and by what may leave a remainder.
LEMMA DivMod == ASSUME NEW a \in Nat, NEW d \in Nat \ {0}
  PROVE a = d * (a \div d) + (a % d) /\ a % d \in 0..d - 1 /\ a \div d \in Nat
OBVIOUS

\* A quotient and a remainder that fit are the quotient and the remainder.
LEMMA DivModUnique == ASSUME NEW q \in Int, NEW r \in Int, NEW d \in Nat \ {0}, 0 <= r, r < d
  PROVE (d * q + r) \div d = q /\ (d * q + r) % d = r
OBVIOUS

\* Multiples are what is divisible.
LEMMA Multiple == ASSUME NEW v \in Int, NEW q \in Int, NEW d \in Nat \ {0}, v = d * q PROVE v % d = 0
<1>1. (d * q + 0) % d = 0
  BY DivModUnique
<1>2. d * q + 0 = v
  OBVIOUS
<1> QED BY <1>1, <1>2

LEMMA Quotient == ASSUME NEW v \in Nat, NEW d \in Nat \ {0}, v % d = 0 PROVE v = d * (v \div d) /\ v \div d \in Nat
<1>1. v = d * (v \div d) + (v % d) /\ v \div d \in Nat
  BY DivMod
<1> DEFINE q == v \div d
<1>2. v = d * q + 0 /\ q \in Nat
  BY <1>1
<1> HIDE DEF q
<1>3. v = d * q
  BY <1>2
<1> QED BY <1>2, <1>3 DEF q

\* Two multiples of a number differ at least by it.
LEMMA Ordered == ASSUME NEW p \in Int, NEW q \in Int, NEW d \in Nat \ {0}, p < q PROVE d * p + d <= d * q
<1>1. p + 1 <= q
  OBVIOUS
<1>2. d * (p + 1) <= d * q
  BY <1>1
<1> QED BY <1>2

LEMMA Unordered == ASSUME NEW p \in Int, NEW q \in Int, NEW d \in Nat \ {0}, d * p < d * q PROVE d * p + d <= d * q
<1>1. CASE p < q
  BY <1>1, Ordered
<1>2. CASE q <= p
  <2>1. d * q <= d * p
    BY <1>2
  <2> QED BY <2>1
<1> QED BY <1>1, <1>2

LEMMA Sparse == ASSUME NEW v \in Nat, NEW w \in Nat, NEW d \in Nat \ {0}, v % d = 0, w % d = 0, v < w PROVE v + d <= w
<1> DEFINE p == v \div d
           q == w \div d
<1>1. v = d * p /\ w = d * q /\ p \in Nat /\ q \in Nat
  BY DivMod
<1> HIDE DEF p, q
<1> QED BY <1>1, Unordered

\* parseItem's loop for "*/n" begins with the first multiple that is not below the range.
LEMMA FirstMultipleIs ==
   ASSUME NEW mnm \in Nat, NEW d \in Nat \ {0}
   PROVE  FirstMultiple(mnm, d) \in mnm..(mnm + d - 1) /\ FirstMultiple(mnm, d) % d = 0
<1> DEFINE q == mnm \div d
           r == mnm % d
<1>1. mnm = d * q + r /\ r \in 0..d - 1 /\ q \in Nat
  BY DivMod
<1>2. FirstMultiple(mnm, d) = IF r = 0 THEN mnm ELSE mnm - r + d
  BY DEF FirstMultiple
<1>r. r = mnm % d
  OBVIOUS
<1> HIDE DEF q, r
<1>3. CASE r = 0
  BY <1>1, <1>2, <1>3, <1>r
<1>4. CASE r # 0
  <2>1. mnm - r + d = d * (q + 1) /\ q + 1 \in Int /\ mnm - r + d \in Int
    BY <1>1
  <2>2. (mnm - r + d) % d = 0
    BY <2>1, Multiple
  <2> QED BY <1>1, <1>2, <1>4, <2>1, <2>2
<1> QED BY <1>3, <1>4

\* What the loop yields: the multiples that lie in the range, none if the first is above it.
LEMMA MultiplesAre ==
    ASSUME NEW mnm \in Nat, NEW mxm \in Nat, NEW d \in Nat \ {0}
    PROVE  Multiples(mnm, mxm, d) = {v \in mnm..mxm : v % d = 0}
<1> DEFINE first == FirstMultiple(mnm, d)
           size == IF first > mxm THEN 0 ELSE (mxm - first) \div d + 1
           M == {first + (i - 1) * d : i \in 1..size}
<1>1. first \in mnm..(mnm + d - 1) /\ first % d = 0
  BY FirstMultipleIs
<1>2. Multiples(mnm, mxm, d) = M
  BY DEF Multiples
<1>s. size = IF first > mxm THEN 0 ELSE (mxm - first) \div d + 1
  OBVIOUS
<1> HIDE DEF first, size
<1>3. first \in Nat
  BY <1>1
<1>4. size \in Nat
  <2>1. CASE first > mxm
    BY <1>s, <2>1
  <2>2. CASE ~(first > mxm)
    <3>1. mxm - first \in Nat
      BY <2>2, <1>3
    <3>2. (mxm - first) \div d \in Nat
      BY <3>1, DivMod
    <3> QED BY <3>2, <1>s, <2>2
  <2> QED BY <2>1, <2>2
<1>5. ASSUME NEW i \in 1..size PROVE first + (i - 1) * d \in {v \in mnm..mxm : v % d = 0}
  <2>1. first <= mxm /\ i - 1 <= (mxm - first) \div d /\ i - 1 \in Nat
    <3>1. CASE first > mxm
      BY <1>s, <3>1
    <3>2. CASE ~(first > mxm)
      <4> DEFINE n == (mxm - first) \div d
      <4>1. size = n + 1 /\ size \in Nat
        BY <1>s, <3>2, <1>4
      <4>2. mxm - first \in Nat
        BY <3>2, <1>3
      <4>3. n \in Nat
        BY <4>2, DivMod
      <4> HIDE DEF n
      <4>4. i - 1 <= n /\ i - 1 \in Nat
        BY <4>1, <4>3
      <4> QED BY <4>4, <3>2, <1>3 DEF n
    <3> QED BY <3>1, <3>2
  <2> DEFINE q == (mxm - first) \div d
             p == first \div d
  <2>2. mxm - first \in Nat
    BY <2>1, <1>3
  <2> DEFINE x == mxm - first
  <2>x. x \in Nat /\ q = x \div d
    BY <2>2
  <2> HIDE DEF x
  <2>y. x = d * q + (x % d) /\ x % d \in 0..d - 1 /\ q \in Nat
    BY <2>x, DivMod
  <2>3. d * q <= mxm - first /\ q \in Nat
    <3> HIDE DEF q
    <3>1. d * q <= x
      BY <2>y, <2>x
    <3> QED BY <3>1, <2>y DEF x
  <2>4. first = d * p /\ p \in Nat
    BY <1>1, <1>3, Quotient
  <2>5. i - 1 <= q
    BY <2>1
  <2> HIDE DEF q, p
  <2>6. d * (i - 1) <= d * q /\ d * (i - 1) \in Nat
    BY <2>1, <2>3, <2>5
  <2>7. first + (i - 1) * d = d * (p + (i - 1)) /\ p + (i - 1) \in Int /\ first + (i - 1) * d \in Int
    BY <2>1, <2>4, <1>3
  <2>8. (first + (i - 1) * d) % d = 0
    <3> HIDE DEF first
    <3> QED BY <2>7, Multiple
  <2>9. first + (i - 1) * d \in mnm..mxm
    BY <1>1, <1>3, <2>2, <2>3, <2>6, <2>1
  <2> QED BY <2>8, <2>9
<1>6. ASSUME NEW v \in mnm..mxm, v % d = 0 PROVE v \in M
  <2>1. v >= first
    <3>1. SUFFICES ASSUME v < first PROVE FALSE
      BY <1>3
    <3>2. v + d <= first
      <4>1. v \in Nat
        OBVIOUS
      <4> QED BY <4>1, <1>1, <1>3, <1>6, <3>1, Sparse
    <3> QED BY <3>2, <1>1
  <2> DEFINE q == (v - first) \div d
             n == (mxm - first) \div d
             a == v \div d
             b == first \div d
  <2>2. v - first \in Nat /\ mxm - first \in Nat
    BY <2>1, <1>3
  <2>3. v = d * a /\ first = d * b /\ a \in Nat /\ b \in Nat
    <3>1. v \in Nat
      OBVIOUS
    <3> QED BY <3>1, <1>1, <1>3, <1>6, Quotient
  <2>4. v - first = d * q + ((v - first) % d) /\ q \in Nat
    BY <2>2, DivMod
  <2>5. v - first = d * (a - b) /\ a - b \in Int
    <3> HIDE DEF a, b
    <3> QED BY <2>3
  <2>6. (v - first) % d = 0
    <3> HIDE DEF a, b
    <3> QED BY <2>5, <2>2, Multiple
  <2>7. mxm - first = d * n + ((mxm - first) % d) /\ n \in Nat /\ (mxm - first) % d \in 0..d - 1
    BY <2>2, DivMod
  <2>8. size = n + 1
    BY <1>s, <2>1, <1>3
  <2>9. v - first = d * q
    BY <2>4, <2>6
  <2>10. mxm - first < d * n + d
    BY <2>7
  <2> HIDE DEF q, n
  <2>11. d * q < d * n + d /\ d * q \in Nat /\ d * n \in Nat
    <3>1. d * q \in Nat /\ d * n \in Nat
      BY <2>4, <2>7
    <3>2. v - first <= mxm - first
      BY <1>3
    <3> QED BY <3>1, <3>2, <2>9, <2>10, <1>3
  <2>12. q <= n
    <3>1. CASE n < q
      BY <3>1, <2>11, <2>4, <2>7, Ordered
    <3> QED BY <3>1, <2>4, <2>7
  <2>13. v = first + ((q + 1) - 1) * d
    BY <2>9, <2>4, <1>3
  <2>14. q + 1 \in 1..size
    BY <2>12, <2>8, <2>4, <2>7
  <2> QED BY <2>13, <2>14
<1> QED BY <1>2, <1>5, <1>6

\* What parseItem's callers pass as the ranges of the fields.
LEMMA FieldRanges ==
    \A f \in 1..7 : /\ Mnm[f] \in Nat /\ Mxm[f] \in Nat /\ Offset[f] \in {-1, 0}
                    /\ 0 <= Mnm[f] + Offset[f]
BY DEF Mnm, Mxm, Offset

LEMMA FieldsOfSeconds == Mnm[1] = 0 /\ Mxm[1] = 59 /\ Offset[1] = 0 /\ Mnm[2] = 0 /\ Mxm[2] = 59 /\ Offset[2] = 0
BY DEF Mnm, Mxm, Offset

\* parseItem accepts exactly the proper items, and its vector is what such an item stands for,
\* shifted as a std::tm counts; "*" is a vector that no number is compared with.
LEMMA ItemParsed ==
    ASSUME NEW item, IsItem(item), NEW f \in 1..7
    PROVE  LET p == ParseItem(item, Mnm[f], Mxm[f], Offset[f])
           IN  /\ p.ok <=> Proper(item, f)
               /\ p.ok => p.vec = IF item.kind = "every" THEN {-1}
                                  ELSE {v + Offset[f] : v \in StandsFor(item, f)}
<1> DEFINE lo == Mnm[f]
           hi == Mxm[f]
           off == Offset[f]
<1>1. lo \in Nat /\ hi \in Nat
  BY FieldRanges
<1>2. CASE item.kind = "every"
  BY <1>2 DEF ParseItem, Good, Proper
<1>3. CASE item.kind = "step"
  <2>1. item.divid \in Int
    BY <1>3 DEF IsItem
  <2>2. CASE item.divid > 0
    <3>1. Multiples(lo, hi, item.divid) = {v \in lo..hi : v % item.divid = 0}
      BY <1>1, <2>1, <2>2, MultiplesAre
    <3>2. StandsFor(item, f) = Multiples(lo, hi, item.divid)
      BY <1>3, <3>1 DEF StandsFor
    <3> QED BY <1>3, <2>2, <3>2 DEF ParseItem, Good, Proper
  <2>3. CASE ~(item.divid > 0)
    BY <1>3, <2>3 DEF ParseItem, Bad, Proper
  <2> QED BY <2>2, <2>3
<1>4. CASE item.kind = "list"
  <2>1. StandsFor(item, f) = Numbers(item.values)
    BY <1>4 DEF StandsFor
  <2> QED BY <1>4, <2>1 DEF ParseItem, Good, Bad, Proper
<1> QED BY <1>2, <1>3, <1>4 DEF IsItem

\* A list has a number.
LEMMA ListedNumbers ==
    ASSUME NEW values \in Seq(Int), values # <<>>
    PROVE  Numbers(values) \in SUBSET Int /\ Numbers(values) # {}
<1>1. Len(values) \in Nat /\ Len(values) # 0
  OBVIOUS
<1>2. values[1] \in Numbers(values)
  BY <1>1 DEF Numbers
<1> QED BY <1>2 DEF Numbers

\* What a proper item stands for lies in its field's range.
LEMMA InRange ==
    ASSUME NEW item, IsItem(item), NEW f \in 1..7, Proper(item, f)
    PROVE  StandsFor(item, f) \subseteq Mnm[f]..Mxm[f]
BY DEF IsItem, Proper, StandsFor

\* A pattern has a second.
LEMMA SomeSecond ==
    ASSUME NEW item, IsItem(item), Proper(item, 1)
    PROVE  StandsFor(item, 1) \in SUBSET (0..59) /\ StandsFor(item, 1) # {}
<1>0. StandsFor(item, 1) \in SUBSET (0..59)
  BY InRange, FieldsOfSeconds
<1>1. CASE item.kind = "every"
  <2>1. 0 \in StandsFor(item, 1)
    BY <1>1, FieldsOfSeconds DEF StandsFor
  <2> QED BY <1>0, <2>1
<1>2. CASE item.kind = "step"
  <2>1. item.divid \in Nat \ {0}
    BY <1>2 DEF IsItem, Proper
  <2>2. 0 % item.divid = 0
    BY <2>1, Multiple
  <2>3. 0 \in StandsFor(item, 1)
    BY <1>2, <2>2, FieldsOfSeconds DEF StandsFor
  <2> QED BY <1>0, <2>3
<1>3. CASE item.kind = "list"
  <2>1. item.values \in Seq(Int) /\ item.values # <<>>
    BY <1>3 DEF IsItem
  <2>2. Numbers(item.values) # {}
    BY <2>1, ListedNumbers
  <2>3. StandsFor(item, 1) = Numbers(item.values)
    BY <1>3 DEF StandsFor
  <2> QED BY <1>0, <2>2, <2>3
<1> QED BY <1>1, <1>2, <1>3 DEF IsItem

\* A set of natural numbers has a least one.
LEMMA SomeLeast ==
    ASSUME NEW set \in SUBSET Nat, set # {}
    PROVE  \E a \in set : \A b \in set : a <= b
<1>0. IsWellFoundedOn(OpToRel(<, Nat), Nat)
  BY NatLessThanWellFounded
<1>1. set \subseteq Nat /\ set # {}
  OBVIOUS
<1>2. \E a \in set : \A b \in set : ~(<<b, a>> \in OpToRel(<, Nat))
  <2> DEFINE R == OpToRel(<, Nat)
  <2>1. IsWellFoundedOn(R, Nat) BY <1>0
  <2> HIDE DEF R
  <2>2. \E a \in set : \A b \in set : ~(<<b, a>> \in R) BY <2>1, <1>1, WFMin, Zenon
  <2> QED BY <2>2 DEF R
<1>3. \A a, b \in set : ~(<<b, a>> \in OpToRel(<, Nat)) => a <= b
  BY DEF OpToRel
<1> QED BY <1>2, <1>3, Zenon

\* The first element of a sorted vector.
LEMMA LeastIs ==
    ASSUME NEW set \in SUBSET Nat, set # {}
    PROVE  Least(set) \in set /\ \A b \in set : Least(set) <= b
BY SomeLeast, Zenon DEF Least

\* getNext takes the pattern's next second, or its first one of the next minute; for "*"
\* it takes one of the pattern's seconds.
LEMMA NextSecIs ==
    ASSUME NEW item, IsItem(item), Proper(item, 1), NEW asec \in 0..59,
           NEW vec, vec = IF item.kind = "every" THEN {-1} ELSE StandsFor(item, 1)
    PROVE  LET S == StandsFor(item, 1)
               n == NextSec(vec, asec)
           IN  /\ n \in S
               /\ item.kind # "every" =>
                    IF n > asec THEN \A v \in S : v <= asec \/ v >= n
                    ELSE \A v \in S : v <= asec /\ v >= n
<1> DEFINE S == StandsFor(item, 1)
           n == NextSec(vec, asec)
           L == Later(vec, asec)
<1>1. S \in SUBSET (0..59) /\ S # {}
  BY SomeSecond
<1>2. CASE item.kind = "every"
  <2>1. n = 0
    BY <1>2 DEF NextSec
  <2>2. S = 0..59
    BY <1>2, FieldsOfSeconds DEF StandsFor
  <2> QED BY <1>2, <2>1, <2>2
<1>3. CASE item.kind # "every"
  <2>1. vec = S /\ vec \in SUBSET Nat /\ ~\E v \in vec : v < 0
    BY <1>1, <1>3
  <2>2. n = Least(IF L = {} THEN vec ELSE L)
    BY <2>1 DEF NextSec
  <2>3. L = {v \in S : v > asec}
    BY <2>1 DEF Later
  <2>4. CASE L = {}
    <3>1. n \in S /\ \A b \in S : n <= b
      BY <1>1, <2>1, <2>2, <2>4, LeastIs
    <3>2. \A v \in S : v <= asec
      BY <1>1, <2>3, <2>4
    <3> QED BY <1>1, <3>1, <3>2
  <2>5. CASE L # {}
    <3>1. L \in SUBSET Nat
      BY <1>1, <2>3
    <3>2. n \in L /\ \A b \in L : n <= b
      BY <3>1, <2>2, <2>5, LeastIs
    <3>3. n \in S /\ n > asec /\ \A v \in S : v <= asec \/ v >= n
      <4> HIDE DEF n, L, S
      <4> QED BY <1>1, <2>3, <3>2
    <3> QED BY <3>3
  <2> QED BY <2>4, <2>5
<1> QED BY <1>2, <1>3

\* The texts of a table and the items of their patterns are what the assumption says.
LEMMA Patterned ==
    ASSUME RecordTypeOK, NEW i \in DOMAIN table
    PROVE  /\ IsText(table[i])
           /\ table[i].nickname # "reboot" => \A f \in 1..7 : IsItem(Items(table[i])[f])
<1>1. IsText(table[i])
  BY ScheduleRecordAssumption DEF RecordTypeOK
<1>2. ASSUME NEW name \in DOMAIN Nicknames, NEW f \in 1..7 PROVE IsItem(Nicknames[name][f])
  <2>1. \/ Nicknames[name][f].kind = "every"
        \/ Nicknames[name][f].kind = "list" /\ Nicknames[name][f].values \in {<<0>>, <<1>>}
    BY DEF Nicknames, One, List, Every
  <2>2. <<0>> \in Seq(Int) /\ <<0>> # <<>> /\ <<1>> \in Seq(Int) /\ <<1>> # <<>>
    OBVIOUS
  <2> QED BY <2>1, <2>2 DEF IsItem
<1> QED BY <1>1, <1>2 DEF IsText, Items

\* Which nicknames are patterns whose items are all of their range: the first day of a
\* month is day 0 of NICKNAMES.
LEMMA NamedProper ==
    ASSUME NEW name \in DOMAIN Nicknames
    PROVE  (\A f \in 1..7 : Proper(Nicknames[name][f], f)) <=> name \notin {"yearly", "annually", "monthly"}
<1> DEFINE P(f) == Proper(Nicknames[name][f], f)
<1>0. Numbers(<<0>>) = {0} /\ Numbers(<<1>>) = {1}
  BY DEF Numbers
<1>1. \A f \in 1..7 : Proper(Every, f)
  BY DEF Proper, Every
<1>2. \A f \in {1, 2, 3, 7} : Proper(One(0), f)
  BY <1>0 DEF Proper, One, List, StandsFor, Mnm, Mxm
<1>3. ~Proper(One(0), 4)
  BY <1>0 DEF Proper, One, List, StandsFor, Mnm, Mxm
<1>5. \A f \in 1..7 : f = 1 \/ f = 2 \/ f = 3 \/ f = 4 \/ f = 5 \/ f = 6 \/ f = 7
  OBVIOUS
<1>6. CASE name \in {"yearly", "annually", "monthly"}
  <2>1. Nicknames[name][4] = One(0)
    BY <1>6 DEF Nicknames
  <2> QED BY <1>3, <1>6, <2>1
<1>7. CASE name \in {"weekly", "daily", "hourly", "minutely"}
  <2>1. \A f \in 1..7 : Nicknames[name][f] = Every \/ (f \in {1, 2, 3, 7} /\ Nicknames[name][f] = One(0))
    BY <1>5, <1>7 DEF Nicknames
  <2> QED BY <1>1, <1>2, <1>7, <2>1
<1> QED BY <1>6, <1>7 DEF Nicknames

\* A text becomes a record exactly if it is documented and not of the day 0.
LEMMA ConstructedProper ==
    ASSUME RecordTypeOK, NEW i \in DOMAIN table
    PROVE  Constructed(table[i]) <=> Documented(table[i]) /\ ~OfDayZero(table[i])
<1> DEFINE t == table[i]
<1>1. IsText(t) /\ (t.nickname # "reboot" => \A f \in 1..7 : IsItem(Items(t)[f]))
  BY Patterned
<1>2. t.nickname # "reboot" => \A f \in 1..7 : Parsed(t, f).ok <=> Proper(Items(t)[f], f)
  BY <1>1, ItemParsed DEF Parsed
<1>3. form \in {"Tasks", "TasksJson"} /\ t.service \in BOOLEAN
  BY <1>1 DEF RecordTypeOK, IsText
<1> HIDE DEF t
<1>4. CASE t.nickname = "none"
  BY <1>2, <1>3, <1>4 DEF Constructed, Documented, OfDayZero, Items, t
<1>5. CASE t.nickname = "reboot"
  BY <1>3, <1>5 DEF Constructed, Documented, OfDayZero, t
<1>6. CASE t.nickname \in DOMAIN Nicknames
  <2>1. t.nickname # "none" /\ t.nickname # "reboot"
    BY <1>6 DEF Nicknames
  <2>2. (\A f \in 1..7 : Parsed(t, f).ok) <=> t.nickname \notin {"yearly", "annually", "monthly"}
    BY <1>2, <1>6, <2>1, NamedProper DEF Items
  <2> QED BY <1>3, <2>1, <2>2 DEF Constructed, Documented, OfDayZero, t
<1> QED BY <1>1, <1>4, <1>5, <1>6 DEF IsText

\* A record that is kept has proper items and their vectors.
LEMMA KeptIsProper ==
    ASSUME RecordTypeOK, NEW i \in DOMAIN table, Constructed(table[i]), table[i].nickname # "reboot", NEW f \in 1..7
    PROVE  LET item == Items(table[i])[f]
           IN  /\ IsItem(item) /\ Proper(item, f)
               /\ Vec(i, f) = IF item.kind = "every" THEN {-1} ELSE {v + Offset[f] : v \in StandsFor(item, f)}
<1>1. IsItem(Items(table[i])[f])
  BY Patterned
<1>2. Parsed(table[i], f).ok
  BY DEF Constructed
<1> QED BY <1>1, <1>2, ItemParsed DEF Parsed, Vec

-----------------------------------------------------------------------------
\* A time is moved by whole seconds: its fraction stays.
LEMMA Seconds == \A time \in Nat, d \in Nat :
    /\ Second(time) \in Nat /\ TmSec(time) \in 0..59
    /\ Second(time + d * Ticks) = Second(time) + d
    /\ Second(d * Ticks) = d
<1> SUFFICES ASSUME NEW time \in Nat, NEW d \in Nat
             PROVE  /\ Second(time) \in Nat /\ TmSec(time) \in 0..59
                    /\ Second(time + d * Ticks) = Second(time) + d /\ Second(d * Ticks) = d
  OBVIOUS
<1>0. Ticks \in Nat \ {0}
  BY ScheduleRecordAssumption
<1> DEFINE q == time \div Ticks
           r == time % Ticks
<1>1. time = Ticks * q + r /\ r \in 0..Ticks - 1 /\ q \in Nat
  BY <1>0, DivMod
<1>2. Second(time) = q
  BY DEF Second
<1> HIDE DEF q, r
<1>3. q % 60 \in 0..59
  BY <1>1
<1>4. time + d * Ticks = Ticks * (q + d) + r /\ d * Ticks = Ticks * d + 0
  BY <1>0, <1>1
<1>5. (Ticks * (q + d) + r) \div Ticks = q + d /\ (Ticks * d + 0) \div Ticks = d
  BY <1>0, <1>1, DivModUnique
<1> QED BY <1>1, <1>2, <1>3, <1>4, <1>5 DEF Second, TmSec

\* What getNext plans: the next second of the pattern, with the fraction of the actual time.
LEMMA NextIs ==
    ASSUME RecordTypeOK, NEW i \in DOMAIN table, Constructed(table[i]), table[i].nickname # "reboot",
           NEW time \in Nat
    PROVE  LET item == Items(table[i])[1]
               S == StandsFor(item, 1)
           IN  \E d \in 1..60 :
                 /\ GetNext(i, time) = time + d * Ticks
                 /\ (Second(time) + d) % 60 \in S
                 /\ item.kind # "every" =>
                      \A s \in (Second(time) + 1)..(Second(time) + d - 1) : s % 60 \notin S
<1> DEFINE item == Items(table[i])[1]
           S == StandsFor(item, 1)
           a == TmSec(time)
           n == NextSec(Vec(i, 1), a)
           d == n - a + IF n <= a THEN 60 ELSE 0
           q == Second(time)
<1>1. IsItem(item) /\ Proper(item, 1)
  BY KeptIsProper
<1>2. Vec(i, 1) = IF item.kind = "every" THEN {-1} ELSE StandsFor(item, 1)
  <2>1. Vec(i, 1) = IF item.kind = "every" THEN {-1} ELSE {v + Offset[1] : v \in StandsFor(item, 1)}
    BY KeptIsProper
  <2>2. \A v \in StandsFor(item, 1) : v + Offset[1] = v
    BY <1>1, InRange, FieldsOfSeconds
  <2> QED BY <2>1, <2>2
<1>3. a \in 0..59 /\ q \in Nat /\ a = q % 60
  BY Seconds DEF TmSec
<1>4. S \in SUBSET (0..59)
  BY <1>1, SomeSecond
<1>5. /\ n \in S
      /\ item.kind # "every" =>
           IF n > a THEN \A v \in S : v <= a \/ v >= n ELSE \A v \in S : v <= a /\ v >= n
  BY <1>1, <1>2, <1>3, NextSecIs
<1>6. GetNext(i, time) = time + d * Ticks
  BY DEF GetNext
<1> HIDE DEF item, S, a, n, q
<1>n. n \in 0..59
  BY <1>4, <1>5
<1>7. d \in 1..60
  BY <1>3, <1>n
<1>8. (q + d) % 60 \in S
  <2>1. (q + d) % 60 = n
    BY <1>3, <1>4, <1>5
  <2> QED BY <2>1, <1>5
<1>9. ASSUME item.kind # "every", NEW s \in (q + 1)..(q + d - 1) PROVE s % 60 \notin S
  <2>1. SUFFICES ASSUME s % 60 \in S PROVE FALSE
    OBVIOUS
  <2>2. CASE n > a
    <3>1. s % 60 = a + (s - q)
      BY <1>3, <1>4, <1>5, <2>2
    <3> QED BY <1>3, <1>4, <1>5, <1>9, <2>1, <2>2, <3>1
  <2>3. CASE n <= a
    <3>1. s % 60 = IF a + (s - q) < 60 THEN a + (s - q) ELSE a + (s - q) - 60
      BY <1>3, <1>4, <1>5, <2>3
    <3> QED BY <1>3, <1>4, <1>5, <1>9, <2>1, <2>3, <3>1
  <2> QED BY <1>3, <1>4, <1>5, <2>2, <2>3
<1> QED BY <1>6, <1>7, <1>8, <1>9 DEF S, q, item

\* The watched record has a pattern and is planned from the last actual time.
PlannedNext ==
    IF state = "watched"
      THEN watched \in records /\ table[watched].nickname # "reboot" /\ next = GetNext(watched, now)
      ELSE watched = 0
\* What was made a record could be made one.
KeptAreConstructed == state # "configured" => \A i \in records : Constructed(table[i])
\* The lateness is all in the seconds passed over and in the fraction of the last round.
LatenessIsCounted == state = "watched" => passed * Ticks + (now % Ticks) = late
RecordInv ==
    RecordTypeOK /\ RecordsAreProper /\ KeptAreConstructed /\ PlannedNext /\ LatenessIsCounted

LEMMA GetNextNat ==
    ASSUME RecordTypeOK, NEW i \in DOMAIN table, Constructed(table[i]), table[i].nickname # "reboot", NEW time \in Nat
    PROVE  GetNext(i, time) \in Nat
<1>1. PICK d \in 1..60 : GetNext(i, time) = time + d * Ticks
  BY NextIs
<1>2. d * Ticks \in Nat
  BY ScheduleRecordAssumption
<1> QED BY <1>1, <1>2

\* Whole seconds add up beside the parts of a second that remain.
LEMMA SecondsAddUp ==
  ASSUME NEW p \in Nat, NEW o \in Nat, NEW a \in Nat, NEW b \in Nat, NEW l \in Nat, NEW by \in Nat,
         p * Ticks + a = l, o * Ticks + b = a + by
  PROVE  (p + o) * Ticks + b = l + by
<1>1. Ticks \in Nat
  BY ScheduleRecordAssumption
<1> DEFINE P == p * Ticks
           O == o * Ticks
<1>2. (p + o) * Ticks = P + O /\ P \in Nat /\ O \in Nat
  BY <1>1
<1>3. P + a = l /\ O + b = a + by
  OBVIOUS
<1> HIDE DEF P, O
<1> QED BY <1>2, <1>3

\* What is kept of a second is a number of its parts.
LEMMA RestNat == ASSUME NEW n \in Nat PROVE n % Ticks \in Nat
<1>1. Ticks \in Nat /\ Ticks > 0
  BY ScheduleRecordAssumption
<1> QED BY <1>1

\* A product beside a rest is at most their sum.
LEMMA WithoutTheRest ==
  ASSUME NEW p \in Nat, NEW b \in Nat, NEW l \in Nat, p * Ticks + b = l
  PROVE  p * Ticks <= l
<1>1. Ticks \in Nat
  BY ScheduleRecordAssumption
<1> DEFINE P == p * Ticks
<1>2. P \in Nat /\ P + b = l
  BY <1>1
<1>3. P <= l
  <2> HIDE DEF P
  <2> QED BY <1>2
<1> QED BY <1>3

\* A wake-up that is late moves the fraction, and the second by the whole seconds of both.
LEMMA LateSeconds ==
    ASSUME NEW time \in Nat, NEW d \in Nat, NEW by \in Nat
    PROVE  LET moved == time + d * Ticks + by
               over == Second(moved) - Second(time + d * Ticks)
           IN  /\ moved \in Nat /\ over \in Nat
               /\ over * Ticks + (moved % Ticks) = (time % Ticks) + by
<1>0. Ticks \in Nat \ {0}
  BY ScheduleRecordAssumption
<1> DEFINE q == time \div Ticks
           r == time % Ticks
           k == (r + by) \div Ticks
           f == (r + by) % Ticks
           moved == time + d * Ticks + by
<1>1. time = Ticks * q + r /\ r \in 0..Ticks - 1 /\ q \in Nat
  BY <1>0, DivMod
<1>2. r + by = Ticks * k + f /\ f \in 0..Ticks - 1 /\ k \in Nat
  <2>1. r + by \in Nat
    BY <1>1
  <2> QED BY <1>0, <2>1, DivMod
<1>3. Second(time + d * Ticks) = q + d
  BY Seconds DEF Second
<1> HIDE DEF q, r, k, f
<1>4. moved = Ticks * (q + d + k) + f
  BY <1>0, <1>1, <1>2
<1>5. moved \div Ticks = q + d + k /\ moved % Ticks = f
  BY <1>0, <1>1, <1>2, <1>4, DivModUnique
<1>6. d * Ticks \in Nat /\ k * Ticks = Ticks * k
  BY <1>0, <1>2
<1>7. moved \in Nat
  BY <1>6
<1> HIDE DEF moved
<1>8. Second(moved) - Second(time + d * Ticks) = k
  BY <1>1, <1>2, <1>3, <1>5 DEF Second
<1>9. k * Ticks + f = r + by /\ k \in Nat
  BY <1>2, <1>6
<1>10. time % Ticks = r /\ moved = time + d * Ticks + by
  BY DEF r, moved
<1> QED BY <1>5, <1>7, <1>8, <1>9, <1>10

\* What updateConfiguration keeps of either form of tables.
LEMMA RecordsLoaded ==
    ASSUME RecordTypeOK, UpdateConfiguration
    PROVE  RecordsAreProper' /\ KeptAreConstructed' /\ records' \subseteq DOMAIN table
<1> DEFINE proper == {i \in DOMAIN table : Documented(table[i]) /\ ~OfDayZero(table[i])}
<1>1. proper = {i \in DOMAIN table : Constructed(table[i])}
  BY ConstructedProper
<1>2. table' = table /\ form' = form /\ state' = "loaded"
  BY DEF UpdateConfiguration
<1>3. records' = IF form = "Tasks" THEN {i \in DOMAIN table : Constructed(table[i])}
                 ELSE {i \in DOMAIN table : \A j \in 1..i : Constructed(table[j])}
  BY DEF UpdateConfiguration
<1>4. \A i \in DOMAIN table : i \in 1..i /\ 1..i \subseteq DOMAIN table
  <2>1. Len(table) \in Nat /\ DOMAIN table = 1..Len(table)
    BY ScheduleRecordAssumption DEF RecordTypeOK
  <2> QED BY <2>1
<1>5. records' = IF form = "Tasks" THEN proper ELSE {i \in proper : 1..i \subseteq proper}
  BY <1>1, <1>3, <1>4
<1>6. RecordsAreProper'
  BY <1>2, <1>5 DEF RecordsAreProper, Documented
<1>7. \A i \in records' : Constructed(table[i])' <=> Constructed(table[i])
  BY <1>2 DEF Constructed
<1> QED BY <1>1, <1>5, <1>6, <1>7 DEF KeptAreConstructed

LEMMA RecordInvInit == RecordInit => RecordInv
<1> SUFFICES ASSUME RecordInit PROVE RecordInv
  OBVIOUS
<1>1. state = "configured" /\ watched = 0 /\ records = {}
  BY DEF RecordInit
<1>2. RecordTypeOK
  BY DEF RecordInit, RecordTypeOK
<1>3. RecordsAreProper /\ KeptAreConstructed /\ PlannedNext /\ LatenessIsCounted
  BY <1>1 DEF RecordsAreProper, KeptAreConstructed, PlannedNext, LatenessIsCounted, RecordInit
<1> QED BY <1>2, <1>3 DEF RecordInv

LEMMA RecordInvStep == RecordInv /\ [RecordNext]_recordVars => RecordInv'
<1> SUFFICES ASSUME RecordInv, [RecordNext]_recordVars PROVE RecordInv'
  OBVIOUS
<1>0. RecordTypeOK /\ RecordsAreProper /\ KeptAreConstructed /\ PlannedNext /\ LatenessIsCounted
  BY DEF RecordInv
<1>1. CASE UpdateConfiguration
  <2>1. RecordsAreProper' /\ KeptAreConstructed' /\ records' \subseteq DOMAIN table
    BY <1>0, <1>1, RecordsLoaded
  <2>2. watched = 0
    BY <1>0, <1>1 DEF UpdateConfiguration, PlannedNext
  <2> QED BY <1>0, <1>1, <2>1, <2>2 DEF UpdateConfiguration, RecordInv, RecordTypeOK, PlannedNext,
             LatenessIsCounted
<1>2. CASE AddScheduleRecord
  <2>1. /\ state = "loaded" /\ state' = "watched" /\ watched' \in records /\ table[watched'].nickname # "reboot"
        /\ next' = GetNext(watched', now') /\ now' \in Nat /\ fired' = FALSE
        /\ passed' = 0 /\ late' \in Nat /\ late' = now' % Ticks
        /\ form' = form /\ table' = table /\ records' = records
    <3>1. PICK s \in Starts, fraction \in 0..(Ticks - 1) : now' = s * Ticks + fraction /\ late' = fraction
      BY <1>2 DEF AddScheduleRecord
    <3>2. s \in Nat /\ Ticks \in Nat \ {0} /\ s * Ticks \in Nat /\ s * Ticks = Ticks * s
      BY ScheduleRecordAssumption
    <3>3. now' % Ticks = fraction
      BY <3>1, <3>2, DivModUnique
    <3> QED BY <1>2, <3>1, <3>2, <3>3 DEF AddScheduleRecord
  <2>2. watched' \in DOMAIN table /\ Constructed(table[watched'])
    BY <1>0, <2>1 DEF RecordTypeOK, KeptAreConstructed
  <2>3. next' \in Nat
    BY <1>0, <2>1, <2>2, GetNextNat
  <2>4. RecordTypeOK'
    BY <1>0, <2>1, <2>3 DEF RecordTypeOK
  <2>5. \A i : Constructed(table[i])' <=> Constructed(table[i])
    BY <2>1 DEF Constructed
  <2>6. KeptAreConstructed'
    BY <1>0, <2>1, <2>5 DEF KeptAreConstructed
  <2>7. RecordsAreProper'
    BY <1>0, <2>1 DEF RecordsAreProper, Documented
  <2>8. PlannedNext'
    BY <2>1 DEF PlannedNext, GetNext, Vec, Parsed, Items
  <2>9. LatenessIsCounted'
    <3>1. 0 * Ticks + (now' % Ticks) = now' % Ticks
      BY <2>1, ScheduleRecordAssumption
    <3> QED BY <2>1, <3>1 DEF LatenessIsCounted
  <2> QED BY <2>4, <2>6, <2>7, <2>8, <2>9 DEF RecordInv
<1>3. CASE Round
  <2>1. /\ state = "watched" /\ UNCHANGED <<state, form, table, records, watched>>
        /\ now' \in Nat /\ next' = GetNext(watched, now') /\ fired' \in BOOLEAN
    BY <1>0, <1>3, ScheduleRecordAssumption DEF Round, RecordTypeOK, VerifyTimePattern
  <2>2. watched \in DOMAIN table /\ Constructed(table[watched]) /\ table[watched].nickname # "reboot"
    BY <1>0, <2>1 DEF RecordTypeOK, KeptAreConstructed, PlannedNext
  <2>9. passed' \in Nat /\ late' \in Nat /\ passed' * Ticks + (now' % Ticks) = late'
    <3>1. PICK by \in 0..MaxLate : now' = next + by /\ late' = late + by
      BY <1>3 DEF Round
    <3>2. PICK d \in 1..60 : GetNext(watched, now) = now + d * Ticks
      BY <1>0, <2>2, NextIs DEF RecordTypeOK
    <3>3. next = now + d * Ticks
      BY <1>0, <2>1, <3>2 DEF PlannedNext
    <3>4. d \in Nat /\ by \in Nat /\ now \in Nat /\ passed \in Nat /\ late \in Nat
      BY <1>0, <3>1, ScheduleRecordAssumption DEF RecordTypeOK
    <3> DEFINE over == Second(now') - Second(next)
    <3>5. over \in Nat /\ over * Ticks + (now' % Ticks) = (now % Ticks) + by
      BY <3>1, <3>3, <3>4, LateSeconds
    <3>6. passed' = passed + over
      BY <1>3 DEF Round
    <3>7. passed * Ticks + (now % Ticks) = late
      BY <1>0, <2>1 DEF LatenessIsCounted
    <3> HIDE DEF over
    <3>8. now % Ticks \in Nat /\ now' % Ticks \in Nat
      BY <2>1, <3>4, RestNat
    <3>9. (passed + over) * Ticks + (now' % Ticks) = late + by
      BY <3>4, <3>5, <3>7, <3>8, SecondsAddUp
    <3>10. passed' \in Nat /\ late' \in Nat
      BY <3>1, <3>4, <3>5, <3>6
    <3> QED BY <3>1, <3>6, <3>9, <3>10
  <2>3. next' \in Nat
    BY <1>0, <2>1, <2>2, GetNextNat
  <2>4. RecordTypeOK'
    BY <1>0, <2>1, <2>3, <2>9 DEF RecordTypeOK
  <2>5. \A i : Constructed(table[i])' <=> Constructed(table[i])
    BY <2>1 DEF Constructed
  <2>6. KeptAreConstructed' /\ RecordsAreProper'
    BY <1>0, <2>1, <2>5 DEF KeptAreConstructed, RecordsAreProper, Documented
  <2>8. PlannedNext'
    BY <1>0, <2>1 DEF PlannedNext, GetNext, Vec, Parsed, Items
  <2> QED BY <2>4, <2>6, <2>8, <2>9 DEF RecordInv, LatenessIsCounted
<1>4. CASE UNCHANGED recordVars
  <2>1. UNCHANGED <<state, form, table, records, watched, now, next, fired, late, passed>>
    BY <1>4 DEF recordVars
  <2>2. RecordTypeOK' /\ LatenessIsCounted'
    BY <1>0, <2>1 DEF RecordTypeOK, LatenessIsCounted
  <2>3. KeptAreConstructed' /\ PlannedNext'
    BY <1>0, <2>1, ZenonT(60) DEF KeptAreConstructed, PlannedNext, Constructed, GetNext, Vec, Parsed, Items
  <2>4. RecordsAreProper'
    BY <1>0, <2>1, ZenonT(60) DEF RecordsAreProper, Documented
  <2> QED BY <2>2, <2>3, <2>4 DEF RecordInv
<1> QED BY <1>1, <1>2, <1>3, <1>4 DEF RecordNext

LEMMA NextInPattern == RecordInv => NextIsInPattern
<1> SUFFICES ASSUME RecordInv, state = "watched" PROVE NextIsInPattern
  BY DEF NextIsInPattern
<1>1. /\ RecordTypeOK /\ watched \in DOMAIN table /\ Constructed(table[watched])
      /\ table[watched].nickname # "reboot" /\ next = GetNext(watched, now) /\ now \in Nat
  BY DEF RecordInv, RecordTypeOK, KeptAreConstructed, PlannedNext
<1>2. PICK d \in 1..60 :
        /\ GetNext(watched, now) = now + d * Ticks
        /\ (Second(now) + d) % 60 \in StandsFor(Items(table[watched])[1], 1)
  BY <1>1, NextIs
<1>3. TmSec(next) = (Second(now) + d) % 60
  <2>1. d \in Nat /\ now \in Nat /\ next = now + d * Ticks
    BY <1>1, <1>2
  <2>2. Second(now + d * Ticks) = Second(now) + d
    BY <2>1, Seconds
  <2> QED BY <2>1, <2>2 DEF TmSec
<1>4. d * Ticks > 0 /\ d * Ticks <= 60 * Ticks /\ d * Ticks \in Nat /\ 60 * Ticks \in Nat
  BY ScheduleRecordAssumption
<1>5. next > now /\ next <= now + 60 * Ticks
  BY <1>1, <1>2, <1>4
<1> QED BY <1>2, <1>3, <1>5 DEF NextIsInPattern

\* A record is made of every proper text of a table, or of those before the first improper one,
\* and is always planned for a second of its pattern within a minute of the actual time, for
\* any table, any clock and however late the timer wakes.
THEOREM RecordsRight == RecordSpec => []RecordsAreRight
<1>1. RecordInv => RecordsAreRight
  BY NextInPattern DEF RecordInv, RecordsAreRight
<1> QED BY <1>1, RecordInvInit, RecordInvStep, PTL DEF RecordSpec

\* A round of a pattern taken as documented: no second of it was planned over, and
\* verifyTimePattern tells of the round's second whether the rest of the pattern allows it.
LEMMA RoundIsDue ==
    ASSUME RecordInv, Round, TakenAsDocumented(Items(table[watched]))
    PROVE  /\ \A s \in (Second(now) + 1)..(Second(next) - 1) : ~IsDue(s)
           /\ fired' = Allows(Second(now'))
<1> DEFINE S == StandsFor(Items(table[watched])[1], 1)
<1>1. /\ RecordTypeOK /\ watched \in DOMAIN table /\ Constructed(table[watched])
      /\ table[watched].nickname # "reboot" /\ next = GetNext(watched, now) /\ now \in Nat
  BY DEF RecordInv, RecordTypeOK, KeptAreConstructed, PlannedNext, Round
<1>2. PICK d \in 1..60 :
        /\ GetNext(watched, now) = now + d * Ticks
        /\ \A s \in (Second(now) + 1)..(Second(now) + d - 1) : s % 60 \notin S
  BY <1>1, NextIs DEF TakenAsDocumented
<1>3. Second(next) = Second(now) + d
  <2>1. d \in Nat /\ now \in Nat /\ next = now + d * Ticks
    BY <1>1, <1>2
  <2> QED BY <2>1, Seconds
<1>4. \A s \in (Second(now) + 1)..(Second(next) - 1) : ~IsDue(s)
  <2> SUFFICES ASSUME NEW s \in (Second(now) + 1)..(Second(next) - 1) PROVE ~IsDue(s)
    OBVIOUS
  <2>1. s \in (Second(now) + 1)..(Second(now) + d - 1)
    BY <1>1, <1>3, Seconds
  <2>2. s % 60 \notin S
    BY <1>2, <2>1, Zenon
  <2> QED BY <2>2 DEF IsDue
<1>5. now' \in Nat /\ fired' = VerifyTimePattern(watched, now')
  BY ScheduleRecordAssumption DEF Round, RecordInv, RecordTypeOK
<1>6. fired' = Allows(Second(now'))
  <2> DEFINE q == Second(now')
  <2>2. q \in Nat /\ Second(q * Ticks) = q
    BY <1>5, Seconds
  <2>3. \A f \in 2..7 : Tm(q * Ticks)[f] = Tm(now')[f]
    BY <2>2 DEF Tm
  <2>4. ASSUME NEW f \in 2..7
        PROVE  LET set == StandsFor(Items(table[watched])[f], f)
                   cval == Tm(now')[f]
               IN  VerifyItem(cval, Vec(watched, f)) <=> cval - Offset[f] \in set
    <3> DEFINE item == Items(table[watched])[f]
               set == StandsFor(item, f)
               cval == Tm(now')[f]
               vec == Vec(watched, f)
    <3>0. f \in 1..7
      OBVIOUS
    <3>1. IsItem(item) /\ Proper(item, f)
      BY <1>1, <3>0, KeptIsProper
    <3>2. vec = IF item.kind = "every" THEN {-1} ELSE {v + Offset[f] : v \in set}
      BY <1>1, <3>0, KeptIsProper
    <3>3. set \subseteq Mnm[f]..Mxm[f]
      BY <3>0, <3>1, InRange
    <3>4. cval - Offset[f] \in Mnm[f]..Mxm[f] /\ cval \in Int
      <4>1. CASE f = 2
        <5>1. cval = (Second(now') \div 60) % 60
          BY <4>1 DEF Tm
        <5> QED BY <5>1, <2>2, <4>1, FieldsOfSeconds
      <4>2. CASE f # 2
        <5>1. cval = Today[f] /\ f \in 3..7
          BY <4>2 DEF Tm
        <5>2. Today[f] \in Nat /\ Today[f] - Offset[f] \in Mnm[f]..Mxm[f]
          BY <5>1, ScheduleRecordAssumption
        <5> HIDE DEF cval
        <5> QED BY ONLY <5>1, <5>2
      <4> QED BY <4>1, <4>2
    <3>5. Mnm[f] \in Nat /\ Mxm[f] \in Nat /\ Offset[f] \in {-1, 0} /\ 0 <= Mnm[f] + Offset[f]
      BY <3>0, FieldRanges
    <3>8. set # {}
      BY DEF TakenAsDocumented
    <3>6. CASE item.kind = "every"
      <4>1. set = Mnm[f]..Mxm[f]
        BY <3>6 DEF StandsFor
      <4>2. VerifyItem(cval, vec)
        BY <3>2, <3>6 DEF VerifyItem
      <4> QED BY <3>4, <4>1, <4>2
    <3>7. CASE item.kind # "every"
      <4> HIDE DEF set, cval, vec, item
      <4>1. vec = {v + Offset[f] : v \in set}
        BY <3>2, <3>7
      <4>2. \A v \in vec : v >= 0
        <5>1. \A v \in set : v + Offset[f] >= 0
          BY <3>3, <3>5
        <5> QED BY <4>1, <5>1
      <4>3. vec # {}
        BY <3>8, <4>1
      <4>4. cval \in vec <=> cval - Offset[f] \in set
        BY <3>3, <3>4, <3>5, <4>1
      <4>5. VerifyItem(cval, vec) <=> cval - Offset[f] \in set
        BY <4>2, <4>3, <4>4 DEF VerifyItem
      <4> QED BY <4>5 DEF set, cval, vec, item
    <3> QED BY <3>6, <3>7
  <2>5. VerifyTimePattern(watched, now') <=> Allows(q)
    BY <2>3, <2>4 DEF VerifyTimePattern, Allows
  <2> QED BY <1>5, <2>5 DEF Allows, VerifyTimePattern
<1> QED BY <1>4, <1>6

\* Of a pattern taken as documented no second is planned over and a round fires exactly if the
\* rest of the pattern allows its second, and planned seconds are passed over only as the
\* lateness adds up to them, for any table, any clock and any day.
THEOREM FiresDue == RecordSpec => FiresWhenDue
<1> DEFINE Round_ ==
             /\ passed' * Ticks <= late'
             /\ TakenAsDocumented(Items(table[watched])) =>
                  /\ \A s \in (Second(now) + 1)..(Second(next) - 1) : ~IsDue(s)
                  /\ fired' = Allows(Second(now'))
<1>1. RecordInv /\ RecordInv' /\ [RecordNext]_recordVars => [state = "watched" => Round_]_recordVars
  <2> SUFFICES ASSUME RecordInv, RecordInv', RecordNext, state = "watched"
               PROVE  Round_
    OBVIOUS
  <2>1. Round
    BY DEF RecordNext, UpdateConfiguration, AddScheduleRecord
  <2>2. passed' * Ticks <= late'
    <3>1. passed' * Ticks + (now' % Ticks) = late' /\ passed' \in Nat /\ now' \in Nat
      BY <2>1 DEF RecordInv, RecordTypeOK, LatenessIsCounted, Round
    <3>2. now' % Ticks \in Nat /\ late' \in Nat
      BY <3>1, RestNat DEF RecordInv, RecordTypeOK
    <3> QED BY <3>1, <3>2, WithoutTheRest
  <2> QED BY <2>1, <2>2, RoundIsDue
<1> QED BY <1>1, RecordInvInit, RecordInvStep, PTL DEF RecordSpec, FiresWhenDue
=============================================================================

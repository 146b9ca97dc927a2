---------------------------- MODULE MqttMessaging ----------------------------
(***************************************************************************)
(* src/daemon/MqttMessaging: a connecting thread tries to connect to the   *)
(* broker, at growing intervals, until a callback of the MQTT library sets *)
(* m_connected or stop() sets m_stopAutoConnect; the loss of a connection  *)
(* joins that thread and starts another; a TaskQueue sends the messages of *)
(* the services, and drops them while there is no connection.              *)
(*                                                                         *)
(* The library is external. What is assumed of it: MQTTAsync_connect fails *)
(* at once or is answered later by onConnect or onConnectFailure; a loss   *)
(* is reported of a connection that was made; callbacks come one at a time *)
(* (so none comes while connlost waits in join), and begin no more after   *)
(* MQTTAsync_destroy.                                                      *)
(***************************************************************************)
EXTENDS Naturals, Sequences

CONSTANTS
    Messages,      \* what services send
    NoMessage,
    MinReconnect,  \* m_mqttMinReconnect
    MaxReconnect,  \* m_mqttMaxReconnect
    MaxQueue       \* bound on the out-queue

ASSUME MqttAssumption ==
    /\ NoMessage \notin Messages
    /\ MinReconnect \in Nat \ {0} /\ MaxReconnect \in Nat \ {0} /\ MaxQueue \in Nat

VARIABLES
    stopAutoConnect,  \* m_stopAutoConnect
    connected,        \* m_connected
    subscribed,       \* m_subscribed
    thread,           \* where m_connectThread is; "none": not joinable
    seconds,          \* its local variable
    queue, current, running,  \* m_toMqttMessageQueue
    sender,           \* where its worker is in sendTo
    registered,       \* m_messageHandlerFunc is set
    main,             \* where the thread is that calls start() and stop()
    disconnected,     \* m_disconnect_promise
    lib,              \* the client object of the library
    subscription,     \* the broker's, for this connection
    callback,         \* where the library's thread is
    overlapped        \* history: a loss was handled during stop()

flagVars == <<stopAutoConnect, connected, subscribed>>
threadVars == <<thread, seconds>>
queueVars == <<queue, current, running, sender, registered>>
mainVars == <<main, disconnected>>
libVars == <<lib, subscription, callback>>
vars == <<flagVars, threadVars, queueVars, mainVars, libVars, overlapped>>

OutQueue == INSTANCE TaskQueueAbs WITH Task <- Messages, NoTask <- NoMessage

Joining == thread \in {"none", "ended"}  \* join returns, or there is none to join
Stopping == main \in {"fail", "join", "disconnect", "await", "destroy", "delete", "stopped"}
InConnlost == callback \in {"lost", "join", "spawn"}

Init ==
    /\ stopAutoConnect = FALSE /\ connected = FALSE /\ subscribed = FALSE
    /\ thread = "none" /\ seconds = MinReconnect
    /\ OutQueue!AbsInit /\ sender = "idle"
    /\ registered = TRUE
    /\ main = "start" /\ disconnected = FALSE
    /\ lib = "none" /\ subscription = "none" /\ callback = "none"
    /\ overlapped = FALSE

-----------------------------------------------------------------------------
(* The connecting thread.                                                  *)

\* connect() has joined the thread before: a new one begins.
Spawn == thread' = "connect" /\ seconds' = MinReconnect

\* MQTTAsync_connect: the answer is on its way,
ConnectAsked ==
    /\ thread = "connect" /\ thread' = "wait"
    /\ lib = "idle" /\ lib' = "connecting"
    /\ UNCHANGED <<flagVars, seconds, queueVars, mainVars, subscription, callback>>

\* or the call is refused at once.
ConnectRefused ==
    /\ thread = "connect" /\ thread' = "wait"
    /\ UNCHANGED <<flagVars, seconds, queueVars, mainVars, libVars>>

\* Mutant: the thread waits for the connection only.
MutantWaitForConnection ==
    /\ thread = "wait" /\ connected
    /\ thread' = "ended"
    /\ UNCHANGED <<flagVars, seconds, queueVars, mainVars, libVars>>

\* The wait ends with its predicate: the thread is over.
WaitEnds ==
    /\ thread = "wait"
    /\ connected \/ stopAutoConnect
    /\ thread' = "ended"
    /\ UNCHANGED <<flagVars, seconds, queueVars, mainVars, libVars>>

\* Mutant: one attempt only.
MutantNoRetry ==
    /\ thread = "wait" /\ ~connected /\ ~stopAutoConnect
    /\ thread' = "ended"
    /\ UNCHANGED <<flagVars, seconds, queueVars, mainVars, libVars>>

\* The wait times out: try again, and wait longer.
WaitTimesOut ==
    /\ thread = "wait"
    /\ ~connected /\ ~stopAutoConnect
    /\ seconds' = IF seconds < MaxReconnect THEN seconds * 2 ELSE MaxReconnect
    /\ thread' = "connect"
    /\ UNCHANGED <<flagVars, queueVars, mainVars, libVars>>

-----------------------------------------------------------------------------
(* Callbacks of the library.                                               *)

\* onConnect, until it subscribes.
OnConnect ==
    /\ callback = "none" /\ lib = "connecting"
    /\ lib' = "connected"
    /\ connected' = TRUE
    /\ callback' = "subscribe"
    /\ UNCHANGED <<stopAutoConnect, subscribed, threadVars, queueVars, mainVars,
                    subscription>>

\* The rest of it: MQTTAsync_subscribe is accepted, or refused at once.
Subscribe ==
    /\ callback = "subscribe"
    /\ subscription' \in {"asked", "refused"}
    /\ callback' = "none"
    /\ UNCHANGED <<flagVars, threadVars, queueVars, mainVars, lib>>

OnConnectFailure ==
    /\ callback = "none" /\ lib = "connecting"
    /\ lib' = "idle"
    /\ connected' = FALSE
    /\ UNCHANGED <<stopAutoConnect, subscribed, threadVars, queueVars, mainVars,
                    subscription, callback>>

\* onSubscribe and onSubscribeFailure.
OnSubscribe ==
    /\ callback = "none" /\ lib = "connected" /\ subscription = "asked"
    /\ \/ subscription' = "made" /\ subscribed' = TRUE
       \/ subscription' = "refused" /\ subscribed' = FALSE
    /\ UNCHANGED <<stopAutoConnect, connected, threadVars, queueVars, mainVars, lib,
                    callback>>

\* msgarrvd of a topic that matches: the service handles the message. Any other
\* message is dropped.
MessageArrives ==
    /\ callback = "none" /\ lib = "connected" /\ subscription = "made"
    /\ registered
    /\ callback' = "handle"
    /\ UNCHANGED <<flagVars, threadVars, queueVars, mainVars, lib, subscription>>

\* The service has answered with a message, or with none.
MessageHandled ==
    /\ callback = "handle"
    /\ callback' = "none"
    /\ \/ UNCHANGED <<queue, current, running, sender, main>>
       \/ /\ main # "stopped" /\ Len(queue) < MaxQueue
          /\ \E m \in Messages : OutQueue!Accept(m)
          /\ UNCHANGED <<sender, main>>
       \/ main = "stopped" /\ main' = "crashed" /\ UNCHANGED queueVars
    /\ UNCHANGED <<flagVars, threadVars, registered, disconnected, lib, subscription>>

\* The connection is lost: connlost is called.
LoseConnection ==
    /\ callback = "none" /\ lib = "connected"
    /\ lib' = "idle" /\ subscription' = "none"
    /\ callback' = "lost"
    /\ UNCHANGED <<flagVars, threadVars, queueVars, mainVars>>

\* Mutant: connect() does not reset m_connected.
MutantResetFlags ==
    /\ callback = "lost" /\ callback' = "join"
    /\ stopAutoConnect' = FALSE /\ subscribed' = FALSE
    /\ UNCHANGED <<connected, threadVars, queueVars, mainVars, lib, subscription>>

\* connect(), called by connlost: the flags,
ResetFlags ==
    /\ callback = "lost"
    /\ stopAutoConnect' = FALSE /\ connected' = FALSE /\ subscribed' = FALSE
    /\ callback' = "join"
    /\ UNCHANGED <<threadVars, queueVars, mainVars, lib, subscription>>

\* the join of the old thread,
JoinOld ==
    /\ callback = "join" /\ Joining
    /\ thread' = "none"
    /\ callback' = "spawn"
    /\ UNCHANGED <<flagVars, seconds, queueVars, mainVars, lib, subscription>>

\* and the start of the new one.
SpawnNew ==
    /\ callback = "spawn"
    /\ Spawn
    /\ callback' = "none"
    /\ UNCHANGED <<flagVars, queueVars, mainVars, lib, subscription>>

OnDisconnect ==
    /\ callback = "none" /\ lib = "disconnecting"
    /\ lib' = "idle" /\ subscription' = "none"
    /\ disconnected' = TRUE
    /\ UNCHANGED <<flagVars, threadVars, queueVars, main, callback>>

-----------------------------------------------------------------------------
(* Services, and the worker of the out-queue.                              *)

SendMessage(m) ==
    /\ main = "run" /\ Len(queue) < MaxQueue
    /\ OutQueue!Accept(m)
    /\ UNCHANGED <<flagVars, threadVars, sender, registered, mainVars, libVars>>

\* A service is stopped before its messaging.
UnregisterMessageHandler ==
    /\ main = "run" /\ registered
    /\ registered' = FALSE
    /\ UNCHANGED <<flagVars, threadVars, queue, current, running, sender, mainVars,
                    libVars>>

TakeMessage ==
    /\ OutQueue!Take
    /\ sender' = "test"
    /\ UNCHANGED <<flagVars, threadVars, registered, mainVars, libVars>>

\* sendTo: without a connection the message is dropped.
TestConnected ==
    /\ sender = "test"
    /\ IF connected
         THEN sender' = "send" /\ UNCHANGED <<queue, current, running>>
         ELSE sender' = "idle" /\ OutQueue!Finish
    /\ UNCHANGED <<flagVars, threadVars, registered, mainVars, libVars>>

\* MQTTAsync_sendMessage takes the message, or fails: it is not sent again.
SendTo ==
    /\ sender = "send"
    /\ sender' = "idle" /\ OutQueue!Finish
    /\ UNCHANGED <<flagVars, threadVars, registered, mainVars, libVars>>

-----------------------------------------------------------------------------
(* start() and stop().                                                     *)

\* connect() resets flags that are as they were: nothing has changed them yet.
Start ==
    /\ main = "start" /\ main' = "run"
    /\ lib' = "idle"
    /\ Spawn
    /\ UNCHANGED <<flagVars, queueVars, disconnected, subscription, callback>>

\* MQTTAsync_create fails, so start() throws and nothing connects.
StartThrows ==
    /\ main = "start" /\ main' = "run"
    /\ UNCHANGED <<flagVars, threadVars, queueVars, disconnected, libVars>>

StopAutoConnect ==
    /\ main = "run" /\ main' = "fail"
    /\ stopAutoConnect' = TRUE
    /\ UNCHANGED <<connected, subscribed, threadVars, queueVars, disconnected, libVars>>

\* onConnectFailure(nullptr)
FailConnection ==
    /\ main = "fail" /\ main' = "join"
    /\ connected' = FALSE
    /\ UNCHANGED <<stopAutoConnect, subscribed, threadVars, queueVars, disconnected,
                    libVars>>

\* Mutant: stop() does not join the thread.
MutantStopNoJoin ==
    /\ main = "join" /\ main' = "disconnect"
    /\ UNCHANGED <<flagVars, threadVars, queueVars, disconnected, libVars>>

JoinThread ==
    /\ main = "join" /\ Joining
    /\ main' = "disconnect"
    /\ thread' = "none"
    /\ UNCHANGED <<flagVars, seconds, queueVars, disconnected, libVars>>

\* connlost is joining the same thread, which nothing defines.
JoinTwice ==
    /\ main = "join" /\ callback = "join" /\ thread = "ended"
    /\ main' = "crashed"
    /\ UNCHANGED <<flagVars, threadVars, queueVars, disconnected, libVars>>

\* A disconnect that is not accepted is taken for done.
Disconnect ==
    /\ main = "disconnect"
    /\ \/ lib = "connected" /\ lib' = "disconnecting" /\ main' = "await" /\ UNCHANGED disconnected
       \/ disconnected' = TRUE /\ main' = "await" /\ UNCHANGED lib
       \/ lib = "none" /\ main' = "crashed" /\ UNCHANGED <<disconnected, lib>>
    /\ UNCHANGED <<flagVars, threadVars, queueVars, subscription, callback>>

\* The promise was kept, or five seconds are over.
AwaitDisconnect ==
    /\ main = "await" /\ main' = "destroy"
    /\ UNCHANGED <<flagVars, threadVars, queueVars, disconnected, libVars>>

Destroy ==
    /\ main = "destroy" /\ main' = "delete"
    /\ lib' = "destroyed" /\ subscription' = "none"
    /\ UNCHANGED <<flagVars, threadVars, queueVars, disconnected, callback>>

\* The destructor of the queue stops it and joins its worker.
StopOutQueue ==
    /\ main = "delete" /\ running
    /\ OutQueue!Stop
    /\ UNCHANGED <<flagVars, threadVars, sender, registered, mainVars, libVars>>

DeleteOutQueue ==
    /\ main = "delete" /\ ~running /\ current = NoMessage
    /\ main' = "stopped"
    /\ UNCHANGED <<flagVars, threadVars, queueVars, disconnected, libVars>>

-----------------------------------------------------------------------------
\* Every step of a daemon that has not crashed keeps the history.
Track == main # "crashed" /\ overlapped' = (overlapped \/ (Stopping /\ InConnlost)')

ThreadNext == (ConnectAsked \/ ConnectRefused \/ WaitEnds \/ WaitTimesOut) /\ Track

\* What the broker and the network do, and what the daemon does about it.
BrokerNext ==
    (OnConnectFailure \/ MessageArrives \/ LoseConnection) /\ Track

AnswerNext == (OnConnect \/ OnSubscribe \/ OnDisconnect) /\ Track

CallbackNext ==
    (Subscribe \/ MessageHandled \/ ResetFlags \/ JoinOld \/ SpawnNew) /\ Track

ServiceNext == ((\E m \in Messages : SendMessage(m)) \/ UnregisterMessageHandler) /\ Track

SenderNext == (TakeMessage \/ TestConnected \/ SendTo) /\ Track

StartNext == (Start \/ StartThrows) /\ Track

StopNext ==
    /\ \/ FailConnection \/ JoinThread \/ JoinTwice \/ Disconnect \/ AwaitDisconnect
       \/ Destroy \/ StopOutQueue \/ DeleteOutQueue
    /\ Track

Next ==
    \/ ThreadNext \/ BrokerNext \/ AnswerNext \/ CallbackNext \/ ServiceNext
    \/ SenderNext \/ StartNext \/ (StopAutoConnect /\ Track) \/ StopNext

Spec == Init /\ [][Next]_vars

\* The daemon's threads run; a service returns from its handler; the broker
\* accepts a connection that is asked for again and again, and so does the library.
FairSpec ==
    /\ Spec
    /\ WF_vars(ThreadNext) /\ WF_vars(CallbackNext) /\ WF_vars(SenderNext)
    /\ WF_vars(StartNext) /\ WF_vars(StopNext)
    /\ SF_vars(ConnectAsked /\ Track) /\ SF_vars(OnConnect /\ Track)

-----------------------------------------------------------------------------
\* The intervals between attempts are limited: the last doubling may exceed
\* MaxReconnect, once.
TypeOK ==
    /\ stopAutoConnect \in BOOLEAN /\ connected \in BOOLEAN /\ subscribed \in BOOLEAN
    /\ thread \in {"none", "connect", "wait", "ended"}
    /\ seconds \in 1..(MinReconnect + 2 * MaxReconnect)
    /\ queue \in Seq(Messages) /\ current \in Messages \union {NoMessage}
    /\ running \in BOOLEAN
    /\ sender \in {"idle", "test", "send"}
    /\ (sender = "idle") = (current = NoMessage)
    /\ registered \in BOOLEAN /\ disconnected \in BOOLEAN /\ overlapped \in BOOLEAN
    /\ main \in {"start", "run", "crashed"} \union
                {"fail", "join", "disconnect", "await", "destroy", "delete", "stopped"}
    /\ lib \in {"none", "idle", "connecting", "connected", "disconnecting", "destroyed"}
    /\ subscription \in {"none", "asked", "made", "refused"}
    /\ callback \in {"none", "subscribe", "handle", "lost", "join", "spawn"}

\* m_connected is true exactly when there is a connection, but for the moment
\* in which the library announces its loss, and for stop(): so the out-queue
\* drops no message that could be sent, and tries to send none in vain.
FlagTellsConnection ==
    main = "run" /\ callback # "lost" => (connected <=> lib = "connected")

\* m_subscribed is not left from an earlier connection.
FlagTellsSubscription ==
    main = "run" /\ subscribed /\ lib = "connected" => subscription = "made"

\* A thread is only replaced after it was joined: to assign to a joinable
\* std::thread terminates the daemon.
JoinedBeforeReplaced == callback = "spawn" => thread = "none"

\* stop() leaves no connecting thread behind that would use the deleted client,
\* unless a loss of the connection was handled while it ran.
StopLeavesNoThread == main \in {"destroy", "delete", "stopped"} => thread = "none" \/ overlapped

\* A lost connection is made again as long as the broker accepts, unless stop()
\* was called, or connlost joins a thread that waits for the very callback that
\* cannot come while connlost waits.
WaitsForItself == callback = "join" /\ thread \in {"connect", "wait"} /\ ~connected

Reconnects == callback = "lost" ~> lib = "connected" \/ main # "run" \/ WaitsForItself

\* stop() returns, unless a loss of the connection was handled while it ran.
StopEnds == main = "fail" ~> main \in {"stopped", "crashed"} \/ overlapped
=============================================================================

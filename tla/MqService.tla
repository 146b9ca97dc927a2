----------------------------- MODULE MqService -----------------------------
(***************************************************************************)
(* A BaseService behind MqMessaging. The channel's listening thread hands  *)
(* a request to the service, which answers when it has executed or refused *)
(* it; the Scheduler's worker and the asynchronous DPA handler send what   *)
(* nobody asked for. Answers leave by the worker of the out-queue, a FIFO  *)
(* (see TaskQueueAbs). The message queue of the system is external.        *)
(***************************************************************************)
EXTENDS Serializers, Naturals

CONSTANTS
    MaxRequests,    \* bound on the requests, numbered from 1
    MaxUnsolicited  \* bound on the messages nobody asked for

ASSUME BoundsAreNumbers == MaxRequests \in Nat /\ MaxUnsolicited \in Nat

VARIABLES
    serializers,  \* m_serializerVect
    messaging,    \* how far start() and stop() are
    toDaemon,     \* requests on their way: [id, text]
    handled,      \* by the listening thread: at most one
    outQueue,     \* m_toMqMessageQueue: what the messages in it answer, 0 for no request
    toClient,     \* on its way to the client
    unsolicited,  \* how many were sent
    crashed       \* the thread that met a queue that was not there, or "no"

Requests == [id : 1..MaxRequests, text : Texts]

serviceVars ==
    <<serializers, messaging, toDaemon, handled, outQueue, toClient, unsolicited, crashed>>

ServiceInit ==
    /\ serializers \in Lists
    /\ messaging = "made" /\ crashed = "no"
    /\ toDaemon = <<>> /\ handled = <<>> /\ outQueue = <<>> /\ toClient = <<>>
    /\ unsolicited = 0

HasQueue == messaging \in {"queue", "serving", "channelDeleted"}

\* sendMessage, called by a thread.
SendMessage(to, thread) ==
    IF HasQueue THEN outQueue' = Append(outQueue, to) /\ UNCHANGED crashed
                ELSE crashed' = thread /\ UNCHANGED outQueue

-----------------------------------------------------------------------------
Proceed(here, there) ==
    /\ messaging = here /\ messaging' = there
    /\ UNCHANGED <<serializers, handled, toClient, unsolicited, crashed>>

\* start(): the channel, the queue, and the handler that uses both.
MakeChannel == Proceed("made", "channel") /\ UNCHANGED <<toDaemon, outQueue>>
MakeQueue == Proceed("channel", "queue") /\ UNCHANGED <<toDaemon, outQueue>>
RegisterReceive == Proceed("queue", "serving") /\ UNCHANGED <<toDaemon, outQueue>>

\* stop(): the channel, whose destructor joins the listening thread,
DeleteChannel ==
    /\ handled = <<>> /\ Proceed("serving", "channelDeleted")
    /\ toDaemon' = <<>> /\ UNCHANGED outQueue

\* Mutant: the queue is deleted before the channel.
MutantDeleteQueue == Proceed("serving", "stopped") /\ outQueue' = <<>> /\ UNCHANGED toDaemon

\* and the queue, with what is left in it.
DeleteQueue == Proceed("channelDeleted", "stopped") /\ outQueue' = <<>> /\ UNCHANGED toDaemon

-----------------------------------------------------------------------------
\* handleMessageFromMq: the service parses. The channel drops what nobody receives.
HandleMessage ==
    /\ handled = <<>> /\ toDaemon # <<>>
    /\ toDaemon' = Tail(toDaemon)
    /\ LET request == Head(toDaemon)
           heard == messaging \notin {"channel", "queue"}
       IN  \/ ~heard /\ UNCHANGED <<handled, outQueue, crashed>>
           \/ /\ heard /\ Accepts(serializers, request.text)
              /\ handled' = <<request>> /\ UNCHANGED <<outQueue, crashed>>
           \/ /\ heard /\ ~Accepts(serializers, request.text)
              /\ SendMessage(request.id, "listener") /\ UNCHANGED handled
    /\ UNCHANGED <<serializers, messaging, toClient, unsolicited>>

\* The transaction, or doCommand, is over.
Executed ==
    /\ handled # <<>> /\ handled' = <<>>
    /\ SendMessage(handled[1].id, "listener")
    /\ UNCHANGED <<serializers, messaging, toDaemon, toClient, unsolicited>>

\* A task of the Scheduler is answered, or an asynchronous DPA message is sent on.
SendUnsolicited(thread) ==
    /\ unsolicited < MaxUnsolicited /\ unsolicited' = unsolicited + 1
    /\ SendMessage(0, thread)
    /\ UNCHANGED <<serializers, messaging, toDaemon, handled, toClient>>

\* The out-queue's worker. Through a deleted channel nothing arrives.
SendTo ==
    /\ outQueue # <<>> /\ outQueue' = Tail(outQueue)
    /\ toClient' = IF messaging = "channelDeleted" THEN toClient ELSE Append(toClient, Head(outQueue))
    /\ UNCHANGED <<serializers, messaging, toDaemon, handled, unsolicited, crashed>>

Listener == HandleMessage \/ Executed

ServiceNext ==
    /\ crashed = "no"
    /\ \/ MakeChannel \/ MakeQueue \/ RegisterReceive \/ DeleteChannel \/ DeleteQueue
       \/ Listener \/ SendTo
       \/ \E thread \in {"scheduler", "dpaHandler"} : SendUnsolicited(thread)

-----------------------------------------------------------------------------
ServiceTypeOK ==
    /\ serializers \in Lists
    /\ messaging \in {"made", "channel", "queue", "serving", "channelDeleted", "stopped"}
    /\ toDaemon \in Seq(Requests)
    /\ handled \in Seq(Requests) /\ Len(handled) <= 1
    /\ outQueue \in Seq(0..MaxRequests) /\ toClient \in Seq(0..MaxRequests)
    /\ unsolicited \in 0..MaxUnsolicited
    /\ crashed \in {"no", "listener", "scheduler", "dpaHandler"}

\* The listening thread always meets a queue for its answer: the handler is registered
\* after the queue was made, and the channel deleted before it. Only those who do not
\* come through the channel can meet none, before start() or after stop().
ListenerMeetsQueue == crashed # "listener"

\* A message that one of the serializers understands, its category included, is
\* executed, unless a SimpleSerializer comes first and takes a JSON object for a DPA
\* request.
Understands(serializer, text) ==
    ParseCategory(serializer, text) \in {"dpa", "conf"} /\ Parses(serializer, text)
UnderstoodIsExecuted ==
    \A text \in Texts : \A i \in 1..Len(serializers) :
        Understands(serializers[i], text) /\ ~Accepts(serializers, text) =>
            text.form = "json" /\ Head(serializers) = "SimpleSerializer"

\* A request that comes through the channel finds the queue for its answer, and is
\* executed if one of the serializers understands it, but for the order named above.
RequestIsServed == ServiceTypeOK /\ ListenerMeetsQueue /\ UnderstoodIsExecuted
=============================================================================

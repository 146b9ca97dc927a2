---------------------------- MODULE UdpMessaging ----------------------------
(***************************************************************************)
(* The IDE's channel. The UDP thread answers packets, and in the service   *)
(* mode writes to the TR module through m_exclusiveChannel, which setMode  *)
(* sets and resets on another thread without a mutex; the thread of the    *)
(* IQRF interface sends back what the TR module says, and the worker of    *)
(* the transactions mirrors them in the forwarding mode. What is pushed to *)
(* the out-queue leaves in that order (see TaskQueueAbs), so one sequence  *)
(* stands for the queue and for what was sent. A packet is lost, doubled   *)
(* or repeated by not being, or by being another, of the arriving ones.    *)
(***************************************************************************)
EXTENDS Naturals, Sequences

CONSTANTS
    MaxPackets,  \* bound on the packets of the IDE, numbered from 1
    MaxOther     \* bound on the messages nobody in the IDE asked for

ASSUME PacketsAreNumbers == MaxPackets \in Nat /\ MaxOther \in Nat

VARIABLES
    udp,         \* how far start() and stop() are
    exclusiveChannel,  \* m_exclusiveChannel is not null
    receiver,    \* who has registered with the IQRF interface
    mirrors,     \* whether transactions are forwarded
    udpThread,   \* where the UDP thread is
    packets,     \* packets handled, the last one maybe not yet to its end
    written,     \* writes that reached the TR module and were not answered by it yet
    pushed,      \* [kind, id] in the order of the pushes
    other,       \* how many of them nobody asked for
    interrupted, \* history: the exclusive access was off since the last acknowledgement
    delivered,   \* history: the writes that reached the TR module
    failed       \* the thread that met null or what was deleted, or "no"

udpVars == <<udp, exclusiveChannel, receiver, mirrors, udpThread, packets, written, pushed, other,
          interrupted, delivered, failed>>

UdpInit ==
    /\ udp = "made" /\ exclusiveChannel = FALSE /\ receiver = "dpaHandler" /\ mirrors = FALSE
    /\ udpThread = "idle" /\ packets = 0 /\ written = {} /\ pushed = <<>> /\ other = 0
    /\ interrupted = FALSE /\ delivered = {} /\ failed = "no"

HasUdpQueue == udp \in {"queue", "serving", "channelDeleted"}

\* m_toUdpMessageQueue->pushToQueue, called by a thread.
PushToQueue(kind, id, thread) ==
    IF HasUdpQueue THEN pushed' = Append(pushed, [kind |-> kind, id |-> id]) /\ UNCHANGED failed
                ELSE failed' = thread /\ UNCHANGED pushed

-----------------------------------------------------------------------------
ProceedUdp(here, there) ==
    /\ udp = here /\ udp' = there
    /\ UNCHANGED <<exclusiveChannel, receiver, mirrors, udpThread, packets, written, pushed, other,
                   interrupted, delivered, failed>>

\* start()
MakeUdpChannel == ProceedUdp("made", "channel")
MakeUdpQueue == ProceedUdp("channel", "queue")
RegisterUdpReceive == ProceedUdp("queue", "serving")

\* stop(): the channel's destructor joins the UDP thread.
DeleteUdpChannel == udpThread = "idle" /\ ProceedUdp("serving", "channelDeleted")
DeleteUdpQueue == ProceedUdp("channelDeleted", "stopped")

-----------------------------------------------------------------------------
(* handleMessageFromUdp.                                                   *)

\* Information, status or a command that is not implemented: one answer, ACK or NAK.
\* What decodeMessageUdp refuses is dropped.
Answer(kind) ==
    /\ udp = "serving" /\ udpThread = "idle" /\ packets < MaxPackets
    /\ packets' = packets + 1
    /\ PushToQueue(kind, packets', "udp")
    /\ UNCHANGED <<udp, exclusiveChannel, receiver, mirrors, udpThread, written, other,
                   interrupted, delivered>>

\* Mutant: the write is not acknowledged.
MutantAcknowledgeWrite ==
    /\ udp = "serving" /\ udpThread = "idle" /\ packets < MaxPackets
    /\ packets' = packets + 1
    /\ udpThread' = "test" /\ interrupted' = ~exclusiveChannel
    /\ UNCHANGED <<udp, exclusiveChannel, receiver, mirrors, written, pushed, other, delivered, failed>>

\* A write is acknowledged before it is tried.
AcknowledgeWrite ==
    /\ udp = "serving" /\ udpThread = "idle" /\ packets < MaxPackets
    /\ packets' = packets + 1
    /\ PushToQueue("ack", packets', "udp")
    /\ udpThread' = "test" /\ interrupted' = ~exclusiveChannel
    /\ UNCHANGED <<udp, exclusiveChannel, receiver, mirrors, written, other, delivered>>

\* m_exclusiveChannel is tested; without it the write is dropped,
TestExclusive ==
    /\ udpThread = "test"
    /\ udpThread' = IF exclusiveChannel THEN "use" ELSE "idle"
    /\ UNCHANGED <<udp, exclusiveChannel, receiver, mirrors, packets, written, pushed, other,
                   interrupted, delivered, failed>>

\* and read again to be used.
UseExclusive ==
    /\ udpThread = "use" /\ udpThread' = "idle"
    /\ IF exclusiveChannel
         THEN /\ written' = written \union {packets} /\ delivered' = delivered \union {packets}
              /\ UNCHANGED failed
         ELSE failed' = "udp" /\ UNCHANGED <<written, delivered>>
    /\ UNCHANGED <<udp, exclusiveChannel, receiver, mirrors, packets, pushed, other, interrupted>>

-----------------------------------------------------------------------------
(* setMode, and the threads of the daemon.                                 *)

\* The mode is switched to service: the channel is set,
SetExclusive ==
    /\ ~exclusiveChannel /\ exclusiveChannel' = TRUE /\ mirrors' = FALSE
    /\ UNCHANGED <<udp, receiver, udpThread, packets, written, pushed, other, interrupted,
                   delivered, failed>>

\* then sendDpaMessageToUdp is registered with it. What the TR module says in between is
\* not the IDE's.
RegisterExclusive ==
    /\ exclusiveChannel /\ receiver # "udp" /\ receiver' = "udp"
    /\ UNCHANGED <<udp, exclusiveChannel, mirrors, udpThread, packets, written, pushed, other,
                   interrupted, delivered, failed>>

\* And back: the DPA handler that startDpa creates registers with the interface later.
ResetExclusive ==
    /\ exclusiveChannel /\ receiver = "udp"
    /\ exclusiveChannel' = FALSE /\ interrupted' = TRUE
    /\ UNCHANGED <<udp, receiver, mirrors, udpThread, packets, written, pushed, other, delivered, failed>>

\* startDpa, or a switch between the other modes.
LeaveService ==
    /\ ~exclusiveChannel
    /\ receiver' = "dpaHandler" /\ mirrors' \in BOOLEAN
    /\ UNCHANGED <<udp, exclusiveChannel, udpThread, packets, written, pushed, other, interrupted,
                   delivered, failed>>

\* The TR module answers a write; the answer goes to whoever has registered.
TrAnswers(id) ==
    /\ id \in written /\ written' = written \ {id}
    /\ IF receiver = "udp" THEN PushToQueue("data", id, "iqrf") ELSE UNCHANGED <<pushed, failed>>
    /\ UNCHANGED <<udp, exclusiveChannel, receiver, mirrors, udpThread, packets, other, interrupted,
                   delivered>>

\* sendDpaMessageToUdp for what the IDE did not cause: an asynchronous message of the TR
\* module, or the request, confirmation or response of a mirrored transaction.
SendOther ==
    /\ other < MaxOther /\ other' = other + 1
    /\ \/ receiver = "udp" /\ PushToQueue("data", 0, "iqrf")
       \/ mirrors /\ PushToQueue("data", 0, "worker")
    /\ UNCHANGED <<udp, exclusiveChannel, receiver, mirrors, udpThread, packets, written, interrupted,
                   delivered>>

UdpThread ==
    \/ \E kind \in {"info", "status", "nak"} : Answer(kind)
    \/ AcknowledgeWrite \/ TestExclusive \/ UseExclusive

UdpNext ==
    /\ failed = "no"
    /\ \/ MakeUdpChannel \/ MakeUdpQueue \/ RegisterUdpReceive \/ DeleteUdpChannel \/ DeleteUdpQueue
       \/ UdpThread \/ SetExclusive \/ RegisterExclusive \/ ResetExclusive \/ LeaveService
       \/ \E id \in written : TrAnswers(id)
       \/ SendOther

UdpSpec == UdpInit /\ [][UdpNext]_udpVars

-----------------------------------------------------------------------------
UdpTypeOK ==
    /\ udp \in {"made", "channel", "queue", "serving", "channelDeleted", "stopped"}
    /\ exclusiveChannel \in BOOLEAN /\ receiver \in {"dpaHandler", "udp"} /\ mirrors \in BOOLEAN
    /\ udpThread \in {"idle", "test", "use"} /\ packets \in 0..MaxPackets
    /\ written \subseteq delivered /\ delivered \subseteq 1..packets
    /\ pushed \in Seq([kind : {"info", "status", "nak", "ack", "data"}, id : 0..MaxPackets])
    /\ other \in 0..MaxOther /\ interrupted \in BOOLEAN
    /\ failed \in {"no", "udp", "iqrf", "worker"}

\* The IDE sees the acknowledgement of a write before the data that the write brings.
AckPrecedesData ==
    \A j \in 1..Len(pushed) : pushed[j].kind = "data" /\ pushed[j].id # 0 =>
        \E i \in 1..(j - 1) : pushed[i].kind = "ack" /\ pushed[i].id = pushed[j].id

\* An acknowledged write has reached the TR module, unless the exclusive access was off
\* at some time since it was acknowledged.
AcknowledgedIsWritten ==
    udpThread = "idle" /\ ~interrupted /\ failed = "no" =>
        \A i \in 1..Len(pushed) :
            pushed[i].kind = "ack" /\ pushed[i].id = packets => packets \in delivered

\* What the IDE is told of its writes: each is acknowledged before its data come, and what
\* was acknowledged is written.
AcksAreTrue == AckPrecedesData /\ AcknowledgedIsWritten

\* The UDP thread meets no queue that is not there: it fails only when resetExclusive
\* comes between its test of m_exclusiveChannel and the use.
UdpThreadSurvives == failed = "udp" => udp = "serving" /\ interrupted /\ ~exclusiveChannel
=============================================================================

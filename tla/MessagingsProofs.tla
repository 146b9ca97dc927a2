--------------------------- MODULE MessagingsProofs ---------------------------
(***************************************************************************)
(* What the two messagings of the system's own guarantee, for any number   *)
(* of packets, requests and messages.                                      *)
(*                                                                         *)
(* MqMessaging, with its service and iqrfapp at the other end: while no    *)
(* wait has timed out and nothing has come that nobody asked for, nothing  *)
(* on its way answers a request but the one that iqrfapp waits for, and    *)
(* that one is in one place only. This is what pairs a request with an     *)
(* answer that carries no name of it.                                      *)
(*                                                                         *)
(* UdpMessaging: the out-queue exists while the UDP thread is in a write,  *)
(* every write made was acknowledged, and an acknowledgement never names a *)
(* packet that has not arrived. So a write is acknowledged before its data *)
(* arrive, and is made while the exclusive access lasts.                   *)
(***************************************************************************)
EXTENDS IqrfApp, UdpMessaging, TLAPS

-----------------------------------------------------------------------------
(* MqMessaging and iqrfapp.                                                *)

\* No message in a queue answers a request; or one does, the request id.
NoAnswer(q) == \A i \in 1..Len(q) : q[i] = 0
OneAnswer(q, id) ==
    \E i \in 1..Len(q) : q[i] = id /\ \A j \in 1..Len(q) : j # i => q[j] = 0

\* The daemon listens while requests are on their way to it, and serves while one is handled.
ChannelInv ==
    /\ handled # <<>> => messaging = "serving"
    /\ toDaemon # <<>> => messaging \in {"channel", "queue", "serving"}
    /\ ListenerMeetsQueue
    /\ command \in Asking => request > 0
    /\ place = "send" => command \in Asking

\* Nothing on its way answers a request.
Quiet ==
    /\ toDaemon = <<>> /\ handled = <<>> /\ ~flag
    /\ NoAnswer(outQueue) /\ NoAnswer(toClient)

\* One message is on its way, and it is the last request or answers it.
AtDaemon ==
    /\ Len(toDaemon) = 1 /\ toDaemon[1].id = request
    /\ handled = <<>> /\ ~flag /\ NoAnswer(outQueue) /\ NoAnswer(toClient)
AtListener ==
    /\ Len(handled) = 1 /\ handled[1].id = request
    /\ toDaemon = <<>> /\ ~flag /\ NoAnswer(outQueue) /\ NoAnswer(toClient)
AtSender ==
    /\ OneAnswer(outQueue, request)
    /\ toDaemon = <<>> /\ handled = <<>> /\ ~flag /\ NoAnswer(toClient)
AtClient ==
    /\ OneAnswer(toClient, request)
    /\ toDaemon = <<>> /\ handled = <<>> /\ ~flag /\ NoAnswer(outQueue)
AtMain ==
    /\ flag /\ message = request
    /\ toDaemon = <<>> /\ handled = <<>> /\ NoAnswer(outQueue) /\ NoAnswer(toClient)
OnItsWay == AtDaemon \/ AtListener \/ AtSender \/ AtClient \/ AtMain

\* Only who waits for the answer to a command has one on its way.
Pairing ==
    ~gaveUp /\ ~strayed =>
        /\ Quiet \/ (place \in {"lock", "wait"} /\ command \in Asking /\ OnItsWay)
        /\ place = "show" /\ command \in Asking => message = request
        /\ shown[1] = shown[2] /\ place # "crashed"

AppInv == TypeOK /\ ChannelInv /\ Pairing
-----------------------------------------------------------------------------
(* What the steps do to a queue.                                           *)

LEMMA Elements ==
    ASSUME NEW S, NEW q \in Seq(S)
    PROVE  /\ q # <<>> => Head(q) \in S /\ q[1] = Head(q) /\ Tail(q) \in Seq(S) /\ Len(Tail(q)) = Len(q) - 1
           /\ \A e \in S : Append(q, e) \in Seq(S) /\ <<e>> \in Seq(S)
           /\ <<>> \in Seq(S) /\ Len(q) \in Nat /\ (q = <<>> <=> Len(q) = 0)
OBVIOUS

LEMMA Rest ==
    ASSUME NEW S, NEW q \in Seq(S), NEW n \in 0..Len(q) PROVE SubSeq(q, n + 1, Len(q)) \in Seq(S)
OBVIOUS

LEMMA TailOfQuiet ==
    ASSUME NEW q \in Seq(Nat), NoAnswer(q), q # <<>>
    PROVE  Head(q) = 0 /\ NoAnswer(Tail(q))
BY DEF NoAnswer

LEMMA AppendToQuiet ==
    ASSUME NEW q \in Seq(Nat), NEW id \in Nat, NoAnswer(q)
    PROVE  OneAnswer(Append(q, id), id) /\ (id = 0 => NoAnswer(Append(q, id)))
<1>1. Len(q) + 1 \in 1..Len(Append(q, id)) /\ Append(q, id)[Len(q) + 1] = id
  OBVIOUS
<1>2. \A j \in 1..Len(Append(q, id)) : j # Len(q) + 1 => Append(q, id)[j] = 0
  BY DEF NoAnswer
<1>3. OneAnswer(Append(q, id), id)
  BY <1>1, <1>2 DEF OneAnswer
<1> QED BY <1>1, <1>2, <1>3 DEF NoAnswer

LEMMA AppendToAnswer ==
    ASSUME NEW q \in Seq(Nat), NEW id \in Nat, OneAnswer(q, id)
    PROVE  OneAnswer(Append(q, 0), id)
<1>1. PICK i \in 1..Len(q) : q[i] = id /\ \A j \in 1..Len(q) : j # i => q[j] = 0
  BY DEF OneAnswer
<1>2. i \in 1..Len(Append(q, 0)) /\ Append(q, 0)[i] = id
  BY <1>1
<1>3. \A j \in 1..Len(Append(q, 0)) : j # i => Append(q, 0)[j] = 0
  BY <1>1
<1> QED BY <1>2, <1>3 DEF OneAnswer

LEMMA TailOfAnswer ==
    ASSUME NEW q \in Seq(Nat), NEW id \in Nat \ {0}, OneAnswer(q, id)
    PROVE  /\ q # <<>>
           /\ Head(q) = 0 => OneAnswer(Tail(q), id)
           /\ Head(q) # 0 => Head(q) = id /\ NoAnswer(Tail(q))
<1>1. PICK i \in 1..Len(q) : q[i] = id /\ \A j \in 1..Len(q) : j # i => q[j] = 0
  BY DEF OneAnswer
<1>2. q # <<>> /\ Head(q) = q[1] /\ Len(Tail(q)) = Len(q) - 1
        /\ \A j \in 1..Len(Tail(q)) : Tail(q)[j] = q[j + 1]
  BY <1>1
<1>3. ASSUME Head(q) = 0 PROVE OneAnswer(Tail(q), id)
  <2>1. i - 1 \in 1..Len(Tail(q)) /\ Tail(q)[i - 1] = id
    BY <1>1, <1>2, <1>3
  <2>2. \A j \in 1..Len(Tail(q)) : j # i - 1 => Tail(q)[j] = 0
    BY <1>1, <1>2
  <2> QED BY <2>1, <2>2 DEF OneAnswer
<1>4. ASSUME Head(q) # 0 PROVE Head(q) = id /\ NoAnswer(Tail(q))
  <2>1. i = 1
    BY <1>1, <1>2, <1>4
  <2> QED BY <1>1, <1>2, <2>1 DEF NoAnswer
<1> QED BY <1>2, <1>3, <1>4

LEMMA RestOfQuiet ==
    ASSUME NEW q \in Seq(Nat), NoAnswer(q), NEW n \in 0..Len(q)
    PROVE  NoAnswer(SubSeq(q, n + 1, Len(q)))
BY DEF NoAnswer

-----------------------------------------------------------------------------
(* The types.                                                              *)

Threads == {"listener", "scheduler", "dpaHandler"}

\* A message is in the out-queue, or its sender has crashed.
LEMMA SendMessageTypes ==
    ASSUME TypeOK, NEW to \in 0..MaxRequests, NEW thread \in Threads, SendMessage(to, thread)
    PROVE  outQueue' \in Seq(0..MaxRequests) /\ crashed' \in Threads \union {"no"}
<1> USE DEF TypeOK, ServiceTypeOK, Threads
<1>1. CASE HasQueue
  <2>1. outQueue' = Append(outQueue, to) /\ UNCHANGED crashed
    BY <1>1 DEF SendMessage
  <2> QED BY <2>1, Elements
<1>2. CASE ~HasQueue
  BY <1>2 DEF SendMessage
<1> QED BY <1>1, <1>2

LEMMA AppTypeInit == Init => TypeOK
<1> SUFFICES ASSUME Init PROVE TypeOK
  OBVIOUS
<1> USE BoundsAreNumbers, TimeoutsAreNumbers DEF Init, ServiceInit
<1>1. ServiceTypeOK
  <2>1. <<>> \in Seq(Requests) /\ <<>> \in Seq(0..MaxRequests)
    OBVIOUS
  <2> QED BY <2>1 DEF ServiceTypeOK
<1>2. defaultTimeout \in Nat
  <2>1. PICK timeout \in Configured : defaultTimeout = IF timeout >= 0 THEN timeout ELSE BuiltinTimeout
    OBVIOUS
  <2> QED BY <2>1
<1>3. flag \in BOOLEAN /\ gaveUp \in BOOLEAN /\ strayed \in BOOLEAN /\ interactive \in BOOLEAN
  OBVIOUS
<1>4. request \in 0..MaxRequests /\ message \in -1..MaxRequests
        /\ shown \in (0..MaxRequests) \X (-1..MaxRequests)
  OBVIOUS
<1> QED BY <1>1, <1>2, <1>3, <1>4 DEF TypeOK

\* The service and the messaging change their own variables.
LEMMA ServiceTypes == ASSUME TypeOK, ServiceNext, UNCHANGED appVars PROVE TypeOK'
<1> USE BoundsAreNumbers
<1>1. ServiceTypeOK'
  <2> USE DEF TypeOK, ServiceTypeOK
  <2>1. CASE MakeChannel
    BY <2>1 DEF MakeChannel, Proceed
  <2>2. CASE MakeQueue
    BY <2>2 DEF MakeQueue, Proceed
  <2>3. CASE RegisterReceive
    BY <2>3 DEF RegisterReceive, Proceed
  <2>4. CASE DeleteChannel
    BY <2>4 DEF DeleteChannel, Proceed
  <2>5. CASE DeleteQueue
    BY <2>5 DEF DeleteQueue, Proceed
  <2>6. CASE HandleMessage
    <3>1. toDaemon # <<>> /\ toDaemon' = Tail(toDaemon)
            /\ UNCHANGED <<serializers, messaging, toClient, unsolicited>>
      BY <2>6 DEF HandleMessage
    <3>2. Head(toDaemon) \in Requests
            /\ toDaemon' \in Seq(Requests)
      BY <3>1, Elements
    <3>3. Head(toDaemon).id \in 0..MaxRequests
      BY <3>2 DEF Requests
    <3>4. outQueue' \in Seq(0..MaxRequests) /\ crashed' \in Threads \union {"no"}
            /\ handled' \in Seq(Requests) /\ Len(handled') <= 1
      <4>1. CASE UNCHANGED <<handled, outQueue, crashed>>
        BY <4>1 DEF Threads
      <4>2. CASE handled' = <<Head(toDaemon)>> /\ UNCHANGED <<outQueue, crashed>>
        BY <4>2, <3>2, Elements DEF Threads
      <4>3. CASE SendMessage(Head(toDaemon).id, "listener") /\ UNCHANGED handled
        BY <4>3, <3>3, SendMessageTypes DEF Threads
      <4> QED BY <2>6, <4>1, <4>2, <4>3 DEF HandleMessage
    <3> QED BY <3>1, <3>2, <3>4 DEF Threads
  <2>7. CASE Executed
    <3>1. handled[1].id \in 0..MaxRequests
      <4>1. handled[1] \in Requests
        BY <2>7, Elements DEF Executed
      <4> QED BY <4>1 DEF Requests
    <3>2. outQueue' \in Seq(0..MaxRequests) /\ crashed' \in Threads \union {"no"}
      BY <2>7, <3>1, SendMessageTypes DEF Executed, Threads
    <3> QED BY <2>7, <3>2 DEF Executed, Threads
  <2>8. CASE SendTo
    <3>1. outQueue # <<>> /\ Head(outQueue) \in 0..MaxRequests /\ outQueue' \in Seq(0..MaxRequests)
      BY <2>8, Elements DEF SendTo
    <3>2. toClient' = toClient \/ toClient' = Append(toClient, Head(outQueue))
      BY <2>8 DEF SendTo
    <3>3. Append(toClient, Head(outQueue)) \in Seq(0..MaxRequests)
      BY <3>1, Elements
    <3>4. toClient' \in Seq(0..MaxRequests)
      BY <3>2, <3>3
    <3> QED BY <2>8, <3>1, <3>4 DEF SendTo
  <2>9. ASSUME NEW thread \in {"scheduler", "dpaHandler"}, SendUnsolicited(thread) PROVE ServiceTypeOK'
    <3>1. outQueue' \in Seq(0..MaxRequests) /\ crashed' \in Threads \union {"no"}
      BY <2>9, SendMessageTypes DEF SendUnsolicited, Threads
    <3> QED BY <2>9, <3>1 DEF SendUnsolicited, Threads
  <2> QED BY <2>1, <2>2, <2>3, <2>4, <2>5, <2>6, <2>7, <2>8, <2>9 DEF ServiceNext, Listener
<1> QED BY <1>1 DEF TypeOK, appVars, callVars, waitVars, historyVars

\* iqrfapp changes its own, what it sends and what it receives.
LEMMA AppTypes ==
    ASSUME TypeOK, ChannelInv,
           Open \/ Prompt \/ Help \/ Exit \/ SendParams \/ Receive \/ Waiting
                     \/ DeleteMsgQueue \/ PushToDeleted \/ DeleteMqChannel
    PROVE  TypeOK'
<1> USE BoundsAreNumbers, TimeoutsAreNumbers
        DEF TypeOK, ServiceTypeOK, serviceVars, callVars, waitVars, historyVars, AfterCommand
<1>1. CASE Open
  BY <1>1 DEF Open
<1>2. CASE Prompt
  <2>1. ASSUME NEW line \in Lines, NEW cmd \in Asking \union Listening,
               NEW timeout \in NamedTimeouts(cmd, line),
               (Ask(cmd, line, timeout) /\ cmd \in Asking) \/ Listen(cmd, line, timeout)
        PROVE  TypeOK'
    <3>1. timeout \in Int
      BY DEF NamedTimeouts
    <3>2. CASE Ask(cmd, line, timeout)
      BY <3>1, <3>2 DEF Ask, SetTimeout
    <3>3. CASE Listen(cmd, line, timeout)
      BY <3>1, <3>3 DEF Listen, SetTimeout
    <3> QED BY <2>1, <3>2, <3>3
  <2> QED BY <1>2, <2>1 DEF Prompt
<1>3. CASE Help
  BY <1>3 DEF Help
<1>4. CASE Exit
  BY <1>4 DEF Exit
<1>5. CASE SendParams
  <2>1. CASE UNCHANGED toDaemon
    BY <1>5, <2>1 DEF SendParams
  <2>2. ASSUME NEW text \in Texts, toDaemon' = Append(toDaemon, [id |-> request, text |-> text])
        PROVE  toDaemon' \in Seq(Requests)
    <3>1. [id |-> request, text |-> text] \in Requests
      BY <1>5 DEF SendParams, ChannelInv, Requests
    <3> QED BY <2>2, <3>1, Elements
  <2> QED BY <1>5, <2>1, <2>2 DEF SendParams, Sent
<1>6. CASE Receive
  <2>1. Head(toClient) \in 0..MaxRequests /\ toClient' \in Seq(0..MaxRequests)
    BY <1>6, Elements DEF Receive
  <2> QED BY <1>6, <2>1 DEF Receive, Stray
<1>7. CASE Lock
  BY <1>7 DEF Lock
<1>8. CASE WaitEnds
  BY <1>8 DEF WaitEnds
<1>9. CASE TimesOut
  BY <1>9 DEF TimesOut
<1>10. CASE Show
  BY <1>10 DEF Show
<1>11. CASE DeleteMsgQueue
  <2>1. PICK n \in 0..Len(toClient) : toClient' = SubSeq(toClient, n + 1, Len(toClient))
    BY <1>11 DEF DeleteMsgQueue
  <2>2. toClient' \in Seq(0..MaxRequests)
    BY <2>1, Rest
  <2> QED BY <1>11, <2>2 DEF DeleteMsgQueue
<1>12. CASE PushToDeleted
  BY <1>12 DEF PushToDeleted, Stray
<1>13. CASE DeleteMqChannel
  BY <1>13 DEF DeleteMqChannel
<1> QED BY <1>1, <1>2, <1>3, <1>4, <1>5, <1>6, <1>7, <1>8, <1>9, <1>10, <1>11, <1>12, <1>13 DEF Waiting

-----------------------------------------------------------------------------
(* The channel and the queue behind it.                                    *)

LEMMA ServiceChannel ==
    ASSUME TypeOK, ChannelInv, ServiceNext, UNCHANGED appVars PROVE ChannelInv'
<1> USE DEF ChannelInv, ListenerMeetsQueue, Proceed, TypeOK, ServiceTypeOK
<1>1. command' = command /\ request' = request /\ place' = place
  BY DEF appVars, waitVars
<1>2. CASE MakeChannel
  BY <1>1, <1>2 DEF MakeChannel
<1>3. CASE MakeQueue
  BY <1>1, <1>3 DEF MakeQueue
<1>4. CASE RegisterReceive
  BY <1>1, <1>4 DEF RegisterReceive
<1>5. CASE DeleteChannel
  BY <1>1, <1>5 DEF DeleteChannel
<1>6. CASE DeleteQueue
  BY <1>1, <1>6 DEF DeleteQueue
<1>7. CASE HandleMessage
  <2>1. messaging' = messaging /\ messaging \in {"channel", "queue", "serving"}
    BY <1>7 DEF HandleMessage
  <2>2. handled' # handled => messaging = "serving"
    BY <1>7, <2>1 DEF HandleMessage
  <2>3. crashed' = crashed
    <3>1. messaging = "serving" => HasQueue
      BY DEF HasQueue
    <3> QED BY <1>7, <2>1, <3>1 DEF HandleMessage, SendMessage
  <2> QED BY <1>1, <2>1, <2>2, <2>3
<1>8. CASE Executed
  <2>1. HasQueue
    BY <1>8 DEF Executed, HasQueue
  <2> QED BY <1>1, <1>8, <2>1 DEF Executed, SendMessage
<1>9. CASE SendTo
  BY <1>1, <1>9 DEF SendTo
<1>10. ASSUME NEW thread \in {"scheduler", "dpaHandler"}, SendUnsolicited(thread) PROVE ChannelInv'
  BY <1>1, <1>10 DEF SendUnsolicited, SendMessage
<1> QED BY <1>2, <1>3, <1>4, <1>5, <1>6, <1>7, <1>8, <1>9, <1>10 DEF ServiceNext, Listener

LEMMA AppChannel ==
    ASSUME TypeOK, ChannelInv,
           Open \/ Prompt \/ Help \/ Exit \/ SendParams \/ Receive \/ Waiting
             \/ DeleteMsgQueue \/ PushToDeleted \/ DeleteMqChannel
    PROVE  ChannelInv'
<1> USE DEF ChannelInv, ListenerMeetsQueue, TypeOK, Asking,
            serviceVars, callVars, waitVars, historyVars, AfterCommand
<1>1. CASE Open
  BY <1>1 DEF Open
<1>2. CASE Prompt
  <2>1. ASSUME NEW line \in Lines, NEW cmd \in Asking, NEW timeout \in NamedTimeouts(cmd, line),
               Ask(cmd, line, timeout)
        PROVE  ChannelInv'
    BY <2>1 DEF Ask
  <2>2. ASSUME NEW line \in Lines, NEW cmd \in Listening, NEW timeout \in NamedTimeouts(cmd, line),
               Listen(cmd, line, timeout)
        PROVE  ChannelInv'
    BY <2>2 DEF Listen, Listening
  <2> QED BY <1>2, <2>1, <2>2 DEF Prompt
<1>3. CASE Help
  BY <1>3 DEF Help
<1>4. CASE Exit
  BY <1>4 DEF Exit
<1>5. CASE SendParams
  BY <1>5 DEF SendParams
<1>6. CASE Receive
  BY <1>6 DEF Receive
<1>7. CASE Waiting
  BY <1>7 DEF Waiting, Lock, WaitEnds, TimesOut, Show
<1>8. CASE DeleteMsgQueue
  BY <1>8 DEF DeleteMsgQueue
<1>9. CASE PushToDeleted \/ DeleteMqChannel
  BY <1>9 DEF PushToDeleted, DeleteMqChannel
<1> QED BY <1>1, <1>2, <1>3, <1>4, <1>5, <1>6, <1>7, <1>8, <1>9

-----------------------------------------------------------------------------
(* Requests and answers in pairs.                                          *)

\* A message nobody asked for leaves a queue as quiet as it was.
LEMMA Unasked ==
    ASSUME TypeOK, ChannelInv, Pairing, NEW thread \in {"scheduler", "dpaHandler"},
           SendUnsolicited(thread), UNCHANGED appVars
    PROVE  Pairing'
<1>1. UNCHANGED <<serializers, messaging, toDaemon, handled, toClient, appVars>>
  BY DEF SendUnsolicited
<1>2. outQueue' = outQueue \/ outQueue' = Append(outQueue, 0)
  BY DEF SendUnsolicited, SendMessage
<1>3. outQueue \in Seq(Nat) /\ request \in Nat
  BY BoundsAreNumbers DEF TypeOK, ServiceTypeOK
<1>4. NoAnswer(outQueue) => NoAnswer(outQueue')
  BY <1>2, <1>3, AppendToQuiet
<1>5. OneAnswer(outQueue, request) => OneAnswer(outQueue', request)
  BY <1>2, <1>3, AppendToAnswer
<1> QED BY <1>1, <1>4, <1>5 DEF Pairing, Quiet, OnItsWay, AtDaemon, AtListener, AtSender, AtClient,
       AtMain, appVars, waitVars, historyVars

\* A request, once handled, is the only one, and its answer follows it.
LEMMA ServicePairing ==
    ASSUME TypeOK, ChannelInv, Pairing, ServiceNext, UNCHANGED appVars PROVE Pairing'
<1>1. UNCHANGED <<place, command, request, flag, message, shown, gaveUp, strayed>>
  BY DEF appVars, waitVars, historyVars
<1>2. SUFFICES ASSUME ~gaveUp, ~strayed
               PROVE  Quiet' \/ (place \in {"lock", "wait"} /\ command \in Asking /\ OnItsWay')
  BY <1>1 DEF Pairing
<1>3. Quiet \/ (place \in {"lock", "wait"} /\ command \in Asking /\ OnItsWay)
  BY <1>2 DEF Pairing
<1>4. /\ toDaemon \in Seq(Requests) /\ handled \in Seq(Requests) /\ request \in Nat
      /\ outQueue \in Seq(Nat) /\ toClient \in Seq(Nat)
      /\ OnItsWay /\ place \in {"lock", "wait"} /\ command \in Asking => request \in Nat \ {0}
  BY BoundsAreNumbers DEF TypeOK, ServiceTypeOK, ChannelInv
<1> USE DEF Quiet, OnItsWay, AtDaemon, AtListener, AtSender, AtClient, AtMain
<1>5. CASE MakeChannel \/ MakeQueue \/ RegisterReceive
  BY <1>1, <1>3, <1>5 DEF MakeChannel, MakeQueue, RegisterReceive, Proceed
<1>6. CASE DeleteChannel
  <2>1. toDaemon' = <<>> /\ UNCHANGED <<handled, outQueue, toClient>>
    BY <1>6 DEF DeleteChannel, Proceed
  <2> QED BY <1>1, <1>3, <2>1
<1>7. CASE DeleteQueue
  <2>1. outQueue' = <<>> /\ UNCHANGED <<handled, toDaemon, toClient>>
    BY <1>7 DEF DeleteQueue, Proceed
  <2>2. NoAnswer(outQueue')
    BY <2>1 DEF NoAnswer
  <2> QED BY <1>1, <1>3, <2>1, <2>2
<1>8. CASE HandleMessage
  <2>1. toDaemon # <<>> /\ handled = <<>> /\ toDaemon' = Tail(toDaemon) /\ toClient' = toClient
    BY <1>8 DEF HandleMessage
  <2>2. AtDaemon /\ place \in {"lock", "wait"} /\ command \in Asking
    BY <1>3, <2>1
  <2>3. toDaemon' = <<>> /\ Head(toDaemon).id = request
    <3>1. Head(toDaemon) = toDaemon[1] /\ Tail(toDaemon) \in Seq(Requests) /\ Len(Tail(toDaemon)) = 0
      BY <1>4, <2>1, <2>2, Elements
    <3> QED BY <2>1, <2>2, <3>1, Elements
  <2>4. CASE UNCHANGED <<handled, outQueue>>
    BY <1>1, <2>1, <2>2, <2>3, <2>4
  <2>5. CASE handled' = <<Head(toDaemon)>> /\ UNCHANGED outQueue
    BY <1>1, <2>1, <2>2, <2>3, <2>5
  <2>6. CASE SendMessage(Head(toDaemon).id, "listener") /\ UNCHANGED handled
    <3>1. outQueue' = outQueue \/ outQueue' = Append(outQueue, request)
      BY <2>3, <2>6 DEF SendMessage
    <3>2. CASE outQueue' = outQueue
      BY <1>1, <2>1, <2>2, <2>3, <2>6, <3>2
    <3>3. CASE outQueue' = Append(outQueue, request)
      <4>1. OneAnswer(outQueue', request)
        BY <1>4, <2>2, <3>3, AppendToQuiet
      <4> QED BY <1>1, <2>1, <2>2, <2>3, <2>6, <4>1
    <3> QED BY <3>1, <3>2, <3>3
  <2> QED BY <1>8, <2>4, <2>5, <2>6 DEF HandleMessage
<1>9. CASE Executed
  <2>1. /\ handled # <<>> /\ handled' = <<>> /\ UNCHANGED <<toDaemon, toClient>>
        /\ SendMessage(handled[1].id, "listener")
    BY <1>9 DEF Executed
  <2>2. AtListener /\ place \in {"lock", "wait"} /\ command \in Asking
    BY <1>3, <2>1
  <2>3. outQueue' = outQueue \/ outQueue' = Append(outQueue, request)
    BY <2>1, <2>2 DEF SendMessage
  <2>4. CASE outQueue' = outQueue
    BY <1>1, <2>1, <2>2, <2>4
  <2>5. CASE outQueue' = Append(outQueue, request)
    <3>1. OneAnswer(outQueue', request)
      BY <1>4, <2>2, <2>5, AppendToQuiet
    <3> QED BY <1>1, <2>1, <2>2, <3>1
  <2> QED BY <2>3, <2>4, <2>5
<1>10. CASE SendTo
  <2>1. outQueue # <<>> /\ outQueue' = Tail(outQueue) /\ UNCHANGED <<toDaemon, handled>>
    BY <1>10 DEF SendTo
  <2>2. toClient' = toClient \/ toClient' = Append(toClient, Head(outQueue))
    BY <1>10 DEF SendTo
  <2>3. CASE NoAnswer(outQueue)
    <3>1. Head(outQueue) = 0 /\ NoAnswer(outQueue')
      BY <1>4, <2>1, <2>3, TailOfQuiet
    <3>2. NoAnswer(toClient) => NoAnswer(toClient')
      <4>1. toClient' = toClient \/ toClient' = Append(toClient, 0)
        BY <2>2, <3>1
      <4>2. 0 \in Nat /\ (NoAnswer(toClient) => NoAnswer(Append(toClient, 0)))
        BY <1>4, AppendToQuiet
      <4> QED BY <4>1, <4>2
    <3>3. OneAnswer(toClient, request) => OneAnswer(toClient', request)
      BY <1>4, <2>2, <3>1, AppendToAnswer
    <3> QED BY <1>1, <1>3, <2>1, <2>3, <3>1, <3>2, <3>3
  <2>4. CASE AtSender /\ place \in {"lock", "wait"} /\ command \in Asking
    <3>1. request \in Nat \ {0}
      BY <1>4, <2>4
    <3>2. CASE Head(outQueue) = 0
      <4>1. OneAnswer(outQueue', request)
        BY <1>4, <2>1, <2>4, <3>1, <3>2, TailOfAnswer
      <4>2. toClient' = toClient \/ toClient' = Append(toClient, 0)
        BY <2>2, <3>2
      <4>3. 0 \in Nat /\ NoAnswer(toClient) /\ NoAnswer(Append(toClient, 0))
        BY <1>4, <2>4, AppendToQuiet
      <4>4. NoAnswer(toClient')
        BY <4>2, <4>3
      <4> QED BY <1>1, <2>1, <2>4, <4>1, <4>4
    <3>3. CASE Head(outQueue) # 0
      <4>1. Head(outQueue) = request /\ NoAnswer(outQueue')
        BY <1>4, <2>1, <2>4, <3>1, <3>3, TailOfAnswer
      <4>2. NoAnswer(toClient') \/ OneAnswer(toClient', request)
        BY <1>4, <2>2, <2>4, <4>1, AppendToQuiet
      <4> QED BY <1>1, <2>1, <2>4, <4>1, <4>2
    <3> QED BY <3>2, <3>3
  <2> QED BY <1>3, <2>3, <2>4
<1>11. ASSUME NEW thread \in {"scheduler", "dpaHandler"}, SendUnsolicited(thread)
       PROVE  Quiet' \/ (place \in {"lock", "wait"} /\ command \in Asking /\ OnItsWay')
  <2>1. Pairing'
    BY <1>11, Unasked
  <2> QED BY <1>1, <1>2, <2>1 DEF Pairing
<1> QED BY <1>5, <1>6, <1>7, <1>8, <1>9, <1>10, <1>11 DEF ServiceNext, Listener

\* iqrfapp takes for the answer what comes, and only the answer comes.
LEMMA AppPairing ==
    ASSUME TypeOK, ChannelInv, Pairing,
           Open \/ Prompt \/ Help \/ Exit \/ SendParams \/ Receive \/ Waiting
             \/ DeleteMsgQueue \/ PushToDeleted \/ DeleteMqChannel
    PROVE  Pairing'
<1> USE DEF serviceVars, callVars, waitVars, historyVars, AfterCommand,
            Quiet, OnItsWay, AtDaemon, AtListener, AtSender, AtClient, AtMain
<1>1. /\ toDaemon \in Seq(Requests) /\ handled \in Seq(Requests) /\ request \in Nat
      /\ outQueue \in Seq(Nat) /\ toClient \in Seq(Nat)
      /\ command \in Asking => request \in Nat \ {0}
  BY BoundsAreNumbers DEF TypeOK, ServiceTypeOK, ChannelInv
<1>2. CASE Open
  BY <1>2 DEF Open, Pairing
<1>3. CASE Prompt
  <2>1. ASSUME NEW line \in Lines, NEW cmd \in Asking, NEW timeout \in NamedTimeouts(cmd, line),
               Ask(cmd, line, timeout)
        PROVE  Pairing'
    BY <2>1 DEF Ask, Pairing
  <2>2. ASSUME NEW line \in Lines, NEW cmd \in Listening, NEW timeout \in NamedTimeouts(cmd, line),
               Listen(cmd, line, timeout)
        PROVE  Pairing'
    BY <2>2 DEF Listen, Listening, Asking, Pairing
  <2> QED BY <1>3, <2>1, <2>2 DEF Prompt
<1>4. CASE Help \/ Exit
  BY <1>4 DEF Help, Exit, Pairing
<1>5. CASE SendParams
  <2>1. place = "send" /\ place' = "lock" /\ command \in Asking
    BY <1>5 DEF SendParams, ChannelInv
  <2>2. UNCHANGED <<handled, outQueue, toClient, command, request, flag, message, shown, gaveUp, strayed>>
    BY <1>5 DEF SendParams
  <2>3. CASE UNCHANGED toDaemon
    BY <2>1, <2>2, <2>3 DEF Pairing
  <2>4. ASSUME NEW text \in Texts, toDaemon' = Append(toDaemon, [id |-> request, text |-> text])
        PROVE  Pairing'
    <3>1. toDaemon = <<>> => Len(toDaemon') = 1 /\ toDaemon'[1].id = request
      BY <2>4
    <3> QED BY <2>1, <2>2, <3>1 DEF Pairing
  <2> QED BY <1>5, <2>3, <2>4 DEF SendParams, Sent
<1>6. CASE Receive
  <2>1. /\ toClient # <<>> /\ toClient' = Tail(toClient) /\ message' = Head(toClient) /\ flag' = TRUE
        /\ strayed' = (strayed \/ Head(toClient) = 0)
        /\ UNCHANGED <<toDaemon, handled, outQueue, place, command, request, shown, gaveUp>>
    BY <1>6 DEF Receive, Stray
  <2>2. NoAnswer(toClient) => Head(toClient) = 0
    BY <1>1, <2>1, TailOfQuiet
  <2>3. SUFFICES ASSUME ~gaveUp, ~strayed, Head(toClient) # 0 PROVE Pairing'
    BY <2>1 DEF Pairing
  <2>4. AtClient /\ place \in {"lock", "wait"} /\ command \in Asking
    BY <2>2, <2>3 DEF Pairing
  <2>5. Head(toClient) = request /\ NoAnswer(toClient')
    BY <1>1, <2>1, <2>3, <2>4, TailOfAnswer
  <2> QED BY <2>1, <2>3, <2>4, <2>5 DEF Pairing
<1>7. CASE Lock
  BY <1>7 DEF Lock, Pairing
<1>8. CASE WaitEnds
  BY <1>8 DEF WaitEnds, Pairing
<1>9. CASE TimesOut
  BY <1>9 DEF TimesOut, Pairing
<1>10. CASE Show
  BY <1>10, <1>1 DEF Show, Pairing
<1>11. CASE DeleteMsgQueue
  <2>1. NoAnswer(toClient) => NoAnswer(toClient')
    BY <1>1, <1>11, RestOfQuiet DEF DeleteMsgQueue
  <2> QED BY <1>11, <2>1 DEF DeleteMsgQueue, Pairing
<1>12. CASE PushToDeleted
  <2>1. NoAnswer(toClient) => Head(toClient) = 0
    BY <1>1, <1>12, TailOfQuiet DEF PushToDeleted
  <2> QED BY <1>12, <2>1 DEF PushToDeleted, Stray, Pairing
<1>13. CASE DeleteMqChannel
  BY <1>13 DEF DeleteMqChannel, Pairing
<1> QED BY <1>2, <1>3, <1>4, <1>5, <1>6, <1>7, <1>8, <1>9, <1>10, <1>11, <1>12, <1>13 DEF Waiting

-----------------------------------------------------------------------------
\* Every step keeps the invariant.
LEMMA AppInvNext == AppInv /\ [Next]_vars => AppInv'
<1> SUFFICES ASSUME AppInv, [Next]_vars PROVE AppInv'
  OBVIOUS
<1> USE DEF AppInv
<1>1. CASE ServiceNext /\ UNCHANGED appVars
  BY <1>1, ServiceTypes, ServiceChannel, ServicePairing
<1>2. CASE Open \/ Prompt \/ Help \/ Exit \/ SendParams \/ Receive \/ Waiting
             \/ DeleteMsgQueue \/ PushToDeleted \/ DeleteMqChannel
  BY <1>2, AppTypes, AppChannel, AppPairing
<1>3. CASE UNCHANGED vars
  BY <1>3 DEF vars, serviceVars, appVars, callVars, waitVars, historyVars, TypeOK, ServiceTypeOK,
        ChannelInv, ListenerMeetsQueue, Pairing, Quiet, OnItsWay, AtDaemon, AtListener, AtSender,
        AtClient, AtMain
<1> QED BY <1>1, <1>2, <1>3 DEF Next

\* Before anything is sent nothing is on its way.
LEMMA AppInvInit == Init => AppInv
<1> SUFFICES ASSUME Init PROVE AppInv
  OBVIOUS
<1>1. TypeOK
  BY AppTypeInit
<1>2. ChannelInv
  BY DEF Init, ServiceInit, ChannelInv, ListenerMeetsQueue, Asking
<1>3. Pairing
  BY DEF Init, ServiceInit, Pairing, Quiet, NoAnswer, Asking
<1> QED BY <1>1, <1>2, <1>3 DEF AppInv

\* A request that reaches a list of serializers is executed if one of them understands it,
\* unless a SimpleSerializer stands before it and the request is JSON.
LEMMA Understood ==
    ASSUME NEW list \in Lists, NEW text \in Texts, NEW i \in 1..Len(list),
           Understands(list[i], text), ~Accepts(list, text)
    PROVE  text.form = "json" /\ Head(list) = "SimpleSerializer"
<1> DEFINE Names(s) == ParseCategory(s, text) \in {"dpa", "conf"}
           I == {k \in 1..Len(list) : Names(list[k])}
<1>1. Chosen(list, text) = IF I # {} THEN Min(I) ELSE 0
  BY DEF Chosen, SelectInSeq
<1>2. list \in Lists /\ Len(list) \in {1, 2} /\ I \subseteq {1, 2}
  BY DEF Lists
<1>3. ASSUME I # {} PROVE Min(I) \in I /\ \A k \in I : Min(I) <= k
  <2>1. \E x \in I : \A k \in I : x <= k
    <3>1. CASE 1 \in I
      BY <1>2, <3>1
    <3>2. CASE 1 \notin I
      <4>1. I = {2}
        BY <1>2, <1>3, <3>2
      <4> QED BY <4>1
    <3> QED BY <3>1, <3>2
  <2> HIDE DEF I
  <2> QED BY <2>1 DEF Min
<1>4. i \in I
  BY DEF Understands
<1>5. Chosen(list, text) \in I /\ Chosen(list, text) <= i
  BY <1>1, <1>3, <1>4
<1>6. ~Parses(list[Chosen(list, text)], text) /\ Chosen(list, text) # i
  BY <1>5 DEF Accepts, Understands
<1>7. i = 2 /\ Chosen(list, text) = 1 /\ Len(list) = 2
  BY <1>2, <1>5, <1>6
<1>8. CASE list = <<"JsonSerializer", "SimpleSerializer">>
  <2>1. text.form = "words"
    BY <1>7, <1>8 DEF Understands, Parses, SimpleParses
  <2>2. JsonCategory(text) \in {"dpa", "conf"}
    BY <1>5, <1>7, <1>8 DEF ParseCategory
  <2> QED BY <2>1, <2>2 DEF JsonCategory
<1>9. CASE list = <<"SimpleSerializer", "JsonSerializer">>
  BY <1>7, <1>9 DEF Understands, Parses, JsonParses
<1> QED BY <1>2, <1>7, <1>8, <1>9 DEF Lists

\* Spec stays in the invariant.
LEMMA AppInvariant == Spec => []AppInv
BY AppInvInit, AppInvNext, PTL DEF Spec

\* The variables of iqrfapp, the service and the messaging hold values of their types.
THEOREM AppTypeCorrect == Spec => []TypeOK
<1>1. AppInv => TypeOK
  BY DEF AppInv
<1> QED BY <1>1, AppInvariant, PTL

\* What iqrfapp shows for a command answers that command, as long as no wait has timed out and
\* nothing came that nobody had asked for: over any number of requests, timeouts and messages,
\* and with MqMessaging started and stopped at any moment.
THEOREM OwnAnswer == Spec => []ShowsOwnAnswer
<1>1. AppInv => ShowsOwnAnswer
  BY DEF AppInv, Pairing, ShowsOwnAnswer
<1> QED BY <1>1, AppInvariant, PTL

\* The listening thread always meets a queue for its answer, and a request that one of the
\* serializers understands is executed, unless it is JSON behind a SimpleSerializer.
THEOREM RequestServed == Spec => []RequestIsServed
<1>1. AppInv => RequestIsServed
  <2> SUFFICES ASSUME AppInv PROVE UnderstoodIsExecuted
    BY DEF AppInv, RequestIsServed, ChannelInv, TypeOK
  <2>1. serializers \in Lists
    BY DEF AppInv, TypeOK, ServiceTypeOK
  <2> QED BY <2>1, Understood DEF UnderstoodIsExecuted
<1> QED BY <1>1, AppInvariant, PTL

-----------------------------------------------------------------------------
(* UdpMessaging.                                                           *)

Pushed(kind, id) == \E i \in 1..Len(pushed) : pushed[i].kind = kind /\ pushed[i].id = id

\* Between acknowledgement and write.
InWrite ==
    /\ failed = "no" => (udpThread # "idle" => udp = "serving")
    /\ udpThread # "idle" => Pushed("ack", packets)
    /\ udpThread # "idle" /\ ~interrupted => exclusiveChannel

\* What is written, and what is read of it, was acknowledged.
WrittenIsAcknowledged == \A id \in delivered : Pushed("ack", id)

\* Packets are answered as they arrive.
PushedHaveArrived ==
    \A i \in 1..Len(pushed) :
        pushed[i].id <= packets /\ (pushed[i].kind = "ack" => pushed[i].id >= 1)

UdpInv ==
    /\ UdpTypeOK /\ InWrite /\ WrittenIsAcknowledged /\ PushedHaveArrived
    /\ AckPrecedesData /\ AcknowledgedIsWritten /\ UdpThreadSurvives
-----------------------------------------------------------------------------
\* The constructor establishes the invariant.
LEMMA UdpInvInit == UdpInit => UdpInv
<1> SUFFICES ASSUME UdpInit PROVE UdpInv
  OBVIOUS
<1> USE PacketsAreNumbers DEF UdpInit
<1>1. <<>> \in Seq([kind : {"info", "status", "nak", "ack", "data"}, id : 0..MaxPackets])
  OBVIOUS
<1>2. exclusiveChannel \in BOOLEAN /\ mirrors \in BOOLEAN /\ interrupted \in BOOLEAN
  OBVIOUS
<1>3. UdpTypeOK
  BY <1>1, <1>2 DEF UdpTypeOK
<1> QED BY <1>3 DEF UdpInv, InWrite, WrittenIsAcknowledged, PushedHaveArrived,
               AckPrecedesData, AcknowledgedIsWritten, UdpThreadSurvives, Pushed

\* What is in a sequence is of the set the sequence is over.
LEMMA ElementOf == ASSUME NEW S, NEW s \in Seq(S), NEW i \in 1..Len(s) PROVE s[i] \in S
OBVIOUS

\* A push leaves what was pushed before where it is.
LEMMA PushAppends ==
    ASSUME UdpTypeOK, NEW kind \in {"info", "status", "nak", "ack", "data"},
           NEW id \in 0..MaxPackets, NEW thread \in {"udp", "iqrf", "worker"},
           PushToQueue(kind, id, thread)
    PROVE  /\ pushed' \in Seq([kind : {"info", "status", "nak", "ack", "data"}, id : 0..MaxPackets])
           /\ \A i \in 1..Len(pushed) : i \in 1..Len(pushed') /\ pushed'[i] = pushed[i]
           /\ \/ pushed' = pushed
              \/ /\ Len(pushed') = Len(pushed) + 1
                 /\ pushed'[Len(pushed) + 1] = [kind |-> kind, id |-> id]
           /\ HasUdpQueue => failed' = failed /\ Len(pushed') = Len(pushed) + 1
           /\ failed' = failed \/ failed' = thread
<1> USE PacketsAreNumbers DEF UdpTypeOK
<1>1. [kind |-> kind, id |-> id] \in
         [kind : {"info", "status", "nak", "ack", "data"}, id : 0..MaxPackets]
  OBVIOUS
<1>2. CASE HasUdpQueue
  <2>1. pushed' = Append(pushed, [kind |-> kind, id |-> id]) /\ failed' = failed
    BY <1>2 DEF PushToQueue
  <2> QED BY <1>1, <2>1
<1>3. CASE ~HasUdpQueue
  <2>1. pushed' = pushed /\ failed' = thread
    BY <1>3 DEF PushToQueue
  <2> QED BY <1>3, <2>1
<1> QED BY <1>2, <1>3

\* Steps that push nothing: start(), stop(), the mode and the write itself.
LEMMA QuietStep ==
    ASSUME UdpInv, failed = "no",
           \/ MakeUdpChannel \/ MakeUdpQueue \/ RegisterUdpReceive \/ DeleteUdpChannel \/ DeleteUdpQueue
           \/ TestExclusive \/ UseExclusive
           \/ SetExclusive \/ RegisterExclusive \/ ResetExclusive \/ LeaveService
    PROVE  UdpInv'
<1> USE PacketsAreNumbers DEF UdpInv, UdpTypeOK, ProceedUdp
<1>1. /\ pushed' = pushed /\ packets' = packets /\ other' = other
      /\ delivered \subseteq delivered' /\ delivered' \subseteq delivered \union {packets}
      /\ delivered' # delivered => udpThread = "use"
  BY DEF MakeUdpChannel, MakeUdpQueue, RegisterUdpReceive, DeleteUdpChannel, DeleteUdpQueue, TestExclusive,
         UseExclusive, SetExclusive, RegisterExclusive, ResetExclusive, LeaveService
<1>2. udpThread = "use" => packets \in 1..packets
  BY DEF InWrite, Pushed, PushedHaveArrived
<1>3. /\ udp' \in {"made", "channel", "queue", "serving", "channelDeleted", "stopped"}
      /\ exclusiveChannel' \in BOOLEAN /\ mirrors' \in BOOLEAN /\ interrupted' \in BOOLEAN
      /\ udpThread' \in {"idle", "test", "use"} /\ failed' \in {"no", "udp"}
      /\ receiver' \in {"dpaHandler", "udp"} /\ written' \subseteq delivered'
  BY DEF MakeUdpChannel, MakeUdpQueue, RegisterUdpReceive, DeleteUdpChannel, DeleteUdpQueue, TestExclusive,
         UseExclusive, SetExclusive, RegisterExclusive, ResetExclusive, LeaveService
<1>4. UdpTypeOK'
  BY <1>1, <1>2, <1>3
<1>5. InWrite'
  BY <1>1 DEF InWrite, Pushed, MakeUdpChannel, MakeUdpQueue, RegisterUdpReceive, DeleteUdpChannel, DeleteUdpQueue,
              TestExclusive, UseExclusive, SetExclusive, RegisterExclusive, ResetExclusive, LeaveService
<1>6. WrittenIsAcknowledged' /\ PushedHaveArrived' /\ AckPrecedesData'
  BY <1>1 DEF InWrite, Pushed, WrittenIsAcknowledged, PushedHaveArrived, AckPrecedesData
<1>7. AcknowledgedIsWritten'
  BY <1>1 DEF InWrite, AcknowledgedIsWritten, MakeUdpChannel, MakeUdpQueue, RegisterUdpReceive,
              DeleteUdpChannel, DeleteUdpQueue, TestExclusive, UseExclusive, SetExclusive, RegisterExclusive,
              ResetExclusive, LeaveService
<1>8. UdpThreadSurvives'
  BY DEF InWrite, UdpThreadSurvives, MakeUdpChannel, MakeUdpQueue, RegisterUdpReceive, DeleteUdpChannel,
         DeleteUdpQueue, TestExclusive, UseExclusive, SetExclusive, RegisterExclusive, ResetExclusive, LeaveService
<1> QED BY <1>4, <1>5, <1>6, <1>7, <1>8

\* A packet is answered, or a write is acknowledged.
LEMMA PacketStep ==
    ASSUME UdpInv, failed = "no",
           (\E kind \in {"info", "status", "nak"} : Answer(kind)) \/ AcknowledgeWrite
    PROVE  UdpInv'
<1> USE PacketsAreNumbers DEF UdpInv, UdpTypeOK
<1>1. PICK kind \in {"info", "status", "nak", "ack"} :
         /\ PushToQueue(kind, packets + 1, "udp")
         /\ kind = "ack" <=> udpThread' # "idle"
         /\ kind = "ack" => interrupted' = ~exclusiveChannel
         /\ kind # "ack" => interrupted' = interrupted
  BY DEF Answer, AcknowledgeWrite
<1>2. /\ udp = "serving" /\ udpThread = "idle" /\ packets < MaxPackets /\ packets' = packets + 1
      /\ udpThread' \in {"idle", "test"}
      /\ UNCHANGED <<udp, exclusiveChannel, receiver, mirrors, written, other, delivered>>
  BY DEF Answer, AcknowledgeWrite
<1>3. packets + 1 \in 0..MaxPackets
  BY <1>2
<1>4. /\ pushed' \in Seq([kind : {"info", "status", "nak", "ack", "data"}, id : 0..MaxPackets])
      /\ \A i \in 1..Len(pushed) : i \in 1..Len(pushed') /\ pushed'[i] = pushed[i]
      /\ Len(pushed') = Len(pushed) + 1
      /\ pushed'[Len(pushed) + 1] = [kind |-> kind, id |-> packets + 1]
      /\ failed' = failed
  <2>1. kind \in {"info", "status", "nak", "ack", "data"} /\ HasUdpQueue
    BY <1>2 DEF HasUdpQueue
  <2>2. /\ pushed' = Append(pushed, [kind |-> kind, id |-> packets + 1])
        /\ failed' = failed
    BY <1>1, <2>1 DEF PushToQueue
  <2>3. [kind |-> kind, id |-> packets + 1] \in
           [kind : {"info", "status", "nak", "ack", "data"}, id : 0..MaxPackets]
    BY <1>3, <2>1
  <2> QED BY <2>2, <2>3
<1>5. \A k, id : Pushed(k, id) => Pushed(k, id)'
  BY <1>4 DEF Pushed
<1>6. kind = "ack" => Pushed("ack", packets)'
  BY <1>2, <1>4 DEF Pushed
<1>7. \A i \in 1..Len(pushed') :
        i \in 1..Len(pushed) \/ pushed'[i] = [kind |-> kind, id |-> packets + 1]
  BY <1>4
<1>8. UdpTypeOK'
  <2>1. interrupted' \in BOOLEAN
    BY <1>1
  <2> QED BY <1>2, <1>3, <1>4, <2>1
<1>9. InWrite'
  BY <1>1, <1>2, <1>4, <1>6 DEF InWrite
<1>10. WrittenIsAcknowledged'
  BY <1>2, <1>5 DEF WrittenIsAcknowledged
<1>11. PushedHaveArrived'
  <2> SUFFICES ASSUME NEW i \in 1..Len(pushed')
               PROVE  pushed'[i].id <= packets' /\ (pushed'[i].kind = "ack" => pushed'[i].id >= 1)
    BY DEF PushedHaveArrived
  <2>1. CASE i \in 1..Len(pushed)
    <3>1. pushed'[i] = pushed[i]
      BY <1>4, <2>1
    <3>2. pushed[i] \in [kind : {"info", "status", "nak", "ack", "data"}, id : 0..MaxPackets]
      BY <2>1, ElementOf
    <3> QED BY <1>2, <2>1, <3>1, <3>2 DEF PushedHaveArrived
  <2>2. CASE pushed'[i] = [kind |-> kind, id |-> packets + 1]
    BY <1>2, <2>2
  <2> QED BY <1>7, <2>1, <2>2
<1>12. AckPrecedesData'
  <2> SUFFICES ASSUME NEW j \in 1..Len(pushed'), pushed'[j].kind = "data", pushed'[j].id # 0
               PROVE  \E i \in 1..(j - 1) :
                         pushed'[i].kind = "ack" /\ pushed'[i].id = pushed'[j].id
    BY DEF AckPrecedesData
  <2>1. j \in 1..Len(pushed) /\ pushed'[j] = pushed[j]
    BY <1>4, <1>7
  <2>2. PICK i \in 1..(j - 1) : pushed[i].kind = "ack" /\ pushed[i].id = pushed[j].id
    BY <2>1 DEF AckPrecedesData
  <2>3. i \in 1..Len(pushed)
    BY <2>1
  <2> QED BY <1>4, <2>1, <2>2, <2>3
<1>13. AcknowledgedIsWritten'
  <2> SUFFICES ASSUME udpThread' = "idle", NEW i \in 1..Len(pushed'),
                      pushed'[i].kind = "ack", pushed'[i].id = packets'
               PROVE  FALSE
    BY DEF AcknowledgedIsWritten
  <2>1. kind # "ack"
    BY <1>1
  <2>2. i \in 1..Len(pushed) /\ pushed'[i] = pushed[i]
    BY <1>4, <1>7, <2>1
  <2> QED BY <1>2, <2>2 DEF PushedHaveArrived
<1>14. UdpThreadSurvives'
  BY <1>4 DEF UdpThreadSurvives
<1> QED BY <1>8, <1>9, <1>10, <1>11, <1>12, <1>13, <1>14

\* The TR module answers a write, or says something on its own.
LEMMA DataStep ==
    ASSUME UdpInv, failed = "no", (\E id \in written : TrAnswers(id)) \/ SendOther
    PROVE  UdpInv'
<1> USE PacketsAreNumbers DEF UdpInv, UdpTypeOK
<1>1. /\ UNCHANGED <<udp, exclusiveChannel, receiver, mirrors, udpThread, packets, interrupted,
                     delivered>>
      /\ written' \subseteq delivered /\ other' \in 0..MaxOther
  <2>1. CASE SendOther
    <3>1. other' \in 0..MaxOther
      BY <2>1 DEF SendOther
    <3> QED BY <2>1, <3>1 DEF SendOther
  <2>2. ASSUME NEW id \in written, TrAnswers(id) PROVE <1>1!:
    BY <2>2 DEF TrAnswers
  <2> QED BY <2>1, <2>2
<1>2. CASE pushed' = pushed /\ failed' \in {"no", "iqrf", "worker"}
  BY <1>1, <1>2 DEF InWrite, Pushed, WrittenIsAcknowledged, PushedHaveArrived, AckPrecedesData,
                    AcknowledgedIsWritten, UdpThreadSurvives
<1>3. ASSUME NEW id \in delivered \union {0}, NEW thread \in {"iqrf", "worker"},
             PushToQueue("data", id, thread)
      PROVE  UdpInv'
  <2>0. id \in 0..MaxPackets /\ id <= packets
    OBVIOUS
  <2>1. /\ pushed' \in Seq([kind : {"info", "status", "nak", "ack", "data"}, id : 0..MaxPackets])
        /\ \A i \in 1..Len(pushed) : i \in 1..Len(pushed') /\ pushed'[i] = pushed[i]
        /\ \/ pushed' = pushed
           \/ /\ Len(pushed') = Len(pushed) + 1
              /\ pushed'[Len(pushed) + 1] = [kind |-> "data", id |-> id]
        /\ failed' \in {"no", "iqrf", "worker"}
    BY <1>3, <2>0, PushAppends
  <2>2. \A k, n : Pushed(k, n) => Pushed(k, n)'
    BY <2>1 DEF Pushed
  <2>3. \A i \in 1..Len(pushed') :
          \/ i \in 1..Len(pushed)
          \/ i = Len(pushed) + 1 /\ pushed'[i] = [kind |-> "data", id |-> id]
    BY <2>1
  <2>4. UdpTypeOK'
    BY <1>1, <2>1
  <2>5. InWrite' /\ WrittenIsAcknowledged' /\ UdpThreadSurvives'
    BY <1>1, <2>1, <2>2 DEF InWrite, WrittenIsAcknowledged, UdpThreadSurvives
  <2>6. PushedHaveArrived'
    <3> SUFFICES ASSUME NEW i \in 1..Len(pushed')
                 PROVE  /\ pushed'[i].id <= packets'
                        /\ pushed'[i].kind = "ack" => pushed'[i].id >= 1
      BY DEF PushedHaveArrived
    <3>1. CASE i \in 1..Len(pushed)
      <4>1. pushed'[i] = pushed[i]
        BY <2>1, <3>1
      <4>2. pushed[i].id <= packets /\ (pushed[i].kind = "ack" => pushed[i].id >= 1)
        BY <3>1 DEF PushedHaveArrived
      <4> QED BY <1>1, <4>1, <4>2
    <3>2. CASE i = Len(pushed) + 1 /\ pushed'[i] = [kind |-> "data", id |-> id]
      BY <1>1, <2>0, <3>2
    <3> QED BY <2>3, <3>1, <3>2
  <2>7. AckPrecedesData'
    <3> SUFFICES ASSUME NEW j \in 1..Len(pushed'),
                        pushed'[j].kind = "data", pushed'[j].id # 0
                 PROVE  \E i \in 1..(j - 1) :
                           pushed'[i].kind = "ack" /\ pushed'[i].id = pushed'[j].id
      BY DEF AckPrecedesData
    <3>1. CASE j \in 1..Len(pushed)
      <4>1. pushed'[j] = pushed[j]
        BY <2>1, <3>1
      <4>2. PICK i \in 1..(j - 1) : pushed[i].kind = "ack" /\ pushed[i].id = pushed[j].id
        BY <3>1, <4>1 DEF AckPrecedesData
      <4>3. i \in 1..Len(pushed)
        BY <3>1
      <4>4. pushed'[i] = pushed[i]
        BY <2>1, <4>3
      <4> QED BY <4>1, <4>2, <4>4
    <3>2. CASE j = Len(pushed) + 1 /\ pushed'[j] = [kind |-> "data", id |-> id]
      <4>0. id # 0
        BY <3>2
      <4>1. Pushed("ack", id)
        BY <4>0 DEF WrittenIsAcknowledged
      <4>2. PICK i \in 1..Len(pushed) : pushed[i].kind = "ack" /\ pushed[i].id = id
        BY <4>1 DEF Pushed
      <4>3. i \in 1..(j - 1)
        BY <3>2
      <4>4. pushed'[i] = pushed[i]
        BY <2>1
      <4> QED BY <3>2, <4>2, <4>3, <4>4
    <3> QED BY <2>3, <3>1, <3>2
  <2>8. AcknowledgedIsWritten'
    BY <1>1, <2>1, <2>3, SMTT(30) DEF AcknowledgedIsWritten
  <2> QED BY <2>4, <2>5, <2>6, <2>7, <2>8
<1> QED BY <1>2, <1>3 DEF TrAnswers, SendOther

LEMMA UdpInvNext == UdpInv /\ [UdpNext]_udpVars => UdpInv'
<1> SUFFICES ASSUME UdpInv, [UdpNext]_udpVars PROVE UdpInv'
  OBVIOUS
<1>1. CASE UdpNext
  BY <1>1, QuietStep, PacketStep, DataStep DEF UdpNext, UdpThread
<1>2. CASE UNCHANGED udpVars
  BY <1>2 DEF udpVars, UdpInv, UdpTypeOK, InWrite, Pushed, WrittenIsAcknowledged, PushedHaveArrived,
              AckPrecedesData, AcknowledgedIsWritten, UdpThreadSurvives
<1> QED BY <1>1, <1>2

-----------------------------------------------------------------------------
LEMMA UdpInvariant == UdpSpec => []UdpInv
BY UdpInvInit, UdpInvNext, PTL DEF UdpSpec

\* The variables hold values of their types, for any numbers of packets and messages.
THEOREM UdpTypeCorrect == UdpSpec => []UdpTypeOK
<1>1. UdpInv => UdpTypeOK
  BY DEF UdpInv
<1> QED BY <1>1, UdpInvariant, PTL

\* The IDE is told the truth about its writes, in the order in which things happened: a write
\* is acknowledged before the data that it brings, and what was acknowledged has reached the
\* TR module, but for an exclusive access that ended.
THEOREM AcksTellTruth == UdpSpec => []AcksAreTrue
<1>1. UdpInv => AcksAreTrue
  BY DEF UdpInv, AcksAreTrue
<1> QED BY <1>1, UdpInvariant, PTL

\* The UDP thread fails only where resetExclusive comes between its test and its use.
THEOREM UdpThreadFailsOnlyInRace == UdpSpec => []UdpThreadSurvives
<1>1. UdpInv => UdpThreadSurvives
  BY DEF UdpInv
<1> QED BY <1>1, UdpInvariant, PTL
=============================================================================

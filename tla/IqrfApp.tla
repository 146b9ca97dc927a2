------------------------------ MODULE IqrfApp ------------------------------
(***************************************************************************)
(* iqrfapp, the client at the other end of the message queue. The main     *)
(* thread sends a command and waits for m_flagMessageReceived, which the   *)
(* worker of m_msgQueue sets with every message that comes. Nothing tells  *)
(* whether the message answers the command. It runs the one command it is   *)
(* called with, or, called without, asks for one after the other; then it   *)
(* deletes its queue and the channel.                                       *)
(***************************************************************************)
EXTENDS MqService, Integers

CONSTANTS
    Timeouts,       \* integers a user may name
    Configured,     \* what DefaultTimeout of iqrfapp.json may be, -1 for none
    BuiltinTimeout  \* the 5000 of m_actualTimeout and m_defaultTimeout

ASSUME TimeoutsAreNumbers ==
    Timeouts \subseteq Int /\ Configured \subseteq Int /\ BuiltinTimeout \in Nat \ {0}

VARIABLES
    interactive,    \* called without parameters
    defaultTimeout, \* m_defaultTimeout
    place,          \* of the main thread
    command,        \* the command it runs
    request,        \* the number of the last request
    actualTimeout,  \* m_actualTimeout
    flag,           \* m_flagMessageReceived
    message,        \* m_messageReceived, -1 for none
    shown,          \* history: the request and the message shown for it
    gaveUp,         \* history: some wait has timed out
    strayed         \* history: a message came that nobody had asked for

callVars == <<interactive, defaultTimeout>>
waitVars == <<request, actualTimeout, flag, message>>
historyVars == <<shown, gaveUp, strayed>>
appVars == <<callVars, place, command, waitVars, historyVars>>
vars == <<serviceVars, appVars>>

\* What a command sends. "json <object>" is sent with its first word, "<object> ", a line
\* that ends with a blank, twice.
Sent(cmd) ==
    {t \in Texts :
        \/ cmd = "raw" /\ t.form = "words" /\ t.category = "raw"
        \/ cmd = "conf" /\ t.form = "words" /\ t.category = "conf" /\ t.good
        \/ cmd = "json" /\ (t.form = "json" \/ (t.category = "json" /\ t.good))}

Asking == {"raw", "conf", "json"}
Listening == {"readonly", "readall"}

\* A line: its words, and whether a blank ends it, so that eof comes after a failed read
\* that leaves the last word, which is pushed again.
Lines == [words : 1..4, blank : BOOLEAN]
Doubled(line) == interactive /\ line.blank
Params(line) == line.words + (IF Doubled(line) THEN 1 ELSE 0)

Expected ==
    [cmd \in Asking \union Listening |->
       CASE cmd = "raw" -> {2, 4} [] cmd = "conf" -> {2} [] cmd = "json" -> {1, 2}
         [] cmd = "readonly" -> {1, 3} [] cmd = "readall" -> {1}]

\* The words are as many as expected; "raw raw" and "{} {}" are what can be doubled.
IsAccepted(cmd, line) ==
    /\ Params(line) \in Expected[cmd]
    /\ Doubled(line) => cmd \in {"raw", "json"} /\ line.words = 1

NamesTimeout(cmd, line) ==
    cmd = "json" \/ (cmd = "raw" /\ line.words = 4) \/ (cmd = "readonly" /\ line.words = 3)

\* The constructor.
Init ==
    /\ ServiceInit
    /\ interactive \in BOOLEAN
    /\ \E timeout \in Configured :
         defaultTimeout = IF timeout >= 0 THEN timeout ELSE BuiltinTimeout
    /\ place = "opening" /\ command = "none" /\ request = 0
    /\ actualTimeout = BuiltinTimeout /\ flag = FALSE /\ message = -1
    /\ shown = <<0, 0>> /\ gaveUp = FALSE /\ strayed = FALSE

AfterCommand == IF interactive THEN "prompt" ELSE "quit"

\* run(): the channel is ready in time, or that was it.
Open ==
    /\ place = "opening" /\ place' \in {"prompt", "quit"}
    /\ UNCHANGED <<serviceVars, callVars, command, waitVars, historyVars>>

-----------------------------------------------------------------------------
\* setTimeout: a negative time stands for the configured one.
SetTimeout(timeout) ==
    actualTimeout' = IF timeout >= 0 THEN timeout ELSE defaultTimeout

\* What a line may name, or the default.
NamedTimeouts(cmd, line) == IF NamesTimeout(cmd, line) THEN Timeouts ELSE {defaultTimeout}

\* runCmd, until the message is sent: conf leaves the timeout as it was.
Ask(cmd, line, timeout) ==
    /\ place = "prompt" /\ request < MaxRequests /\ IsAccepted(cmd, line)
    /\ place' = "send" /\ command' = cmd /\ request' = request + 1
    /\ IF cmd = "conf" THEN UNCHANGED actualTimeout ELSE SetTimeout(timeout)
    /\ UNCHANGED <<serviceVars, callVars, flag, message, historyVars>>

Listen(cmd, line, timeout) ==
    /\ place = "prompt" /\ IsAccepted(cmd, line)
    /\ place' = "lock" /\ command' = cmd
    /\ SetTimeout(IF cmd = "readall" THEN 0 ELSE timeout)
    /\ UNCHANGED <<serviceVars, callVars, request, flag, message, historyVars>>

\* The help, asked for or in place of a line that is not as expected.
Help ==
    /\ place = "prompt" /\ place' = AfterCommand /\ command' = "help"
    /\ UNCHANGED <<serviceVars, callVars, waitVars, historyVars>>

\* "exit" ends interactiveCmd; the end of its input does not.
Exit ==
    /\ place = "prompt" /\ place' = "quit" /\ command' = "exit"
    /\ UNCHANGED <<serviceVars, callVars, waitVars, historyVars>>

\* sendParamsAsMessage. A failure is printed, and waited for all the same.
SendParams ==
    /\ place = "send" /\ place' = "lock"
    /\ \/ /\ messaging \in {"channel", "queue", "serving"}
          /\ \E text \in Sent(command) :
               toDaemon' = Append(toDaemon, [id |-> request, text |-> text])
       \/ UNCHANGED toDaemon
    /\ UNCHANGED <<serializers, messaging, handled, outQueue, toClient, unsolicited, crashed,
                   callVars, command, waitVars, historyVars>>

HasMsgQueue == place \notin {"queueDeleted", "ended", "crashed"}
Stray(id) == strayed' = (strayed \/ id = 0)

\* handleMessageReceived, on the worker of m_msgQueue.
Receive ==
    /\ HasMsgQueue
    /\ toClient # <<>> /\ toClient' = Tail(toClient)
    /\ message' = Head(toClient) /\ flag' = TRUE /\ Stray(Head(toClient))
    /\ UNCHANGED <<serializers, messaging, toDaemon, handled, outQueue, unsolicited, crashed,
                   callVars, place, command, request, actualTimeout, shown, gaveUp>>

\* Mutant: the flag is reset before the wait.
MutantLock ==
    /\ place = "lock" /\ place' = "wait" /\ flag' = FALSE
    /\ UNCHANGED <<serviceVars, callVars, command, request, actualTimeout, message, historyVars>>

\* waitForMessageReceived takes the mutex;
Lock ==
    /\ place = "lock" /\ place' = "wait"
    /\ UNCHANGED <<serviceVars, callVars, command, waitVars, historyVars>>

\* Mutant: the flag stays up.
MutantWaitEnds ==
    /\ place = "wait" /\ flag /\ place' = "show"
    /\ UNCHANGED <<serviceVars, callVars, command, waitVars, historyVars>>

\* the flag is up,
WaitEnds ==
    /\ place = "wait" /\ flag
    /\ place' = "show" /\ flag' = FALSE
    /\ UNCHANGED <<serviceVars, callVars, command, request, actualTimeout, message, historyVars>>

\* or the time is over. Without a positive timeout it never is.
TimesOut ==
    /\ place = "wait" /\ ~flag /\ actualTimeout > 0
    /\ place' = AfterCommand /\ gaveUp' = TRUE
    /\ UNCHANGED <<serviceVars, callVars, command, waitVars, shown, strayed>>

\* showWaitForMessageReceivedResult reads the message without the mutex. readall goes on.
Show ==
    /\ place = "show"
    /\ place' = IF command = "readall" THEN "lock" ELSE AfterCommand
    /\ shown' = IF command \in Asking THEN <<request, message>> ELSE shown
    /\ UNCHANGED <<serviceVars, callVars, command, waitVars, gaveUp, strayed>>

Waiting == Lock \/ WaitEnds \/ TimesOut \/ Show

\* ~Iqrfapp: the queue and what is in it,
DeleteMsgQueue ==
    /\ place = "quit" /\ place' = "queueDeleted"
    /\ \E n \in 0..Len(toClient) : toClient' = SubSeq(toClient, n + 1, Len(toClient))
    /\ UNCHANGED <<serializers, messaging, toDaemon, handled, outQueue, unsolicited, crashed,
                   callVars, command, waitVars, historyVars>>

\* to which the channel still pushes,
PushToDeleted ==
    /\ place = "queueDeleted" /\ toClient # <<>>
    /\ place' = "crashed" /\ Stray(Head(toClient))
    /\ UNCHANGED <<serviceVars, callVars, command, waitVars, shown, gaveUp>>

\* until it is deleted.
DeleteMqChannel ==
    /\ place = "queueDeleted" /\ place' = "ended"
    /\ UNCHANGED <<serviceVars, callVars, command, waitVars, historyVars>>

Prompt ==
    \E line \in Lines :
      \/ \E cmd \in Asking : \E timeout \in NamedTimeouts(cmd, line) : Ask(cmd, line, timeout)
      \/ \E cmd \in Listening : \E timeout \in NamedTimeouts(cmd, line) : Listen(cmd, line, timeout)

Next ==
    \/ ServiceNext /\ UNCHANGED appVars
    \/ Open \/ Prompt \/ Help \/ Exit
    \/ SendParams \/ Receive \/ Waiting
    \/ DeleteMsgQueue \/ PushToDeleted \/ DeleteMqChannel

Spec == Init /\ [][Next]_vars

ListenerStep == crashed = "no" /\ Listener /\ UNCHANGED appVars
SendStep == crashed = "no" /\ SendTo /\ UNCHANGED appVars

\* A transaction ends, and threads that can go on do. Nobody has to type a command.
FairSpec ==
    Spec /\ WF_vars(ListenerStep) /\ WF_vars(SendStep) /\ WF_vars(Receive) /\ WF_vars(Waiting)

-----------------------------------------------------------------------------
TypeOK ==
    /\ ServiceTypeOK
    /\ interactive \in BOOLEAN /\ defaultTimeout \in Nat
    /\ place \in {"opening", "prompt", "send", "lock", "wait", "show",
                 "quit", "queueDeleted", "ended", "crashed"}
    /\ command \in Asking \union Listening \union {"none", "help", "exit"}
    /\ request \in 0..MaxRequests /\ actualTimeout \in Nat
    /\ flag \in BOOLEAN /\ gaveUp \in BOOLEAN /\ strayed \in BOOLEAN
    /\ message \in -1..MaxRequests /\ shown \in (0..MaxRequests) \X (-1..MaxRequests)

\* What is shown for a command is the answer to it, and nothing is pushed to the deleted
\* queue, as long as no command has given up waiting and no message came that nobody had
\* asked for.
ShowsOwnAnswer ==
    ~gaveUp /\ ~strayed => shown[1] = shown[2] /\ place # "crashed"

\* A command that reached the daemon does not wait for ever, not even without a
\* timeout, while MqMessaging serves.
Reached ==
    /\ command \in Asking /\ place = "lock" /\ messaging = "serving"
    /\ \E i \in 1..Len(toDaemon) : toDaemon[i].id = request
CommandEnds == Reached ~> place \in {"show", "prompt", "quit"} \/ messaging # "serving" \/ crashed # "no"
=============================================================================

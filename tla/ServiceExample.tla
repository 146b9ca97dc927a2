--------------------------- MODULE ServiceExample ---------------------------
(***************************************************************************)
(* src/examples/iqrf_frc_example: thermometers that sleep are found with   *)
(* an FRC and then read one by one, and sent to sleep again until the next *)
(* reading. PulseMeters, whose service has the same structure, has its     *)
(* interleavings; here a handler is one step, and the configuration counts *)
(* (it may name a node twice, or the node 0), with the periods.            *)
(***************************************************************************)
EXTENDS Integers, Sequences, FiniteSets

CONSTANTS
    ExampleConfigurations,  \* [frcPeriod, sleepPeriod : Int, pattern : BOOLEAN, nodes : sequences]
    MaxMessages,     \* bound on the messages sent
    MaxFound         \* bound on the queue of those that were found

ASSUME ServiceExampleAssumption ==
    /\ \A cfg \in ExampleConfigurations :
         /\ cfg.frcPeriod \in Int /\ cfg.sleepPeriod \in Int /\ cfg.pattern \in BOOLEAN
         /\ cfg.nodes \in Seq(Nat)
    /\ MaxMessages \in Nat /\ MaxFound \in Nat

VARIABLES
    state,           \* "made", "refused", "started", "stopped"
    frcPeriod, sleepPeriod,
    watched,         \* m_watchedThermometers: [adr, sync, handle]
    records,         \* the service's records in the Scheduler: [handle, task, period]
    frc,             \* m_frcHandle while m_frcActive
    fire,            \* tasks on their way to the service
    found,           \* m_taskQueue, positions in watched
    asleep,          \* history: for how long a thermometer was sent to sleep, or -1
    messages,        \* how many were sent
    givenUp          \* history: addresses whose reading failed for another reason than a timeout

exampleVars == <<state, frcPeriod, sleepPeriod, watched, records, frc, fire, found, asleep,
                 messages, givenUp>>

FrcTask == <<"SND_FRC">>
ReadTask(adr) == <<"SND_THM", adr>>
TaskHandleInvalid == 0
Uint16(n) == n % 65536

\* The invalid handle is never drawn, nor one that is in use.
FreshHandle(used) == CHOOSE h \in 1..(Cardinality(used) + 1) : h \notin {r.handle : r \in used}
Scheduled(used, task, period) ==
    used \union {[handle |-> FreshHandle(used), task |-> task, period |-> period]}
Without(used, handle) == {r \in used : r.handle # handle}

\* A thermometer that is neither synced nor scheduled.
ScheduleDpaTask(adr) == [adr |-> adr, sync |-> FALSE, handle |-> TaskHandleInvalid]

ExampleInit ==
    /\ state = "made" /\ frcPeriod = 5 /\ sleepPeriod = 60
    /\ watched = <<>> /\ records = {} /\ frc = TaskHandleInvalid
    /\ fire = {} /\ found = <<>> /\ asleep = -1 /\ messages = 0 /\ givenUp = {}

\* updateConfiguration: the periods are cut to 16 bits, and stay when the pattern is missing.
UpdateConfiguration(cfg) ==
    /\ state = "made" /\ watched = <<>>
    /\ frcPeriod' = Uint16(cfg.frcPeriod) /\ sleepPeriod' = Uint16(cfg.sleepPeriod)
    /\ IF cfg.pattern
         THEN /\ watched' = [i \in 1..Len(cfg.nodes) |-> ScheduleDpaTask(cfg.nodes[i])]
              /\ UNCHANGED state
         ELSE state' = "refused" /\ UNCHANGED watched
    /\ UNCHANGED <<records, frc, fire, found, asleep, messages, givenUp>>

\* Mutant: the record of the FRC is forgotten instead of removed.
MutantSetFrcActive(val, left) ==
    IF val = (frc # TaskHandleInvalid) THEN records' = left /\ UNCHANGED frc
    ELSE IF val THEN /\ records' = Scheduled(left, FrcTask, frcPeriod)
                     /\ frc' = FreshHandle(left)
    ELSE records' = left /\ frc' = TaskHandleInvalid

\* setFrc on the records that are left by the caller.
SetFrcActive(val, left) ==
    IF val = (frc # TaskHandleInvalid) THEN records' = left /\ UNCHANGED frc
    ELSE IF val THEN /\ records' = Scheduled(left, FrcTask, frcPeriod)
                     /\ frc' = FreshHandle(left)
    ELSE records' = Without(left, frc) /\ frc' = TaskHandleInvalid

\* start(): removeAllMyTasks, registerMessageHandler, setFrc(true).
StartService ==
    /\ state = "made" /\ watched # <<>> /\ state' = "started"
    /\ SetFrcActive(TRUE, {})
    /\ UNCHANGED <<frcPeriod, sleepPeriod, watched, fire, found, asleep, messages, givenUp>>

\* stop(): the queue's worker is joined, what waits in it is forgotten, and the records stay.
StopService ==
    /\ state = "started" /\ state' = "stopped"
    /\ found' = <<>>
    /\ UNCHANGED <<frcPeriod, sleepPeriod, watched, records, frc, fire, asleep, messages, givenUp>>

\* The Scheduler fires a record; handleTaskFromScheduler may come after the record's removal.
FireTask(record) ==
    /\ state = "started" /\ fire' = fire \union {record.task}
    /\ UNCHANGED <<state, frcPeriod, sleepPeriod, watched, records, frc, found, asleep, messages, givenUp>>

Handled(task) == state = "started" /\ task \in fire /\ fire' = fire \ {task}

-----------------------------------------------------------------------------
\* processFrcFromScheduler: an error of the transaction leaves everything.
FrcFails ==
    /\ Handled(FrcTask)
    /\ UNCHANGED <<state, frcPeriod, sleepPeriod, watched, records, frc, found, asleep, messages, givenUp>>

Positions == 1..Len(watched)

\* The elements of a set of positions in their order.
InOrder(set) ==
    {s \in [1..Cardinality(set) -> set] :
       (\A i \in set : \E k \in DOMAIN s : s[k] = i) /\ \A k, l \in DOMAIN s : k < l => s[k] < s[l]}

\* Who answered is queued; the FRC goes on for those who did not.
ProcessFrc(alive) ==
    LET answers == {i \in Positions : ~watched[i].sync /\ watched[i].adr \in alive} IN
    /\ Handled(FrcTask)
    /\ found' \in {found \o s : s \in InOrder(answers)} /\ Len(found') <= MaxFound
    /\ SetFrcActive(\E i \in Positions \ answers : ~watched[i].sync, records)
    /\ UNCHANGED <<state, frcPeriod, sleepPeriod, watched, asleep, messages, givenUp>>

\* processPrfThermometerFromTaskQueue, with scheduleTaskPeriodic of ScheduleDpaTask.
ProcessFound ==
    LET i == Head(found)
        left == Without(records, watched[i].handle)
    IN  /\ state = "started" /\ found # <<>> /\ found' = Tail(found)
        /\ IF watched[i].sync THEN UNCHANGED <<watched, records>>
           ELSE /\ watched' = [watched EXCEPT ![i].sync = TRUE, ![i].handle = FreshHandle(left)]
                /\ records' = Scheduled(left, ReadTask(watched[i].adr), sleepPeriod)
        /\ UNCHANGED <<state, frcPeriod, sleepPeriod, frc, fire, asleep, messages, givenUp>>

\* processPrfThermometerFromScheduler: the address 0 is invalid;
InvalidAddress ==
    /\ Handled(ReadTask(0))
    /\ UNCHANGED <<state, frcPeriod, sleepPeriod, watched, records, frc, found, asleep, messages, givenUp>>

\* the first thermometer of an address is read, and sent to sleep until shortly before the
\* next reading, whatever the reading gave. A result is sent; after a timeout the thermometer
\* is sought again; after another error it is not read again.
SleepPeriod == IF sleepPeriod > 2 THEN sleepPeriod - 2 ELSE 0
First(i) == \A j \in 1..(i - 1) : watched[j].adr # watched[i].adr
ReadThermometer(i, result) ==
    LET adr == watched[i].adr
        left == Without(records, watched[i].handle)
    IN  /\ First(i) /\ adr # 0 /\ Handled(ReadTask(adr))
        /\ asleep' = SleepPeriod
        /\ \/ /\ result = "data" /\ messages < MaxMessages /\ messages' = messages + 1
              /\ UNCHANGED <<watched, records, frc, givenUp>>
           \/ /\ result = "timeout"
              /\ watched' = [watched EXCEPT ![i].sync = FALSE, ![i].handle = TaskHandleInvalid]
              /\ SetFrcActive(TRUE, left) /\ UNCHANGED <<messages, givenUp>>
           \/ /\ result = "error"
              /\ watched' = [watched EXCEPT ![i].handle = TaskHandleInvalid]
              /\ records' = left /\ givenUp' = givenUp \union {adr} /\ UNCHANGED <<messages, frc>>
        /\ UNCHANGED <<state, frcPeriod, sleepPeriod, found>>

Nodes == {watched[i].adr : i \in Positions}
ExampleNext ==
    \/ \E cfg \in ExampleConfigurations : UpdateConfiguration(cfg)
    \/ StartService \/ StopService \/ FrcFails \/ ProcessFound \/ InvalidAddress
    \/ \E record \in records : FireTask(record)
    \/ \E alive \in SUBSET Nodes : ProcessFrc(alive)
    \/ \E i \in Positions, result \in {"data", "timeout", "error"} : ReadThermometer(i, result)

ExampleSpec == ExampleInit /\ [][ExampleNext]_exampleVars

-----------------------------------------------------------------------------
Waits(i) == \E k \in 1..Len(found) : found[k] = i
RecordsOf(i) == {r \in records : r.handle = watched[i].handle}

\* A thermometer is sought or waits in the queue until it is found, and then has one record,
\* of its own address; only after another error than a timeout may it have none. One that is
\* named a second time keeps its record, whatever becomes of the first. No record is one that
\* the service cannot remove.
ThermometerIsSoughtOrRead ==
    state = "started" =>
        /\ \A i \in Positions :
             /\ watched[i].sync \/ frc # TaskHandleInvalid \/ Waits(i)
             /\ watched[i].sync => \/ \E r \in records : RecordsOf(i) = {r}
                                   \/ First(i) /\ watched[i].adr \in givenUp
             /\ \A r \in RecordsOf(i) : r.task = ReadTask(watched[i].adr)
        /\ {r.handle : r \in records} \subseteq {frc} \union {watched[i].handle : i \in Positions}

\* The time of sleep that it is sent is shorter than the period of its record. How long the
\* reading before the sleep takes (ServiceExample.cpp:233-244) is not modelled.
AwakeWhenRead == asleep >= 0 => asleep = 0 \/ \A r \in records \ {q \in records : q.task = FrcTask} :
                                                  asleep < r.period

\* Both of these, for any configuration.
ThermometersAreRead == ThermometerIsSoughtOrRead /\ AwakeWhenRead
=============================================================================

---------------------------- MODULE Thermometers ----------------------------
(***************************************************************************)
(* The example ThermometerService: a periodic task of the Scheduler reads  *)
(* the thermometers and publishes the values, and a message sets another   *)
(* period. The messaging's thread and the Scheduler's worker meet at m_mtx,*)
(* which the worker holds as long as it reads.                             *)
(***************************************************************************)
EXTENDS Integers, Sequences, FiniteSets

CONSTANTS
    Nodes,      \* m_thermometers, in the order of the map
    Periods,    \* the seconds a configuration or a message may name
    MaxRecords, \* bound on the records planned, numbered from 1
    MaxQueued   \* bound on the tasks in the Scheduler's queue

ASSUME ThermometersAssumption ==
    /\ Nodes \in Seq(Int) /\ Periods \subseteq Int
    /\ MaxRecords \in Nat \ {0} /\ MaxQueued \in Nat

\* What m_readPeriod keeps of an int.
Max16 == 65535
Uint16(n) == n % (Max16 + 1)

VARIABLES
    service,   \* "configured", "started"; "aborted" with the daemon
    period,    \* m_readPeriod
    plan,      \* records of the Scheduler: [handle, seconds]
    handle,    \* m_schdTaskHandle, 0 for TASK_HANDLE_INVALID
    queued,    \* tasks in the Scheduler's queue
    mtx,       \* holder of m_mtx, or "free"
    messages,  \* where the messaging's thread is
    wanted,    \* its local variable readPeriod
    reader,    \* where the Scheduler's worker is
    node,      \* how many thermometers it has read
    valid,     \* nodes with a value
    answered,  \* the last answer's status
    outcome,   \* history: the nodes whose last reading succeeded
    published  \* the nodes with a value in the last message sent

settings == <<service, period>>
scheduled == <<plan, handle, queued>>
reading == <<reader, node, valid, outcome, published>>
thermometersVars == <<settings, scheduled, mtx, messages, wanted, reading, answered>>

ThermometersInit ==
    /\ service = "configured" /\ \E seconds \in Periods : period = Uint16(seconds) /\ wanted = seconds
    /\ plan \in {{}, {[handle |-> 1, seconds |-> 7]}}  \* of the Scheduler's configuration
    /\ handle = 0 /\ queued = 0 /\ mtx = "free" /\ messages = "idle"
    /\ reader = "idle" /\ node = 0 /\ valid = {} /\ answered = "none"
    /\ outcome = {} /\ published = {}

Fresh(records) == {h \in 1..MaxRecords : h # handle /\ \A r \in records : r.handle # h}

\* scheduleTaskPeriodic. An old handle is kept when no reading is wanted.
PlanOn(records) ==
    IF period >= 1
      THEN \E h \in Fresh(records) :
             plan' = records \union {[handle |-> h, seconds |-> period]} /\ handle' = h
      ELSE plan' = records /\ UNCHANGED handle

\* start(), before the Scheduler and the messagings.
StartService ==
    /\ service = "configured" /\ service' = "started"
    /\ PlanOn({})
    /\ UNCHANGED <<period, queued, mtx, messages, wanted, reading, answered>>

-----------------------------------------------------------------------------
(* handleMsgFromMessaging.                                                 *)

\* A message with a period is answered before the period is changed.
Message(seconds) ==
    /\ service = "started" /\ messages = "idle" /\ messages' = "assign"
    /\ answered' = "OK" /\ wanted' = seconds
    /\ UNCHANGED <<settings, scheduled, mtx, reading>>

\* An object that names another service, or no period, sets the period to 0.
ImproperMessage ==
    /\ service = "started" /\ messages = "idle" /\ messages' = "assign"
    /\ answered' = "error" /\ wanted' = 0
    /\ UNCHANGED <<settings, scheduled, mtx, reading>>

\* The status is added to what is no object: rapidjson's assertion fails.
NoObject ==
    /\ service = "started" /\ messages = "idle"
    /\ service' = "aborted"
    /\ UNCHANGED <<period, scheduled, mtx, messages, wanted, reading, answered>>

AssignPeriod ==
    /\ service = "started" /\ messages = "assign" /\ messages' = "lock"
    /\ period' = Uint16(wanted)
    /\ UNCHANGED <<service, scheduled, mtx, wanted, reading, answered>>

\* scheduleReading
LockSchedule ==
    /\ service = "started" /\ messages = "lock" /\ mtx = "free"
    /\ messages' = "remove" /\ mtx' = "messages"
    /\ UNCHANGED <<settings, scheduled, wanted, reading, answered>>

\* Mutant: the record of the old period is not removed.
MutantRemoveReading ==
    /\ service = "started" /\ messages = "remove" /\ messages' = "plan"
    /\ UNCHANGED <<settings, scheduled, mtx, wanted, reading, answered>>

RemoveReading ==
    /\ service = "started" /\ messages = "remove" /\ messages' = "plan"
    /\ plan' = {r \in plan : r.handle # handle}
    /\ UNCHANGED <<settings, handle, queued, mtx, wanted, reading, answered>>

PlanReading ==
    /\ service = "started" /\ messages = "plan" /\ messages' = "idle" /\ mtx' = "free"
    /\ PlanOn(plan)
    /\ UNCHANGED <<settings, queued, wanted, reading, answered>>

-----------------------------------------------------------------------------
(* The Scheduler's timer, and its worker in processThermometersRead.       *)

Fire ==
    /\ service = "started" /\ plan # {} /\ queued < MaxQueued
    /\ queued' = queued + 1
    /\ UNCHANGED <<settings, plan, handle, mtx, messages, wanted, reading, answered>>

TakeTask ==
    /\ service = "started" /\ reader = "idle" /\ queued > 0
    /\ queued' = queued - 1 /\ reader' = "lock"
    /\ UNCHANGED <<settings, plan, handle, mtx, messages, wanted, node, valid, outcome, published,
                   answered>>

LockRead ==
    /\ service = "started" /\ reader = "lock" /\ mtx = "free"
    /\ reader' = "read" /\ node' = 0 /\ mtx' = "reader"
    /\ UNCHANGED <<settings, scheduled, messages, wanted, valid, outcome, published, answered>>

\* The transaction of a thermometer ends, with a value or an error.
ReadNode(ok) ==
    LET n == Nodes[node + 1] IN
    /\ service = "started" /\ reader = "read" /\ node < Len(Nodes)
    /\ node' = node + 1
    /\ valid' = (IF ok THEN valid \union {n} ELSE valid \ {n})
    /\ outcome' = (IF ok THEN outcome \union {n} ELSE outcome \ {n})
    /\ UNCHANGED <<settings, scheduled, mtx, messages, wanted, reader, published, answered>>

\* Mutant: m_mtx is not released.
MutantPublish ==
    /\ service = "started" /\ reader = "read" /\ node = Len(Nodes)
    /\ reader' = "idle" /\ published' = valid
    /\ UNCHANGED <<settings, scheduled, messages, mtx, wanted, node, valid, outcome, answered>>

Publish ==
    /\ service = "started" /\ reader = "read" /\ node = Len(Nodes)
    /\ reader' = "idle" /\ mtx' = "free" /\ published' = valid
    /\ UNCHANGED <<settings, scheduled, messages, wanted, node, valid, outcome, answered>>

-----------------------------------------------------------------------------
MessageStep == AssignPeriod \/ LockSchedule \/ RemoveReading \/ PlanReading
ReaderStep == TakeTask \/ LockRead \/ (\E ok \in BOOLEAN : ReadNode(ok)) \/ Publish

ThermometersNext ==
    \/ StartService \/ (\E seconds \in Periods : Message(seconds)) \/ ImproperMessage \/ NoObject
    \/ MessageStep \/ Fire \/ ReaderStep

ThermometersSpec == ThermometersInit /\ [][ThermometersNext]_thermometersVars

\* The threads run, and m_mtx is given to who asks again and again.
FairThermometers ==
    /\ ThermometersSpec /\ WF_thermometersVars(MessageStep) /\ WF_thermometersVars(ReaderStep)
    /\ SF_thermometersVars(LockSchedule) /\ SF_thermometersVars(LockRead)

-----------------------------------------------------------------------------
ThermometersTypeOK ==
    /\ service \in {"configured", "started", "aborted"} /\ period \in 0..Max16
    /\ plan \subseteq [handle : 1..MaxRecords, seconds : 1..Max16]
    /\ handle \in 0..MaxRecords /\ queued \in 0..MaxQueued
    /\ mtx \in {"free", "messages", "reader"}
    /\ messages \in {"idle", "assign", "lock", "remove", "plan"} /\ wanted \in Periods \union {0}
    /\ reader \in {"idle", "lock", "read"} /\ node \in 0..Len(Nodes)
    /\ \A set \in {valid, outcome, published} : set \subseteq {Nodes[i] : i \in 1..Len(Nodes)}
    /\ answered \in {"none", "OK", "error"}

\* One record reads the thermometers, with the period that was last asked for, and none
\* when it was less than a second ("min period is 1s else stop reading"), whatever else
\* was fired, read or changed meanwhile. Only a period that is no uint16_t is another.
ReadsAsAsked ==
    service = "started" /\ messages = "idle" /\ wanted \in 0..Max16 =>
        plan = IF wanted >= 1 THEN {[handle |-> handle, seconds |-> wanted]} ELSE {}

\* What is published is of the round that was read: no thermometer that failed to answer
\* is published with an earlier value.
PublishesLastRound == service = "started" /\ reader = "idle" => published = outcome

\* A message has its effect although the worker holds the mutex while it reads, and the
\* worker reads although messages come; the daemon aborts on what is no object.
MessageHasEffect == messages = "assign" ~> (messages = "idle" \/ service = "aborted")
TaskIsRead == reader = "lock" ~> (reader = "idle" \/ service = "aborted")
=============================================================================

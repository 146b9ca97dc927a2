----------------------------- MODULE MCServices -----------------------------
(* One of the parts that stand alone: MqttMessaging, the thermometers' or    *)
(* the protocol bridges' service, or the Scheduler's own table of tasks.     *)
EXTENDS MqttMessaging, Thermometers, ProtocolBridge, ScheduleRecord, MeterFrames

VARIABLE subject

TwoNodes == <<1, 2>>
SomePeriods == {-1, 0, 5, 65535, 65536}
\* The ends of bytes, of groups and of the uint8_t.
SomeReports == {r \in SUBSET {0, 79, 80, 159, 160, 255, 256, 303} : Cardinality(r) <= 3}

\* All short messages, and some that end about where the header does.
Others(n) == [i \in 1..n |-> "other"]
SomeMessages ==
    UNION {[1..n -> {"2D", "2C", "other"}] : n \in 0..5} \union
    {Others(n) \o <<"2D", "2C">> \o Others(m) : n \in 0..2, m \in 5..7}

-----------------------------------------------------------------------------
(* The tables.                                                             *)

Text(items) == [nickname |-> "none", items |-> items, service |-> TRUE]
Nick(name, named) == [nickname |-> name, items |-> <<Every, Every, Every, Every, Every, Every, Every>>, service |-> named]
Each(sec, mnt) == Text(<<sec, mnt, Every, Every, Every, Every, Every>>)
On(hrs, day, mon, dow) == Text(<<One(59), Every, hrs, day, mon, Every, dow>>)

SecItems == {Every, Step(25), Step(70), List(<<45, 5, 30>>), One(59), One(0)}
MntItems == {Every, Step(2), List(<<3, 1>>), One(0)}
Patterns ==
    {Each(s, m) : s \in SecItems, m \in MntItems} \union
    {On(Every, Step(40), Step(5), Every), On(One(9), Step(3), Every, Every),
     On(Step(3), List(<<18, 19>>), One(11), Step(2)), On(Every, Every, List(<<12, 11>>), List(<<4>>))}
Improper == {Each(Step(0), Every), Each(List(<<1, 60>>), Every), On(Every, One(0), Every, Every)}
Named == {Nick(n, b) : n \in {"reboot", "yearly", "monthly", "weekly", "hourly", "minutely"}, b \in BOOLEAN}

SomeTables ==
    {<<p>> : p \in Patterns} \union
    {<<a, b, Each(One(59), Step(2))>> : a \in Named \union {Each(Every, Every)}, b \in Improper \union Named}

\* 9 o'clock on Thursday, 19 November 2026.
Thursday == <<0, 0, 9, 19, 10, 126, 4>>
SomeDay == [f \in 3..7 |-> Thursday[f]]

-----------------------------------------------------------------------------
allVars == <<subject, vars, thermometersVars, bridgeVars, recordVars, frameVars, headerVars>>

\* Of a part that is not the subject one initial state is enough.
ServicesInit ==
    /\ subject \in {"MqttMessaging", "thermometers", "bridges", "tables", "frames", "headers"}
    /\ Init /\ ThermometersInit /\ BridgeInit /\ RecordInit /\ FrameInit /\ HeaderInit
    /\ subject = "headers" \/ vmbusMsg = <<>>
    /\ subject = "thermometers" \/ (wanted = 5 /\ plan = {})
    /\ subject = "frames" \/ prf = "Pulsemeter"
    /\ subject = "tables" \/ (form = "Tasks" /\ table = <<Each(Every, Every)>>)
Mqtt(A) == subject = "MqttMessaging" /\ A
Reads(A) == subject = "thermometers" /\ A
ServicesNext ==
    \/ Mqtt(Next) /\ UNCHANGED <<subject, thermometersVars, bridgeVars, recordVars, frameVars, headerVars>>
    \/ Reads(ThermometersNext) /\ UNCHANGED <<subject, vars, bridgeVars, recordVars, frameVars, headerVars>>
    \/ subject = "bridges" /\ BridgeNext /\ UNCHANGED <<subject, vars, thermometersVars, recordVars, frameVars, headerVars>>
    \/ subject = "tables" /\ RecordNext /\ UNCHANGED <<subject, vars, thermometersVars, bridgeVars, frameVars, headerVars>>
    \/ subject = "frames" /\ FrameNext /\ UNCHANGED <<subject, vars, thermometersVars, bridgeVars, recordVars, headerVars>>
    \/ /\ subject = "headers" /\ HeaderNext
       /\ UNCHANGED <<subject, vars, thermometersVars, bridgeVars, recordVars, frameVars>>

\* The fairness of the FairSpecs of MqttMessaging and of Thermometers.
ServicesSpec ==
    /\ ServicesInit /\ [][ServicesNext]_allVars
    /\ WF_vars(Mqtt(ThreadNext)) /\ WF_vars(Mqtt(CallbackNext)) /\ WF_vars(Mqtt(SenderNext))
    /\ WF_vars(Mqtt(StartNext)) /\ WF_vars(Mqtt(StopNext))
    /\ SF_vars(Mqtt(ConnectAsked /\ Track)) /\ SF_vars(Mqtt(OnConnect /\ Track))
    /\ WF_thermometersVars(Reads(MessageStep)) /\ WF_thermometersVars(Reads(ReaderStep))
    /\ SF_thermometersVars(Reads(LockSchedule)) /\ SF_thermometersVars(Reads(LockRead))
=============================================================================

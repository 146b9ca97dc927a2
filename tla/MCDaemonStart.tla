--------------------------- MODULE MCDaemonStart ---------------------------
(* The daemon from its start to its end, with configurations in which the     *)
(* instances throw, share a name or miss what they name; or one of the        *)
(* services that it loads: PulseMeters with two meters, one of them in the    *)
(* queue at a time, or the FRC example with one or two thermometers, one      *)
(* named twice, and node 0.                                                   *)
EXTENDS DaemonStart, PulseMeters, ServiceExample, TLC

CONSTANTS m1, m2

VARIABLE subject

Make(of, place, name, throws) == [of |-> of, place |-> place, name |-> name, throws |-> throws]
Serializers(dup) ==
    <<Make("Json", 1, "json", "never"), Make("Json", 2, IF dup THEN "json" ELSE "json2", "never"),
      Make("Simple", 3, "simple", "never")>>
Messaging(of, place, name, throws) ==
    Make(of, place, name, throws) @@ [udp |-> of = "Udp"]
Service(of, place, name, throws, messaging, names) ==
    Make(of, place, name, throws) @@
    [messaging |-> messaging, serializers |-> names, early |-> of = "Base"]

MessagingTables ==
    {<<Messaging("Mq", 1, "mq", t), Messaging("Mq", 2, n, "never"), Messaging("Udp", 3, "udp", u)>> :
        t \in {"never", "update"}, n \in {"mq", "mq2"}, u \in {"never", "create", "update"}}
NoneThrows(table) == \A k \in 1..Len(table) : table[k].throws = "never"
\* The last of the services names both serializers, or one that is not there, or none.
ServiceTables ==
    {<<Service("Base", 1, "base", t, "mq", <<"simple">>), Service("Base", 2, n, "never", m, <<"json">>),
       Service("Pm", 3, "pm", "never", m,
               IF all THEN <<"json", "simple">> ELSE IF m = "mq" THEN <<>> ELSE <<"none">>)>> :
        t \in {"never", "update"}, n \in {"base", "base2"}, m \in {"mq", "mq2"}, all \in BOOLEAN}
Combined(named, ofMessagings, ofServices) ==
    [serializers : {Serializers(named)}, messagings : ofMessagings, services : ofServices]

\* Every table of messagings with services that are not refused for themselves, every table of
\* services with messagings that are not, and two serializers of one name.
GoodMessagings == {table \in MessagingTables : NoneThrows(table)}
GoodServices == {table \in ServiceTables : NoneThrows(table) /\ table[2].name = "base2"}
Some ==
    Combined(FALSE, MessagingTables, GoodServices) \union Combined(FALSE, GoodMessagings, ServiceTables)
      \union Combined(TRUE, GoodMessagings, GoodServices)
Small == CHOOSE c \in Some : c.messagings[1].throws = "never"

\* Every configuration without a watch dog, one with each timeout.
SomeSetups ==
    [configuration : Some, timeout : {0}] \union [configuration : {Small}, timeout : {2, 3, 4, 8}]

TwoMeters == <<m1, m2>>
OneOrTwoNodes ==
    [frcPeriod : {5}, sleepPeriod : {60, 2, 65539}, pattern : BOOLEAN,
     nodes : {<<5>>, <<5, 7>>, <<5, 5>>, <<0, 5>>}]

allVars == <<subject, daemonVars, vars, exampleVars>>

AnyInit ==
    /\ subject \in {"daemon", "meters", "example"}
    /\ DaemonInit /\ Init /\ ExampleInit
    /\ subject # "daemon" => configuration = Small /\ timeout = 0
    /\ subject # "meters" => \A task \in Tasks : plan[task] = {}

AnyNext ==
    \/ subject = "daemon" /\ DaemonNext /\ UNCHANGED <<subject, vars, exampleVars>>
    \/ subject = "meters" /\ Next /\ UNCHANGED <<subject, daemonVars, exampleVars>>
    \/ subject = "example" /\ ExampleNext /\ UNCHANGED <<subject, daemonVars, vars>>

\* The fairness of FairDaemonSpec, and of FairSpec of PulseMeters.
AnySpec ==
    /\ AnyInit /\ [][AnyNext]_allVars
    /\ WF_daemonVars(subject = "daemon" /\ Main)
    /\ WF_vars(subject = "meters" /\ StartStep) /\ WF_vars(subject = "meters" /\ FireStep("frc"))
    /\ WF_vars(subject = "meters" /\ WorkerStep) /\ WF_vars(subject = "meters" /\ QueueStep)
=============================================================================

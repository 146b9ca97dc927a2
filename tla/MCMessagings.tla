----------------------------- MODULE MCMessagings -----------------------------
(* UdpMessaging, or its packets; or MqMessaging with its service and iqrfapp; *)
(* or one text on its way through a service.                                 *)
EXTENDS IqrfApp, UdpMessaging, UdpPackets, DpaWords

CONSTANTS
    Inputs, MaxBuffer

VARIABLES
    subject,
    text, stage, data, timeout, ended, answer

Dpa == INSTANCE DpaTexts

UserTimeouts == {-1, 0}
ConfiguredTimeouts == {-1, 0}

\* Of the packets: the number that wraps, the two writes of iqrf_ide_dummy, and a short text
\* for the one of getGwIdent.
LastIds == {65534}
LedAndReset == {<<1, 0, 6, 3, 255, 255>>, <<0, 0, 2, 1, 255, 255>>}
NewYearsEve == [sec |-> 59, min |-> 1, hour |-> 23, wday |-> 0, mday |-> 31, mon |-> 11, year |-> 117]
ShortIdent == <<13, 10, 105, 13, 10>>

-----------------------------------------------------------------------------
(* The texts: of the optional members all, none, one, or all but one.      *)

Optional == {"nadr", "hwpid", "timeout", "msgid", "request", "request_ts", "response", "response_ts",
             "confirmation", "confirmation_ts", "cmd", "rcode", "dpaval", "rdata", "user_data"}
OfBytes == [t \in {"raw", "raw-hdp", "FRC"} |->
              CASE t = "raw" -> "request" [] t = "raw-hdp" -> "rdata" [] OTHER -> "user_data"]
Json(type, cmds, needed) ==
    {t \in [form : {"json"}, type : {type}, cmd : cmds, timeout : {-1, 7},
            bytes : {<<>>, <<1, 257, 2, NotHexa>>, <<1, NotHexa>>},
            has : {needed \union {"ctype", "type"} \union more :
                     more \in {{}, Optional} \union {{a} : a \in Optional}
                                \union {Optional \ {a} : a \in Optional}}] :
        t.bytes # <<>> => type \in DOMAIN OfBytes /\ OfBytes[type] \in t.has}
JsonTexts ==
    Json("raw", {"none"}, {}) \union Json("raw-hdp", {"none"}, {"pnum", "pcmd"})
      \union Json("Thermometer", {"READ", "unknown"}, {}) \union Json("LedR", {"PULSE"}, {})
      \union UNION {Json("FRC", {"SEND"}, n) : n \in {{"frc_cmd"}, {"frc_type"}, {"frc_type", "frc_user"}}}
      \union UNION {Json("IO", {"GET", "SET", "DIRECTION"}, n) :
                       n \in {{"bit"}, {"port", "bit"}, {"port", "bit", "val"}, {"port", "bit", "inp"}}}
SimpleTexts ==
    LET words == {Number(<<5>>), Number(<<300, 1, 2>>), Timeout(-1), Timeout(9)}
                    \union {Word(kind) : kind \in {"command", "timeout", "TIMEOUT=", "CLID=", "CLID=x"}}
    IN  [form : {"words"}, type : {"raw", "Thermometer", "LedR"},
         words : UNION {[1..n -> words] : n \in 0..3}]
SomeTexts == JsonTexts \union SimpleTexts \union [form : {"async"}, type : {"request", "response", "other"}]

-----------------------------------------------------------------------------

textVars == <<text, stage, data, timeout, ended, answer>>
allVars == <<subject, vars, udpVars, textVars, packetVars>>

\* What is not the subject stays as it is.
MessagingsInit ==
    /\ subject \in {"UdpMessaging", "MqMessaging", "texts", "packets"}
    /\ Init /\ UdpInit /\ PacketInit
    /\ subject # "MqMessaging" =>
         serializers = <<"JsonSerializer">> /\ interactive /\ defaultTimeout = BuiltinTimeout
    /\ IF subject = "texts" THEN Dpa!Init
       ELSE /\ text = [form |-> "async", type |-> "other"] /\ stage = "come"
            /\ data = <<>> /\ timeout = -1 /\ ended = "nothing" /\ answer = <<>>

Mq(A) == subject = "MqMessaging" /\ A /\ UNCHANGED <<subject, udpVars, textVars, packetVars>>
MessagingsNext ==
    \/ subject = "UdpMessaging" /\ UdpNext /\ UNCHANGED <<subject, vars, textVars, packetVars>>
    \/ Mq(Next)
    \/ subject = "texts" /\ Dpa!Next /\ UNCHANGED <<subject, vars, udpVars, packetVars>>
    \/ subject = "packets" /\ PacketNext /\ UNCHANGED <<subject, vars, udpVars, textVars>>

\* The fairness of the FairSpec of IqrfApp.
MessagingsSpec ==
    /\ MessagingsInit /\ [][MessagingsNext]_allVars
    /\ WF_allVars(Mq(ListenerStep)) /\ WF_allVars(Mq(SendStep))
    /\ WF_allVars(Mq(Receive)) /\ WF_allVars(Mq(Waiting))

\* The bytes of a raw request are those that were written, and an answer has what was asked
\* for, once, and tells nothing that did not happen; what the IDE sends is taken unless it was
\* damaged, a damaged packet is refused, and the answers tell which packet they are for.
TextsAreTrue == Dpa!TextsAreTrue /\ PacketsAreTrue
=============================================================================

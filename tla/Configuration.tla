----------------------------- MODULE Configuration -----------------------------
(* The configuration files of the daemon and of iqrfapp: a part reads the      *)
(* members of its JSON object one after the other with the functions of        *)
(* JsonUtils.h, keeps what it has read, and throws at the first member that is *)
(* not what it expects.                                                        *)
EXTENDS Integers, Sequences, SequencesExt

CONSTANTS
    Parts,    \* the parts whose files are read, of those below
    Files     \* of each part, the files that it may find

VARIABLES
    part,
    file,       \* the members of the object that are there, and their values
    settings,   \* what the part has: a value that was read, or its default
    step,       \* the next read
    list,       \* what is left of the list of nodes that the part goes through
    nodes,      \* what it serves: the addresses of nodes, the daemon its components
    ended       \* "reading", "updated", "left" as not enabled, "refused" by an exception, or
                \* "aborted" by an assertion

configurationVars == <<part, file, settings, step, list, nodes, ended>>

-----------------------------------------------------------------------------
(* What the parts read, in their order.                                    *)

Required(type, names) == [i \in DOMAIN names |-> [how |-> "required", member |-> names[i], type |-> type]]
Possible(type, names) == [i \in DOMAIN names |-> [how |-> "possible", member |-> names[i], type |-> type]]
Vector(type, name) == <<[how |-> "vector", member |-> name, type |-> type]>>
Object(name) == <<[how |-> "object", member |-> name, type |-> "object"]>>
Components == <<[how |-> "components", member |-> "Components", type |-> "component"]>>
Pattern == <<[how |-> "pattern", member |-> "DpaRequestJsonPattern", type |-> "object"]>>

MqttReads ==
    Required("string", <<"BrokerAddr", "ClientId">>) \o Required("int", <<"Persistence", "Qos">>)
      \o Required("string", <<"TopicRequest", "TopicResponse", "User", "Password">>)
      \o Required("bool", <<"EnabledSSL">>)
      \o Possible("string", <<"TrustStore", "KeyStore", "PrivateKey", "PrivateKeyPassword",
                              "EnabledCipherSuites">>)
      \o Possible("bool", <<"EnableServerCertAuth">>)
      \o Possible("int", <<"KeepAliveInterval", "ConnectTimeout", "MinReconnect", "MaxReconnect">>)
UdpReads == Possible("int", <<"RemotePort", "LocalPort">>)
MqReads == Possible("string", <<"LocalMqName", "RemoteMqName">>)
BaseServiceReads == Possible("bool", <<"AsyncDpaMessage">>)
PulseMeterReads == Possible("int", <<"FrcPeriod", "SleepPeriod">>) \o Pattern \o Vector("int", "Pulsemeters")
BridgeReads ==
    Possible("int", <<"FrcPeriod", "SleepPeriod", "WmPeriod">>) \o Pattern \o Vector("int", "ProtocolBridges")
ThermometerReads == Possible("int", <<"ReadPeriod">>) \o Vector("int", "Thermometers")
MessagingReads ==
    Required("string", <<"Name">>) \o Possible("bool", <<"Enabled">>) \o Object("Properties")
ServiceReads ==
    Required("string", <<"Name">>) \o Possible("bool", <<"Enabled">>) \o Required("string", <<"Messaging">>)
      \o Vector("string", "Serializers") \o Object("Properties")
DaemonReads ==
    Required("string", <<"Configuration", "ConfigurationDir">>)
      \o Possible("int", <<"WatchDogTimeoutMilis">>) \o Possible("string", <<"Mode">>) \o Components
InterfaceReads ==
    Required("string", <<"IqrfInterface">>)
      \o Possible("int", <<"enableGpioPin", "spiCe0GpioPin", "spiMisoGpioPin", "spiMosiGpioPin",
                           "spiClkGpioPin", "DpaHandlerTimeout">>)
      \o Possible("string", <<"CommunicationMode">>)
TracerReads ==
    Possible("string", <<"TraceFileName">>) \o Possible("int", <<"TraceFileSize">>)
      \o Possible("string", <<"VerbosityLevel">>)
AppReads ==
    Possible("string", <<"LocalMqName", "RemoteMqName">>) \o Possible("int", <<"DefaultTimeout">>)
      \o Possible("string", <<"VerbosityLevel">>)

ReadsOf(p) ==
    CASE p = "MqttMessaging" -> MqttReads [] p = "UdpMessaging" -> UdpReads
      [] p = "MqMessaging" -> MqReads [] p = "BaseService" -> BaseServiceReads
      [] p = "PulseMeters" -> PulseMeterReads [] p = "ProtocolBridges" -> BridgeReads
      [] p = "Thermometers" -> ThermometerReads [] p = "messaging" -> MessagingReads
      [] p = "service" -> ServiceReads [] p = "DaemonController" -> DaemonReads
      [] p = "IqrfInterface" -> InterfaceReads [] p = "TracerFile" -> TracerReads
      [] p = "iqrfapp" -> AppReads
Reads == ReadsOf(part)
Read == Reads[step]
MembersOf(p) == {ReadsOf(p)[i].member : i \in DOMAIN ReadsOf(p)}

-----------------------------------------------------------------------------
(* The files. A "number" is one that is no int: it has a point, or is larger   *)
(* than an int may be. A "component" is an object with a name and a flag, which *)
(* is its content.                                                              *)

Value(kind, content) == <<kind, content>>
Kind(v) == v[1]
Content(v) == v[2]
Default == Value("default", "nothing")

IsValue(v) ==
    /\ v = Value(Kind(v), Content(v))
    /\ Kind(v) = "int" => Content(v) \in Int
    /\ Kind(v) = "bool" => Content(v) \in BOOLEAN
    /\ Kind(v) = "array" =>
         Content(v) \in Seq(ToSet(Content(v))) /\ \A e \in ToSet(Content(v)) : e = Value(Kind(e), Content(e))

ASSUME ConfigurationAssumption ==
    /\ Parts \subseteq {"MqttMessaging", "UdpMessaging", "MqMessaging", "BaseService", "PulseMeters",
                        "ProtocolBridges", "Thermometers", "messaging", "service", "DaemonController",
                        "IqrfInterface", "TracerFile", "iqrfapp"}
    /\ \A p \in Parts : \A written \in Files[p] :
         DOMAIN written = MembersOf(p) /\ \A m \in MembersOf(p) : IsValue(written[m])

ConfigurationInit ==
    /\ part \in Parts
    /\ file \in Files[part]
    /\ settings = [m \in MembersOf(part) |-> Default] /\ list = <<>> /\ nodes = <<>>
    /\ step = 1 /\ ended = "reading"

-----------------------------------------------------------------------------
(* JsonUtils.                                                              *)

value == file[Read.member]
\* assertIs, assertIsObject and assertIsArray.
Is(v, type) == Kind(v) = type

Throw(how) == ended' = how /\ UNCHANGED <<settings, step>>
\* A timeout below zero leaves the default one.
Keep(v) ==
    /\ settings' =
         IF Read.member = "DefaultTimeout" /\ Content(v) < 0 THEN settings ELSE [settings EXCEPT ![Read.member] = v]
    /\ step' = step + 1 /\ UNCHANGED ended
Skip == step' = step + 1 /\ UNCHANGED <<settings, ended>>

GetMemberAs ==
    /\ Read.how = "required"
    /\ IF Is(value, Read.type) THEN Keep(value) ELSE Throw("refused")
    /\ UNCHANGED <<list, nodes>>

\* A member that may be missing.
GetPossibleMemberAs ==
    /\ Read.how = "possible"
    /\ CASE Kind(value) = "absent" -> Skip
         [] Kind(value) # "absent" /\ ~Is(value, Read.type) -> Throw("refused")
         [] OTHER -> Keep(value)
    /\ UNCHANGED <<list, nodes>>

\* getMember and assertIsObject.
GetObject ==
    /\ Read.how = "object"
    /\ IF Is(value, "object") THEN Keep(value) ELSE Throw("refused")
    /\ UNCHANGED <<list, nodes>>

\* The services look themselves, and name what they found with GetString, which a value that
\* is no string does not have.
GetPattern ==
    /\ Read.how = "pattern"
    /\ CASE Is(value, "object") -> Keep(value)
         [] Kind(value) \in {"absent", "string"} -> Throw("refused")
         [] OTHER -> Throw("aborted")
    /\ UNCHANGED <<list, nodes>>

GetMemberAsVector ==
    /\ Read.how = "vector"
    /\ IF Is(value, "array") /\ \A i \in DOMAIN Content(value) : Is(Content(value)[i], Read.type)
       THEN Keep(value) /\ list' = IF Read.type = "int" THEN Content(value) ELSE <<>>
       ELSE Throw("refused") /\ UNCHANGED list
    /\ UNCHANGED nodes

\* A meter is pushed to the list, a bridge or a thermometer put in a map by its address.
Serve ==
    /\ list # <<>> /\ list' = Tail(list)
    /\ nodes' = IF part # "PulseMeters" /\ Contains(nodes, Head(list)) THEN nodes ELSE Append(nodes, Head(list))
    /\ UNCHANGED <<settings, step, ended>>

\* The daemon's components, each with its own file: those before one that is no object, has no
\* name or no flag stay.
GetComponents ==
    /\ Read.how = "components"
    /\ CASE ~Is(value, "array") -> Throw("refused") /\ UNCHANGED nodes
         [] Is(value, "array") /\ (\A i \in DOMAIN Content(value) : Is(Content(value)[i], "component")) ->
              Keep(value) /\ nodes' = Content(value)
         [] OTHER ->
              /\ Throw("refused")
              /\ \E at \in DOMAIN Content(value) :
                   /\ ~Is(Content(value)[at], "component")
                   /\ \A i \in 1..(at - 1) : Is(Content(value)[i], "component")
                   /\ nodes' = SubSeq(Content(value), 1, at - 1)
    /\ UNCHANGED list

\* An instance that is not enabled is left, another version refused.
IsLeft == part \in {"messaging", "service"} /\ step = 3 /\ settings["Enabled"] = Value("bool", FALSE)
IsOtherVersion ==
    part = "DaemonController" /\ step = 2 /\ settings["Configuration"] # Value("string", "v1.0")
Leave ==
    /\ IsLeft
    /\ Throw("left") /\ UNCHANGED <<list, nodes>>
RefuseVersion ==
    /\ IsOtherVersion
    /\ Throw("refused") /\ UNCHANGED <<list, nodes>>

\* What the part makes of its values when it has read them all.
Made(member, v) ==
    CASE member = "TraceFileSize" /\ Kind(v) = "int" -> IF Content(v) <= 0 THEN Default ELSE v
      [] member = "VerbosityLevel" -> IF Content(v) \in {"err", "war", "inf"} THEN v ELSE Value("string", "dbg")
      [] member = "CommunicationMode" -> IF Content(v) = "LP" THEN v ELSE Value("string", "STD")
      [] OTHER -> v

Update ==
    /\ step > Len(Reads)
    /\ ended' = "updated"
    /\ settings' = [m \in DOMAIN settings |-> Made(m, settings[m])]
    /\ UNCHANGED <<step, list, nodes>>

ReadMember ==
    GetMemberAs \/ GetPossibleMemberAs \/ GetObject \/ GetPattern \/ GetMemberAsVector \/ GetComponents

ConfigurationNext ==
    /\ ended = "reading" /\ UNCHANGED <<part, file>>
    /\ \/ Serve
       \/ list = <<>> /\ (Leave \/ RefuseVersion \/ Update)
       \/ list = <<>> /\ step <= Len(Reads) /\ ~IsLeft /\ ~IsOtherVersion /\ ReadMember

ConfigurationSpec == ConfigurationInit /\ [][ConfigurationNext]_configurationVars

-----------------------------------------------------------------------------
(* What a part has is what was written.                                    *)

\* The reads that find what they do not want.
Unwanted ==
    {i \in DOMAIN Reads :
       LET found == file[Reads[i].member]
       IN CASE Reads[i].how = "possible" -> Kind(found) \notin {"absent", Reads[i].type}
            [] Reads[i].how \in {"vector", "components"} ->
                 Kind(found) # "array" \/ \E e \in DOMAIN Content(found) : ~Is(Content(found)[e], Reads[i].type)
            [] OTHER -> Kind(found) # Reads[i].type}
\* A read after which the part may have had enough.
EnoughAt ==
    CASE part \in {"messaging", "service"} /\ Kind(file["Enabled"]) = "bool" /\ ~Content(file["Enabled"]) -> 2
      [] part = "DaemonController" /\ file["Configuration"] # Value("string", "v1.0") -> 1
      [] OTHER -> Len(Reads) + 1
Before == {i \in DOMAIN Reads : i <= EnoughAt /\ \A j \in Unwanted : i < j}
IsGiven(i) == Kind(file[Reads[i].member]) # "absent"

\* A part that has read its file has every member before the first it could not use as it was
\* written, and of the others its defaults; it serves the nodes that are listed, in a list as
\* often as they are, and the daemon has the components before the first that is none; it is
\* updated if and only if everything could be used, and the daemon is aborted only where a
\* pattern is neither an object nor missing nor a string.
SettingsAreAsWritten ==
    ended \notin {"reading", "nothing"} =>
      /\ \A i \in DOMAIN Reads :
           LET m == Reads[i].member
               end(v) == IF ended = "updated" THEN Made(m, v) ELSE v
           IN settings[m] =
                end(IF i \in Before /\ IsGiven(i) /\ ~(m = "DefaultTimeout" /\ Content(file[m]) < 0)
                    THEN file[m] ELSE Default)
      /\ (ended = "updated") <=> (Before = DOMAIN Reads)
      /\ (ended = "left") <=> (part # "DaemonController" /\ Before = 1..2 /\ EnoughAt = 2)
      /\ ended = "aborted" =>
           \E i \in Unwanted : Reads[i].how = "pattern" /\ Kind(file[Reads[i].member]) \notin {"absent", "string"}
      /\ \A i \in DOMAIN Reads :
           i \in Before /\ Reads[i].how = "vector" /\ Reads[i].type = "int" =>
             LET listed == Content(file[Reads[i].member])
             IN IF part = "PulseMeters" THEN nodes = listed
                ELSE ToSet(nodes) = ToSet(listed) /\ IsInjective(nodes)
      /\ part = "DaemonController" /\ 4 \in Before /\ Kind(file["Components"]) = "array" =>
           LET listed == Content(file["Components"])
           IN /\ nodes = SubSeq(listed, 1, Len(nodes)) /\ \A e \in ToSet(nodes) : Is(e, "component")
              /\ nodes = listed \/ ~Is(listed[Len(nodes) + 1], "component")
=============================================================================

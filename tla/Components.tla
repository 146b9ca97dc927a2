----------------------------- MODULE Components -----------------------------
(***************************************************************************)
(* DaemonController::startServices: the enabled components of the          *)
(* configuration are loaded (serializers, then messagings, then services), *)
(* each in the order of its instances, and started: services, then         *)
(* messagings. An instance that is refused throws; what else that costs    *)
(* depends on where the exception is caught.                               *)
(***************************************************************************)
EXTENDS Integers, Sequences

CONSTANTS NoInstance, Configurations

\* An enabled instance: its component, its place in the configuration, its name,
\* and whether it throws when it is created or given its properties. A messaging
\* may be of UdpMessaging. A service names its messaging and its serializers, and
\* registers its handler early (BaseService, in setMessaging) or when it is given
\* a serializer (the application services).
IsInstance(i, fields) ==
    /\ DOMAIN i = {"of", "place", "name", "throws"} \union fields
    /\ i.place \in Nat /\ i.throws \in {"never", "create", "update"}
AreInOrder(sequence) ==
    \A k, l \in 1..Len(sequence) : k < l => sequence[k].place < sequence[l].place
IsConfiguration(c) ==
    /\ \A k \in 1..Len(c.serializers) : IsInstance(c.serializers[k], {})
    /\ \A k \in 1..Len(c.messagings) : IsInstance(c.messagings[k], {"udp"})
    /\ \A k \in 1..Len(c.services) :
         /\ IsInstance(c.services[k], {"messaging", "serializers", "early"})
         /\ c.services[k].serializers \in Seq(STRING)
    /\ AreInOrder(c.serializers) /\ AreInOrder(c.messagings) /\ AreInOrder(c.services)

ASSUME ComponentsAssumption == \A c \in Configurations : IsConfiguration(c)

VARIABLES
    configuration,
    stage,     \* "idle", a map that is being filled, "start", "startMessagings", "started"
    todo,      \* the instances that the stage has still to reach
    serializers, messagings, services, \* the maps, as sets of instances
    handler,   \* of each messaging's name: the service that registered last
    exclusive  \* m_dpaExclusiveAccess and m_dpaMessageForwarding

maps == <<serializers, messagings, services>>
componentVars == <<configuration, stage, todo, maps, handler, exclusive>>

Instances(sequence) == {sequence[k] : k \in 1..Len(sequence)}
Names(instances) == {i.name : i \in instances}

ComponentsInit ==
    /\ stage = "idle" /\ todo = {}
    /\ serializers = {} /\ messagings = {} /\ services = {}
    /\ handler = [n \in Names(Instances(configuration.messagings)) |-> NoInstance]
    /\ exclusive = NoInstance

\* The next instance of the stage.
Loading(s, i) == stage = s /\ i \in todo /\ \A j \in todo : i.place <= j.place

\* The exception leaves the loop over the instances of the component.
RestOfComponent(rest, refused) == {i \in rest : i.of # refused.of}

LoadSerializer(i) ==
    LET ok == i.throws = "never" /\ i.name \notin Names(serializers)
    IN  /\ Loading("serializers", i)
        /\ serializers' = IF ok THEN serializers \union {i} ELSE serializers
        /\ todo' = IF ok THEN todo \ {i} ELSE RestOfComponent(todo, i)
        /\ UNCHANGED <<configuration, stage, messagings, services, handler, exclusive>>

\* update() has returned; whether the name is new is tested after it.
GivesExclusive(i) == i.throws = "never" /\ i.udp

LoadMessaging(i) ==
    LET ok == i.throws = "never" /\ i.name \notin Names(messagings)
    IN  /\ Loading("messagings", i)
        /\ messagings' = IF ok THEN messagings \union {i} ELSE messagings
        /\ exclusive' = IF GivesExclusive(i) THEN i ELSE exclusive
        /\ todo' = IF ok THEN todo \ {i} ELSE RestOfComponent(todo, i)
        /\ UNCHANGED <<configuration, stage, serializers, services, handler>>

Bound(i) == i.throws # "create" /\ i.messaging \in Names(messagings)

\* Mutant: a handler is registered only where there is none.
MutantRegisters(i) ==
    Bound(i) /\ handler[i.messaging] = NoInstance

\* registerMessageHandler replaces the handler of a service loaded before.
Registers(i) ==
    /\ Bound(i)
    /\ i.early \/ (i.serializers # <<>> /\ Head(i.serializers) \in Names(serializers))

\* A service that is refused after it registered is destroyed, its handler stays. What is
\* thrown is a std::logic_error; any other exception would leave the loop
\* (DaemonController.cpp:679) and cost the services behind it, but none is known.
LoadService(i) ==
    LET ok == Bound(i) /\ Instances(i.serializers) \subseteq Names(serializers)
                       /\ i.throws = "never" /\ i.name \notin Names(services)
    IN  /\ Loading("services", i)
        /\ services' = IF ok THEN services \union {i} ELSE services
        /\ handler' = IF Registers(i) THEN [handler EXCEPT ![i.messaging] = i] ELSE handler
        /\ todo' = todo \ {i}
        /\ UNCHANGED <<configuration, stage, serializers, messagings, exclusive>>

NextStage ==
    /\ todo = {}
    /\ \/ stage = "idle" /\ stage' = "serializers" /\ todo' = Instances(configuration.serializers)
       \/ stage = "serializers" /\ stage' = "messagings" /\ todo' = Instances(configuration.messagings)
       \/ stage = "messagings" /\ stage' = "services" /\ todo' = Instances(configuration.services)
       \/ stage = "services" /\ stage' = "start" /\ todo' = {}
    /\ UNCHANGED <<configuration, maps, handler, exclusive>>

\* A start() that throws is caught, and costs no other instance anything.
StartServices ==
    /\ stage = "start" /\ stage' = "startMessagings"
    /\ UNCHANGED <<configuration, todo, maps, handler, exclusive>>

StartMessagings ==
    /\ stage = "startMessagings" /\ stage' = "started"
    /\ UNCHANGED <<configuration, todo, maps, handler, exclusive>>

ComponentsNext ==
    \/ \E i \in todo : LoadSerializer(i) \/ LoadMessaging(i) \/ LoadService(i)
    \/ NextStage \/ StartServices \/ StartMessagings

-----------------------------------------------------------------------------
ComponentsTypeOK ==
    /\ configuration \in Configurations
    /\ stage \in {"idle", "serializers", "messagings", "services", "start", "startMessagings",
                 "started"}
    /\ serializers \subseteq Instances(configuration.serializers)
    /\ messagings \subseteq Instances(configuration.messagings)
    /\ services \subseteq Instances(configuration.services)
    /\ handler \in [Names(Instances(configuration.messagings)) ->
                      Instances(configuration.services) \union {NoInstance}]
    /\ exclusive \in Instances(configuration.messagings) \union {NoInstance}
    /\ stage = "serializers" => todo \subseteq Instances(configuration.serializers)
    /\ stage = "messagings" => todo \subseteq Instances(configuration.messagings)
    /\ stage = "services" => todo \subseteq Instances(configuration.services)
    /\ todo # {} => stage \in {"serializers", "messagings", "services"}

\* A refused instance costs no instance of another component its place, and a
\* refused service no other instance at all: what is not loaded was refused for
\* itself, or follows a refused serializer or messaging of its component.
RefusedForAReason ==
    stage \in {"start", "startMessagings", "started"} =>
        LET lost(all, loaded) == {i \in Instances(all) \ loaded :
                i.throws = "never" /\ i.name \notin Names(loaded)}
            excused(all, loaded) == \A i \in lost(all, loaded) :
                \E j \in Instances(all) \ loaded : j.of = i.of /\ j.place < i.place
        IN  /\ excused(configuration.serializers, serializers)
            /\ excused(configuration.messagings, messagings)
            /\ \A i \in lost(configuration.services, services) :
                 \/ i.messaging \notin Names(messagings)
                 \/ ~(Instances(i.serializers) \subseteq Names(serializers))

\* m_dpaExclusiveAccess is a messaging that is there, whatever was refused, unless
\* a name is configured twice (then it may point at the destroyed second one).
ExclusiveAccessIsLive ==
    exclusive = NoInstance \/ exclusive.name \in Names(messagings)

\* A loaded service that registers gets the messages of its messaging, unless an instance
\* behind it in the configuration, loaded or refused, has taken them.
MessagesReachService ==
    \A s \in services :
        LET h == handler[s.messaging]
        IN  s.early \/ s.serializers # <<>> =>
              h = s \/ (h \in Instances(configuration.services) /\ h.place > s.place)
=============================================================================

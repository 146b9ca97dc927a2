-------------------------- MODULE DaemonStartProofs --------------------------
(***************************************************************************)
(* What Components.tla and DaemonStart.tla guarantee for any configuration *)
(* and any time of the watch dog: the types, that an instance that is      *)
(* refused costs only what is excused, that messages and tasks meet loaded *)
(* and started services, and that the watch dog ends a daemon that is held *)
(* up, in time, and no other. And what Configuration.tla guarantees of the *)
(* files that the start-up reads, whatever they hold.                      *)
(*                                                                         *)
(* The inductive invariant of the loading says of every instance that the  *)
(* loop has left behind why it is not in its map, and that what is loaded  *)
(* stands before what is still to be reached. That of the watch dog bounds *)
(* the age of the last pet by what the pets in the queue wait for, or by   *)
(* the time until the next one. That of a file says of every member whose  *)
(* read is done that the part has it, of a list of nodes that what is      *)
(* served and what is left make it up, and of a part that has ended why.   *)
(***************************************************************************)
EXTENDS DaemonStart, Configuration, FiniteSetTheorems, SequenceTheorems, TLAPS

AllSerializers == Instances(configuration.serializers)
AllMessagings == Instances(configuration.messagings)
AllServices == Instances(configuration.services)

\* What can be said of instances of one kind.
Ordered(all) ==
    /\ \A i \in all : i.place \in Nat
    /\ \A i, j \in all : i.place = j.place => i = j

\* The places of a configuration's instances tell them apart.
LEMMA InOrder ==
    ASSUME NEW c \in Configurations
    PROVE  /\ Ordered(Instances(c.serializers)) /\ Ordered(Instances(c.messagings))
           /\ Ordered(Instances(c.services))
<1>1. IsConfiguration(c)
  BY ComponentsAssumption
<1>2. ASSUME NEW s, AreInOrder(s), \A k \in 1..Len(s) : s[k].place \in Nat
      PROVE  Ordered(Instances(s))
  <2>1. ASSUME NEW i \in Instances(s), NEW j \in Instances(s), i.place = j.place
        PROVE  i = j
    <3>1. PICK k \in 1..Len(s), l \in 1..Len(s) : i = s[k] /\ j = s[l]
      BY DEF Instances
    <3>2. ~(k < l) /\ ~(l < k)
      BY <1>2, <2>1, <3>1 DEF AreInOrder
    <3> QED BY <3>1, <3>2
  <2> QED BY <1>2, <2>1 DEF Ordered, Instances
<1> QED BY <1>1, <1>2 DEF IsConfiguration, IsInstance

-----------------------------------------------------------------------------
(* Types.                                                                  *)

\* The variables of the loading hold values of their types to begin with.
LEMMA ComponentsTypeInit ==
    ASSUME configuration \in Configurations, ComponentsInit PROVE ComponentsTypeOK
BY DEF ComponentsInit, ComponentsTypeOK

\* Every step of the loading preserves the types.
LEMMA ComponentsTypeStep == ASSUME ComponentsTypeOK, ComponentsNext PROVE ComponentsTypeOK'
<1> USE DEF ComponentsTypeOK, RestOfComponent
<1>1. ASSUME NEW i \in todo, LoadSerializer(i) PROVE ComponentsTypeOK'
  BY <1>1 DEF LoadSerializer, Loading
<1>2. ASSUME NEW i \in todo, LoadMessaging(i) PROVE ComponentsTypeOK'
  BY <1>2 DEF LoadMessaging, Loading
<1>3. ASSUME NEW i \in todo, LoadService(i) PROVE ComponentsTypeOK'
  <2>1. i \in AllServices /\ todo' \subseteq AllServices
    BY <1>3 DEF LoadService, Loading, AllServices
  <2>2. handler' \in [Names(AllMessagings) -> AllServices \union {NoInstance}]
    <3>1. Registers(i) => i.messaging \in Names(AllMessagings)
      BY DEF Registers, Bound, Names, AllMessagings
    <3> QED BY <1>3, <2>1, <3>1 DEF LoadService, AllMessagings, AllServices
  <2> QED BY <1>3, <2>1, <2>2 DEF LoadService, Loading, AllMessagings, AllServices
<1>4. CASE NextStage
  BY <1>4 DEF NextStage, maps
<1>5. CASE StartServices
  BY <1>5 DEF StartServices, maps
<1>6. CASE StartMessagings
  BY <1>6 DEF StartMessagings, maps
<1> QED BY <1>1, <1>2, <1>3, <1>4, <1>5, <1>6 DEF ComponentsNext

-----------------------------------------------------------------------------
(* The loading.                                                            *)

\* What is loaded stands before what is still to be reached.
Behind(loaded, rest) == \A i \in loaded, j \in rest : i.place < j.place

\* An instance that was left behind threw, or its name was taken, or it follows a
\* refused instance of its component.
Settled(all, loaded, rest) ==
    \A i \in all \ (loaded \union rest) :
        i.throws = "never" /\ i.name \notin Names(loaded) =>
            \E j \in all \ (loaded \union rest) : j.of = i.of /\ j.place < i.place

\* A service that was left behind threw, or its name was taken, or something it names
\* is not there.
ServicesSettled(rest) ==
    \A i \in AllServices \ (services \union rest) :
        i.throws = "never" /\ i.name \notin Names(services) =>
            \/ i.messaging \notin Names(messagings)
            \/ ~(Instances(i.serializers) \subseteq Names(serializers))

LoadingInv ==
    /\ stage = "idle" => serializers = {}
    /\ stage \in {"idle", "serializers"} => messagings = {}
    /\ stage \in {"idle", "serializers", "messagings"} => services = {}
    /\ stage = "serializers" =>
         Behind(serializers, todo) /\ Settled(AllSerializers, serializers, todo)
    /\ stage \notin {"idle", "serializers"} => Settled(AllSerializers, serializers, {})
    /\ stage = "messagings" =>
         Behind(messagings, todo) /\ Settled(AllMessagings, messagings, todo)
    /\ stage \notin {"idle", "serializers", "messagings"} => Settled(AllMessagings, messagings, {})
    /\ stage = "services" => Behind(services, todo) /\ ServicesSettled(todo)
    /\ stage \notin {"idle", "serializers", "messagings", "services"} => ServicesSettled({})

\* One round of the loops over serializers and messagings: an instance is loaded, or
\* refused with all that follow it in its component.
LEMMA LoadOne ==
    ASSUME NEW all, Ordered(all), NEW loaded \in SUBSET all, NEW rest \in SUBSET all,
           Behind(loaded, rest), Settled(all, loaded, rest),
           NEW i \in rest, \A j \in rest : i.place <= j.place,
           NEW ok \in BOOLEAN, ok <=> i.throws = "never" /\ i.name \notin Names(loaded),
           NEW loaded2, loaded2 = IF ok THEN loaded \union {i} ELSE loaded,
           NEW rest2, rest2 = IF ok THEN rest \ {i} ELSE RestOfComponent(rest, i)
    PROVE  Behind(loaded2, rest2) /\ Settled(all, loaded2, rest2)
<1>1. \A j \in rest \ {i} : i.place < j.place
  BY DEF Ordered
<1>2. Behind(loaded2, rest2)
  BY <1>1 DEF Behind, RestOfComponent
<1>3. i \notin loaded
  BY DEF Behind, Ordered
<1>4. ASSUME NEW k \in all \ (loaded2 \union rest2), k.throws = "never", k.name \notin Names(loaded2)
      PROVE  \E j \in all \ (loaded2 \union rest2) : j.of = k.of /\ j.place < k.place
  <2>1. CASE k \in rest
    <3>1. ~ok
      BY <1>4, <2>1
    <3>2. k # i
      BY <1>4, <3>1
    <3>3. k.of = i.of
      BY <1>4, <2>1, <3>1 DEF RestOfComponent
    <3>4. i \in all \ (loaded2 \union rest2)
      BY <1>3, <3>1 DEF RestOfComponent
    <3> QED BY <1>1, <2>1, <3>2, <3>3, <3>4
  <2>2. CASE k \notin rest
    <3>1. k \in all \ (loaded \union rest) /\ k.name \notin Names(loaded)
      BY <1>4, <2>2 DEF Names
    <3>2. PICK j \in all \ (loaded \union rest) : j.of = k.of /\ j.place < k.place
      BY <1>4, <3>1 DEF Settled
    <3>3. j \notin loaded2 \union rest2
      BY <3>2 DEF RestOfComponent
    <3> QED BY <3>2, <3>3
  <2> QED BY <2>1, <2>2
<1> QED BY <1>2, <1>4 DEF Settled

LEMMA LoadingStep ==
    ASSUME ComponentsTypeOK, LoadingInv, ComponentsNext PROVE LoadingInv'
<1>o. Ordered(AllSerializers) /\ Ordered(AllMessagings) /\ Ordered(AllServices)
  BY InOrder DEF ComponentsTypeOK, AllSerializers, AllMessagings, AllServices
<1>t. /\ serializers \subseteq AllSerializers /\ messagings \subseteq AllMessagings
      /\ services \subseteq AllServices
      /\ stage = "serializers" => todo \subseteq AllSerializers
      /\ stage = "messagings" => todo \subseteq AllMessagings
      /\ stage = "services" => todo \subseteq AllServices
  BY DEF ComponentsTypeOK, AllSerializers, AllMessagings, AllServices
<1>c. /\ configuration' = configuration /\ AllSerializers' = AllSerializers
      /\ AllMessagings' = AllMessagings /\ AllServices' = AllServices
  BY DEF ComponentsNext, LoadSerializer, LoadMessaging, LoadService, NextStage, StartServices,
         StartMessagings, AllSerializers, AllMessagings, AllServices
<1>1. ASSUME NEW i \in todo, LoadSerializer(i) PROVE LoadingInv'
  <2> DEFINE ok == i.throws = "never" /\ i.name \notin Names(serializers)
  <2>1. /\ stage = "serializers" /\ (\A j \in todo : i.place <= j.place)
        /\ serializers' = IF ok THEN serializers \union {i} ELSE serializers
        /\ todo' = IF ok THEN todo \ {i} ELSE RestOfComponent(todo, i)
        /\ UNCHANGED <<stage, messagings, services>>
    BY <1>1 DEF LoadSerializer, Loading
  <2>2. ok \in BOOLEAN
    OBVIOUS
  <2>3. Behind(serializers, todo) /\ Settled(AllSerializers, serializers, todo)
    BY <2>1 DEF LoadingInv
  <2>4. Behind(serializers', todo') /\ Settled(AllSerializers, serializers', todo')
    <3> HIDE DEF ok
    <3>1. ok <=> i.throws = "never" /\ i.name \notin Names(serializers)
      BY DEF ok
    <3> QED BY <1>o, <1>t, <2>1, <2>2, <2>3, <3>1, LoadOne
  <2>5. /\ Behind(serializers, todo)' /\ Settled(AllSerializers, serializers, todo)'
        /\ stage' = "serializers" /\ messagings' = {} /\ services' = {}
    BY <1>c, <2>1, <2>4 DEF Behind, Settled, Names, LoadingInv
  <2> QED BY <2>5 DEF LoadingInv
<1>2. ASSUME NEW i \in todo, LoadMessaging(i) PROVE LoadingInv'
  <2> DEFINE ok == i.throws = "never" /\ i.name \notin Names(messagings)
  <2>1. /\ stage = "messagings" /\ (\A j \in todo : i.place <= j.place)
        /\ messagings' = IF ok THEN messagings \union {i} ELSE messagings
        /\ todo' = IF ok THEN todo \ {i} ELSE RestOfComponent(todo, i)
        /\ UNCHANGED <<stage, serializers, services>>
    BY <1>2 DEF LoadMessaging, Loading
  <2>2. ok \in BOOLEAN
    OBVIOUS
  <2>3. Behind(messagings, todo) /\ Settled(AllMessagings, messagings, todo)
    BY <2>1 DEF LoadingInv
  <2>4. Behind(messagings', todo') /\ Settled(AllMessagings, messagings', todo')
    <3> HIDE DEF ok
    <3>1. ok <=> i.throws = "never" /\ i.name \notin Names(messagings)
      BY DEF ok
    <3> QED BY <1>o, <1>t, <2>1, <2>2, <2>3, <3>1, LoadOne
  <2>5. /\ Behind(messagings, todo)' /\ Settled(AllMessagings, messagings, todo)'
        /\ Settled(AllSerializers, serializers, {})'
        /\ stage' = "messagings" /\ services' = {}
    BY <1>c, <2>1, <2>4 DEF Behind, Settled, Names, LoadingInv
  <2> QED BY <2>5 DEF LoadingInv
<1>3. ASSUME NEW i \in todo, LoadService(i) PROVE LoadingInv'
  <2>1. /\ stage = "services" /\ (\A j \in todo : i.place <= j.place)
        /\ services' = services \/ services' = services \union {i}
        /\ todo' = todo \ {i}
        /\ UNCHANGED <<stage, serializers, messagings>>
    BY <1>3 DEF LoadService, Loading
  <2>2. Behind(services, todo)'
    BY <1>o, <1>t, <2>1 DEF LoadingInv, Behind, Ordered
  <2>3. ServicesSettled(todo)'
    <3> SUFFICES ASSUME NEW k \in AllServices \ (services' \union todo'),
                        k.throws = "never", k.name \notin Names(services')
                 PROVE  \/ k.messaging \notin Names(messagings)
                        \/ ~(Instances(k.serializers) \subseteq Names(serializers))
      BY <1>c, <2>1 DEF ServicesSettled, Names
    <3>1. k.name \notin Names(services) /\ k \notin services
      BY <2>1 DEF Names
    <3>2. CASE k \in todo
      BY <1>3, <2>1, <3>1, <3>2 DEF LoadService, Bound
    <3>3. CASE k \notin todo
      BY <2>1, <3>1, <3>3 DEF LoadingInv, ServicesSettled
    <3> QED BY <3>2, <3>3
  <2>4. Settled(AllSerializers, serializers, {})' /\ Settled(AllMessagings, messagings, {})'
    BY <1>c, <2>1 DEF Settled, Names, LoadingInv
  <2> QED BY <2>1, <2>2, <2>3, <2>4 DEF LoadingInv
<1>4. CASE NextStage
  <2>1. UNCHANGED <<serializers, messagings, services>> /\ todo = {}
    BY <1>4 DEF NextStage, maps
  <2>2. CASE stage = "idle" /\ stage' = "serializers" /\ todo' = AllSerializers
    BY <1>c, <2>1, <2>2 DEF LoadingInv, Behind, Settled
  <2>3. CASE stage = "serializers" /\ stage' = "messagings" /\ todo' = AllMessagings
    BY <1>c, <2>1, <2>3 DEF LoadingInv, Behind, Settled, Names
  <2>4. CASE stage = "messagings" /\ stage' = "services" /\ todo' = AllServices
    BY <1>c, <2>1, <2>4 DEF LoadingInv, Behind, Settled, ServicesSettled, Names
  <2>5. CASE stage = "services" /\ stage' = "start" /\ todo' = {}
    BY <1>c, <2>1, <2>5 DEF LoadingInv, Settled, ServicesSettled, Names
  <2> QED BY <1>4, <2>2, <2>3, <2>4, <2>5 DEF NextStage, AllSerializers, AllMessagings, AllServices
<1>5. CASE StartServices \/ StartMessagings
  BY <1>5, <1>c DEF StartServices, StartMessagings, maps, LoadingInv, Settled, ServicesSettled, Names
<1> QED BY <1>1, <1>2, <1>3, <1>4, <1>5 DEF ComponentsNext

\* What a loaded service names is there, and who has its messages.
HandlerInv ==
    /\ \A s \in services : s.messaging \in Names(messagings)
    /\ MessagesReachService

LEMMA HandlerStep ==
    ASSUME ComponentsTypeOK, LoadingInv, HandlerInv, ComponentsNext PROVE HandlerInv'
<1>t. /\ services \subseteq AllServices /\ messagings \subseteq AllMessagings
      /\ handler \in [Names(AllMessagings) -> AllServices \union {NoInstance}]
      /\ stage = "services" => todo \subseteq AllServices
  BY DEF ComponentsTypeOK, AllServices, AllMessagings
<1>1. ASSUME NEW i \in todo, LoadSerializer(i) \/ LoadMessaging(i) PROVE HandlerInv'
  <2>1. services = {} /\ services' = {}
    BY <1>1 DEF LoadSerializer, LoadMessaging, Loading, LoadingInv
  <2> QED BY <2>1 DEF HandlerInv, MessagesReachService
<1>2. ASSUME NEW i \in todo, LoadService(i) PROVE HandlerInv'
  <2> DEFINE ok == /\ Bound(i) /\ Instances(i.serializers) \subseteq Names(serializers)
                   /\ i.throws = "never" /\ i.name \notin Names(services)
  <2>1. /\ stage = "services" /\ i \in AllServices
        /\ services' = IF ok THEN services \union {i} ELSE services
        /\ handler' = IF Registers(i) THEN [handler EXCEPT ![i.messaging] = i] ELSE handler
        /\ UNCHANGED <<configuration, serializers, messagings>>
    BY <1>2, <1>t DEF LoadService, Loading
  <2>2. \A s \in services : s.place < i.place /\ s.messaging \in Names(AllMessagings)
    BY <1>t, <2>1 DEF LoadingInv, Behind, HandlerInv, Names
  <2>3. Bound(i) => i.messaging \in Names(messagings) /\ i.messaging \in Names(AllMessagings)
    BY <1>t DEF Bound, Names
  <2>4. \A s \in services' : s.messaging \in Names(messagings)'
    BY <2>1, <2>3 DEF HandlerInv, Names
  <2>5. ASSUME NEW s \in services', s.early \/ s.serializers # <<>>
        PROVE  handler'[s.messaging] = s
                 \/ (handler'[s.messaging] \in AllServices /\ handler'[s.messaging].place > s.place)
    <3>1. CASE s \in services
      <4>1. handler[s.messaging] = s
              \/ (handler[s.messaging] \in AllServices /\ handler[s.messaging].place > s.place)
        BY <2>5, <3>1 DEF HandlerInv, MessagesReachService, AllServices
      <4>2. CASE Registers(i) /\ s.messaging = i.messaging
        <5>1. handler'[s.messaging] = i
          BY <1>t, <2>1, <2>3, <4>2 DEF Registers
        <5>2. i.place \in Nat /\ s.place \in Nat /\ s.place < i.place
          BY <1>t, <2>1, <2>2, <3>1, InOrder DEF ComponentsTypeOK, Ordered, AllServices
        <5> QED BY <2>1, <5>1, <5>2
      <4>3. CASE ~(Registers(i) /\ s.messaging = i.messaging)
        <5>1. handler'[s.messaging] = handler[s.messaging]
          BY <1>t, <2>1, <2>2, <3>1, <4>3
        <5> QED BY <4>1, <5>1
      <4> QED BY <4>2, <4>3
    <3>2. CASE s = i /\ ok
      <4>1. i.serializers # <<>> => Head(i.serializers) \in Names(serializers)
        <5>1. i.serializers \in Seq(STRING)
          BY <2>1, ComponentsAssumption DEF ComponentsTypeOK, IsConfiguration, AllServices, Instances
        <5>2. i.serializers # <<>> => Head(i.serializers) \in Instances(i.serializers)
          BY <5>1 DEF Instances
        <5> QED BY <3>2, <5>2
      <4>2. Registers(i)
        BY <2>5, <3>2, <4>1 DEF Registers
      <4>3. handler'[s.messaging] = i
        BY <1>t, <2>1, <2>3, <3>2, <4>2 DEF Registers
      <4> QED BY <3>2, <4>3
    <3> QED BY <2>1, <3>1, <3>2
  <2>6. AllServices' = AllServices
    BY <2>1 DEF AllServices
  <2> QED BY <2>4, <2>5, <2>6 DEF HandlerInv, MessagesReachService, AllServices
<1>3. CASE NextStage \/ StartServices \/ StartMessagings
  <2>1. UNCHANGED <<configuration, services, messagings, handler>>
    BY <1>3 DEF NextStage, StartServices, StartMessagings, maps
  <2> QED BY <2>1 DEF HandlerInv, MessagesReachService, Names
<1> QED BY <1>1, <1>2, <1>3 DEF ComponentsNext

LEMMA ExclusiveStep ==
    ASSUME ExclusiveAccessIsLive, ComponentsNext PROVE ExclusiveAccessIsLive'
<1>1. ASSUME NEW i \in todo, LoadMessaging(i) PROVE ExclusiveAccessIsLive'
  <2>1. Names(messagings) \subseteq Names(messagings')
    BY <1>1 DEF LoadMessaging, Names
  <2>2. i.throws = "never" => i.name \in Names(messagings')
    BY <1>1 DEF LoadMessaging, Names
  <2>3. (exclusive' = i /\ i.throws = "never") \/ exclusive' = exclusive
    BY <1>1 DEF LoadMessaging, GivesExclusive
  <2> QED BY <2>1, <2>2, <2>3 DEF ExclusiveAccessIsLive, Names
<1>2. ASSUME NEW i \in todo, LoadSerializer(i) \/ LoadService(i) PROVE ExclusiveAccessIsLive'
  BY <1>2 DEF LoadSerializer, LoadService, ExclusiveAccessIsLive, Names
<1>3. CASE NextStage \/ StartServices \/ StartMessagings
  BY <1>3 DEF NextStage, StartServices, StartMessagings, maps, ExclusiveAccessIsLive, Names
<1> QED BY <1>1, <1>2, <1>3 DEF ComponentsNext

\* What the invariant of the loading says when it is over.
LEMMA LoadedForAReason == ASSUME LoadingInv PROVE RefusedForAReason
<1> SUFFICES ASSUME stage \in {"start", "startMessagings", "started"} PROVE RefusedForAReason
  BY DEF RefusedForAReason
<1>1. Settled(AllSerializers, serializers, {}) /\ Settled(AllMessagings, messagings, {})
      /\ ServicesSettled({})
  BY DEF LoadingInv
<1> QED BY <1>1 DEF RefusedForAReason, Settled, ServicesSettled, AllSerializers, AllMessagings, AllServices
-----------------------------------------------------------------------------
(* The main thread, the Scheduler's worker and the watch dog.              *)

\* The handler is registered for a number of signals.
LEMMA SignalsAreFinite == Cardinality(Signals) \in Nat
<1>1. IsFiniteSet({"SIGINT"}) /\ IsFiniteSet({"SIGTERM"}) /\ IsFiniteSet({"SIGABRT"})
      /\ IsFiniteSet({"SIGQUIT"})
  BY FS_Singleton
<1>2. IsFiniteSet({"SIGINT"} \union {"SIGTERM"})
  BY <1>1, FS_Union
<1>3. IsFiniteSet(({"SIGINT"} \union {"SIGTERM"}) \union {"SIGABRT"})
  BY <1>1, <1>2, FS_Union
<1>4. IsFiniteSet((({"SIGINT"} \union {"SIGTERM"}) \union {"SIGABRT"}) \union {"SIGQUIT"})
  BY <1>1, <1>3, FS_Union
<1>5. Signals = (({"SIGINT"} \union {"SIGTERM"}) \union {"SIGABRT"}) \union {"SIGQUIT"}
  BY DEF Signals
<1> QED BY <1>4, <1>5, FS_CardinalityType

\* The watch dog is petted at least once in half of its time.
LEMMA PetPeriodIsHalf ==
    ASSUME timeout \in Nat PROVE PetPeriod \in Nat \ {0} /\ (timeout >= 2 => PetPeriod <= timeout \div 2)
BY DEF PetPeriod, Largest

\* What is true where the main thread is.
Started == {"test", "wait", "exit", "watchDogExit", "deadlocked"}
MainInv ==
    /\ runs <=> pc \in Started
    /\ runs => stage = "started"
    /\ ~runs => pets = 0 /\ busy = 0 /\ petIn = 0

\* How old the last pet can be: until the next one is fired, and once it is queued. And
\* how much older the main thread lets it become while it waits.
PetInv ==
    /\ timeout # 1
    /\ busy <= longest
    /\ runs /\ pets = 0 => age + petIn <= Largest(lag, PetPeriod)
    /\ runs /\ pets > 0 => age + busy <= Largest(lag, PetPeriod) + longest
    /\ pc = "wait" /\ timeout > 0 => age + wakeIn < 2 * timeout
    /\ BitesOnlyWhenHeldUp

DaemonInv == DaemonTypeOK /\ LoadingInv /\ HandlerInv /\ ExclusiveAccessIsLive /\ MainInv /\ PetInv

LEMMA DaemonInvInit == ASSUME DaemonInit PROVE DaemonInv
<1>1. configuration \in Configurations /\ timeout \in Nat /\ timeout # 1
  BY DaemonStartAssumption DEF DaemonInit
<1>2. ComponentsTypeOK
  BY <1>1, ComponentsTypeInit DEF DaemonInit
<1>3. DaemonTypeOK
  <2>1. 0 \in 0..Cardinality(Signals) /\ 0 \in 0..PetPeriod /\ 0 \in 0..timeout
    BY <1>1, SignalsAreFinite, PetPeriodIsHalf
  <2>2. 0 \in 0..MaxPets /\ 0 \in 0..MaxBusy /\ 0 \in 0..MaxAge
    BY DaemonStartAssumption
  <2>3. runs \in BOOLEAN /\ m_running \in BOOLEAN /\ asked \in BOOLEAN /\ lost \in BOOLEAN
    BY DEF DaemonInit
  <2> QED BY <1>1, <1>2, <2>1, <2>2, <2>3 DEF DaemonInit, DaemonTypeOK
<1>4. LoadingInv /\ HandlerInv /\ ExclusiveAccessIsLive
  BY DEF DaemonInit, ComponentsInit, LoadingInv, HandlerInv, MessagesReachService, ExclusiveAccessIsLive,
         Names
<1>5. MainInv /\ PetInv
  BY <1>1 DEF DaemonInit, MainInv, Started, PetInv, BitesOnlyWhenHeldUp
<1> QED BY <1>3, <1>4, <1>5 DEF DaemonInv

\* The steps that leave the components alone leave what is known of them.
LEMMA ComponentsUnchanged ==
    ASSUME UNCHANGED componentVars
    PROVE  /\ ComponentsTypeOK => ComponentsTypeOK'
           /\ LoadingInv => LoadingInv'
           /\ HandlerInv => HandlerInv'
           /\ ExclusiveAccessIsLive => ExclusiveAccessIsLive'
BY DEF componentVars, maps, ComponentsTypeOK, LoadingInv, HandlerInv, MessagesReachService,
       ExclusiveAccessIsLive, Behind, Settled, ServicesSettled, AllSerializers, AllMessagings,
       AllServices

\* The steps other than those of the loading leave the components alone.
LEMMA OnlyLoading ==
    ASSUME [DaemonNext]_daemonVars PROVE LoadComponents \/ UNCHANGED componentVars
BY DEF DaemonNext, Main, daemonVars, RegisterHandler, Return, RunController, Run, AttemptFails, StartIqrfIf,
       StartDpa, StartScheduler, ServicesStarted, Test, Wake, Exit, ExitDeadlocks, FirePet,
       WatchDogPet, ClientTask, TransactionPets, Tick

\* Every step of the daemon preserves the types.
LEMMA TypeStep == ASSUME DaemonTypeOK, [DaemonNext]_daemonVars PROVE DaemonTypeOK'
<1> DEFINE MainTypes ==
             /\ handlers \in 0..Cardinality(Signals)
             /\ pc \in {"startup", "returned", "loadConfiguration", "startIqrfIf", "startDpa",
                       "startScheduler", "startServices", "test", "wait", "exit", "watchDogExit",
                       "deadlocked"}
             /\ timeout \in Nat /\ wakeIn \in 0..timeout /\ iface \in {"none", "ready"}
             /\ attempts \in 1..2
           PetTypes ==
             /\ petIn \in 0..PetPeriod /\ pets \in 0..MaxPets /\ busy \in 0..MaxBusy
             /\ lag \in 0..MaxAge /\ longest \in 0..MaxBusy
           Flags == runs \in BOOLEAN /\ m_running \in BOOLEAN /\ asked \in BOOLEAN /\ lost \in BOOLEAN
<1>1. MainTypes /\ PetTypes /\ Flags /\ age \in 0..MaxAge /\ ComponentsTypeOK
  BY DEF DaemonTypeOK
<1>2. SUFFICES MainTypes' /\ PetTypes' /\ Flags' /\ (age \in 0..MaxAge)' /\ ComponentsTypeOK'
  BY DEF DaemonTypeOK
<1>3. /\ Cardinality(Signals) \in Nat /\ MaxPets \in Nat /\ MaxBusy \in Nat /\ MaxAge \in Nat
      /\ PetPeriod \in Nat \ {0}
  BY <1>1, SignalsAreFinite, PetPeriodIsHalf, DaemonStartAssumption
<1>4. ComponentsTypeOK'
  BY <1>1, OnlyLoading, ComponentsUnchanged, ComponentsTypeStep DEF LoadComponents
<1>5. UNCHANGED timeout
  BY DEF DaemonNext, Main, daemonVars, mainVars, RegisterHandler, Return, RunController, Run, AttemptFails,
         StartIqrfIf, StartDpa, StartScheduler, LoadComponents, ServicesStarted, Test, Wake, Exit,
         ExitDeadlocks, FirePet, WatchDogPet, ClientTask, TransactionPets, Tick
<1>6. PetPeriod' = PetPeriod
  BY <1>5 DEF PetPeriod
<1>7. ASSUME NEW ticks \in Nat, Older(ticks) PROVE age' \in 0..MaxAge
  BY <1>1, <1>3, <1>7 DEF Older
<1>8. MainTypes'
  BY <1>1, <1>3, <1>5
     DEF DaemonNext, Main, daemonVars, mainVars, MainGoes, RegisterHandler, Return, RunController, Run,
         AttemptFails, StartIqrfIf, StartDpa, StartScheduler, LoadComponents, ServicesStarted, Test,
         Wake, Exit, ExitDeadlocks, FirePet, WatchDogPet, ClientTask, TransactionPets, Tick, Sooner
<1>9. PetTypes'
  <2>1. CASE ServicesStarted \/ StartScheduler
    BY <1>1, <1>3, <1>6, <2>1 DEF ServicesStarted, StartScheduler
  <2>2. CASE FirePet \/ WatchDogPet
    BY <1>1, <1>3, <1>6, <2>2 DEF FirePet, WatchDogPet
  <2>3. ASSUME NEW ticks \in 1..MaxBusy, ClientTask(ticks) PROVE PetTypes'
    BY <1>1, <1>3, <1>6, <2>3 DEF ClientTask, Largest
  <2>4. CASE Tick
    BY <1>1, <1>3, <1>6, <2>4 DEF Tick, Sooner
  <2>5. CASE UNCHANGED petVars
    BY <1>1, <1>6, <2>5 DEF petVars
  <2> QED
    BY <2>1, <2>2, <2>3, <2>4, <2>5
       DEF DaemonNext, Main, daemonVars, RegisterHandler, Return, RunController, Run, AttemptFails, StartIqrfIf,
           StartDpa, LoadComponents, Test, Wake, Exit, ExitDeadlocks, TransactionPets
<1>10. (age \in 0..MaxAge)'
  <2>1. CASE AttemptFails
    BY <1>7, <2>1 DEF AttemptFails
  <2>2. CASE Tick
    BY <1>7, <2>2 DEF Tick
  <2>3. CASE age' \in {0, age}
    BY <1>1, <1>3, <2>3
  <2> QED
    BY <2>1, <2>2, <2>3
       DEF DaemonNext, Main, daemonVars, RegisterHandler, Return, RunController, Run, StartIqrfIf, StartDpa,
           StartScheduler, LoadComponents, ServicesStarted, Test, Wake, Exit, ExitDeadlocks, FirePet,
           WatchDogPet, ClientTask, TransactionPets, petVars
<1>11. Flags'
  BY <1>1
     DEF DaemonNext, Main, daemonVars, petVars, exitVars, RegisterHandler, Return, RunController, Run, AttemptFails,
         StartIqrfIf, StartDpa, StartScheduler, LoadComponents, ServicesStarted, Test, Wake, Exit,
         ExitDeadlocks, FirePet, WatchDogPet, ClientTask, TransactionPets, Tick
<1> QED BY <1>4, <1>8, <1>9, <1>10, <1>11

\* The Scheduler runs when all components are started, and holds no task before.
LEMMA MainStep == ASSUME DaemonTypeOK, MainInv, [DaemonNext]_daemonVars PROVE MainInv'
<1>1. CASE UNCHANGED <<pc, runs, stage>> /\ (runs \/ UNCHANGED <<pets, busy, petIn>>)
  BY <1>1 DEF MainInv, Started
<1>2. CASE LoadComponents
  <2>1. ~runs /\ UNCHANGED <<pc, runs, pets, busy, petIn>>
    BY <1>2 DEF LoadComponents, mainVars, petVars, MainInv, Started
  <2> QED BY <2>1 DEF MainInv, Started
<1>3. CASE ServicesStarted
  <2>1. pc = "startServices" /\ pc' = "test" /\ stage = "started" /\ runs' = TRUE /\ stage' = stage
    BY <1>3 DEF ServicesStarted, MainGoes, componentVars
  <2> QED BY <2>1 DEF MainInv, Started
<1>4. CASE \/ Return \/ RunController \/ Run \/ AttemptFails \/ StartIqrfIf \/ StartDpa
           \/ StartScheduler
  <2>1. /\ pc \notin Started /\ pc' \notin Started /\ UNCHANGED <<runs, pets, busy, stage>>
        /\ petIn' = petIn \/ petIn' = 0
    BY <1>4 DEF Return, RunController, Run, AttemptFails, StartIqrfIf, StartDpa, StartScheduler,
                MainGoes, componentVars, petVars, Started
  <2> QED BY <2>1 DEF MainInv
<1>5. CASE Test \/ Wake \/ ExitDeadlocks
  <2>1. pc \in Started /\ pc' \in Started /\ UNCHANGED <<runs, pets, busy, stage>>
    BY <1>5 DEF Test, Wake, ExitDeadlocks, MainGoes, componentVars, petVars, Started
  <2> QED BY <2>1 DEF MainInv
<1>6. CASE FirePet
  BY <1>1, <1>6 DEF FirePet, mainVars, componentVars
<1>7. CASE WatchDogPet
  <2>1. runs
    BY <1>7 DEF WatchDogPet, MainInv
  <2> QED BY <1>1, <1>7, <2>1 DEF WatchDogPet, mainVars, componentVars
<1>8. CASE Tick
  <2>1. runs
    BY <1>8 DEF Tick, MainInv, Started
  <2> QED BY <1>1, <1>8, <2>1 DEF Tick, componentVars
<1>9. ASSUME NEW ticks \in 1..MaxBusy, ClientTask(ticks) PROVE MainInv'
  BY <1>1, <1>9 DEF ClientTask, mainVars, componentVars
<1>10. CASE RegisterHandler \/ Exit \/ TransactionPets \/ UNCHANGED daemonVars
  BY <1>1, <1>10 DEF RegisterHandler, Exit, TransactionPets, daemonVars, mainVars, petVars, componentVars
<1> QED
  BY <1>2, <1>3, <1>4, <1>5, <1>6, <1>7, <1>8, <1>9, <1>10 DEF DaemonNext, Main

\* No step lets the last pet become older than what the pets wait for.
LEMMA PetStep == ASSUME DaemonTypeOK, MainInv, PetInv, [DaemonNext]_daemonVars PROVE PetInv'
<1> DEFINE half == Largest(lag, PetPeriod)
<1>1. /\ timeout \in Nat /\ timeout # 1 /\ age \in Nat /\ wakeIn \in 0..timeout /\ petIn \in 0..PetPeriod
      /\ pets \in Nat /\ busy \in Nat /\ lag \in Nat /\ longest \in Nat /\ MaxAge \in Nat
  BY DaemonStartAssumption DEF DaemonTypeOK, PetInv
<1>2. PetPeriod \in Nat \ {0} /\ (timeout >= 2 => PetPeriod <= timeout \div 2)
  BY <1>1, PetPeriodIsHalf
<1>3. half \in Nat /\ half >= PetPeriod /\ half >= lag
  BY <1>1, <1>2 DEF Largest
<1>4. CASE \/ RegisterHandler \/ Return \/ RunController \/ Run \/ AttemptFails \/ StartIqrfIf
           \/ StartDpa \/ StartScheduler \/ LoadComponents
  <2>1. /\ pc \notin Started /\ pc' \notin Started /\ ~runs
        /\ UNCHANGED <<timeout, runs, busy, longest>>
    BY <1>4 DEF RegisterHandler, Return, RunController, Run, AttemptFails, StartIqrfIf, StartDpa,
                StartScheduler, LoadComponents, MainGoes, mainVars, petVars, Started, MainInv
  <2> QED BY <2>1 DEF PetInv, BitesOnlyWhenHeldUp, Started
<1>5. CASE ServicesStarted
  <2>1. /\ pc = "startServices" /\ pc' = "test" /\ runs' = TRUE /\ lag' = age
        /\ UNCHANGED <<timeout, age, petIn, pets, busy, longest>>
    BY <1>5 DEF ServicesStarted, MainGoes
  <2> QED BY <1>1, <2>1 DEF PetInv, MainInv, Started, Largest, PetPeriod, BitesOnlyWhenHeldUp
<1>6. CASE Test
  <2>1. CASE pc' = "watchDogExit"
    <3>1. pc \in Started /\ timeout >= 2 /\ age >= timeout
      BY <1>1, <1>6, <2>1 DEF Test, Started
    <3>2. age <= half + longest
      BY <1>1, <1>3, <3>1 DEF PetInv, MainInv
    <3>3. half <= Largest(lag, timeout \div 2)
      BY <1>1, <1>2, <3>1 DEF Largest
    <3>4. longest + Largest(lag, timeout \div 2) >= timeout
      <4>1. Largest(lag, timeout \div 2) \in Nat
        BY <1>1, <3>1 DEF Largest
      <4> QED
        <5> HIDE DEF half
        <5> QED BY <1>1, <1>3, <3>1, <3>2, <3>3, <4>1
    <3>5. PetPeriod' = PetPeriod
      BY <1>6 DEF Test, PetPeriod
    <3> QED BY <1>6, <2>1, <3>4, <3>5 DEF Test, petVars, PetInv, BitesOnlyWhenHeldUp
  <2>2. CASE pc' # "watchDogExit"
    BY <1>1, <1>6, <2>2 DEF Test, petVars, PetInv, BitesOnlyWhenHeldUp, PetPeriod
  <2> QED BY <2>1, <2>2
<1>7. CASE Wake \/ ExitDeadlocks \/ Exit \/ UNCHANGED daemonVars
  BY <1>7 DEF Wake, ExitDeadlocks, Exit, MainGoes, daemonVars, mainVars, petVars, PetInv,
              BitesOnlyWhenHeldUp, PetPeriod
<1>8. CASE FirePet
  BY <1>1, <1>2, <1>3, <1>8 DEF FirePet, mainVars, PetInv, BitesOnlyWhenHeldUp, PetPeriod
<1>9. CASE WatchDogPet
  BY <1>1, <1>2, <1>3, <1>9 DEF WatchDogPet, mainVars, PetInv, BitesOnlyWhenHeldUp, PetPeriod
<1>10. ASSUME NEW ticks \in 1..MaxBusy, ClientTask(ticks) PROVE PetInv'
  <2>1. /\ pets = 0 /\ pets' = 0 /\ busy' <= longest' /\ longest' >= longest /\ longest' \in Nat
        /\ PetPeriod' = PetPeriod
        /\ UNCHANGED <<pc, timeout, age, wakeIn, runs, petIn, lag>>
    BY <1>1, <1>10, DaemonStartAssumption DEF ClientTask, mainVars, Largest, PetPeriod
  <2>2. BitesOnlyWhenHeldUp'
    BY <1>10, <2>1 DEF ClientTask, Serving, BitesOnlyWhenHeldUp
  <2>3. timeout' # 1 /\ (pc' = "wait" /\ timeout' > 0 => age' + wakeIn' < 2 * timeout')
    BY <2>1 DEF PetInv
  <2> QED BY <1>1, <1>3, <2>1, <2>2, <2>3 DEF PetInv
<1>11. CASE TransactionPets
  BY <1>1, <1>2, <1>3, <1>11
     DEF TransactionPets, mainVars, petVars, PetInv, BitesOnlyWhenHeldUp, PetPeriod
<1>12. CASE Tick
  <2>1. /\ age' <= age + 1 /\ PetPeriod' = PetPeriod
        /\ UNCHANGED <<pc, timeout, runs, pets, lag, longest>>
    BY <1>1, <1>12 DEF Tick, Older, PetPeriod
  <2>2. age' \in Nat
    BY <1>1, <1>12 DEF Tick, Older
  <2>3. pets = 0 => petIn' = petIn - 1
    BY <1>1, <1>12, DaemonStartAssumption DEF Tick, Sooner
  <2>4. pets > 0 => busy' = busy - 1
    BY <1>1, <1>12 DEF Tick, Sooner
  <2>5. busy' <= busy /\ busy' \in Nat
    BY <1>1, <1>12 DEF Tick, Sooner
  <2>6. timeout > 0 => wakeIn' = wakeIn - 1
    BY <1>1, <1>12 DEF Tick, Sooner
  <2>7. pc = "wait"
    BY <1>12 DEF Tick
  <2> QED BY <1>1, <1>3, <2>1, <2>2, <2>3, <2>4, <2>5, <2>6, <2>7 DEF PetInv, BitesOnlyWhenHeldUp
<1> QED
  BY <1>4, <1>5, <1>6, <1>7, <1>8, <1>9, <1>10, <1>11, <1>12 DEF DaemonNext, Main

\* The invariant of the start is inductive.
LEMMA DaemonStep == ASSUME DaemonInv, [DaemonNext]_daemonVars PROVE DaemonInv'
<1>1. DaemonTypeOK' /\ MainInv' /\ PetInv'
  BY TypeStep, MainStep, PetStep DEF DaemonInv
<1>2. ComponentsTypeOK
  BY DEF DaemonInv, DaemonTypeOK
<1>3. CASE LoadComponents
  BY <1>1, <1>2, <1>3, LoadingStep, HandlerStep, ExclusiveStep DEF LoadComponents, DaemonInv
<1>4. CASE UNCHANGED componentVars
  BY <1>1, <1>4, ComponentsUnchanged DEF DaemonInv
<1> QED BY <1>3, <1>4, OnlyLoading

LEMMA DaemonInvariant == DaemonSpec => []DaemonInv
<1>1. DaemonInit => DaemonInv
  BY DaemonInvInit
<1>2. DaemonInv /\ [DaemonNext]_daemonVars => DaemonInv'
  BY DaemonStep
<1> QED BY <1>1, <1>2, PTL DEF DaemonSpec

-----------------------------------------------------------------------------
\* Every variable of the start, of the loading and of the watch dog always holds a value
\* of its type, however many signals come and however late the tasks are.
THEOREM StartTypeCorrect == DaemonSpec => []DaemonTypeOK
<1>1. DaemonInv => DaemonTypeOK
  BY DEF DaemonInv
<1> QED BY <1>1, DaemonInvariant, PTL

\* DaemonController::startServices and the Scheduler beside it: whatever the configuration
\* holds and whatever throws, a refused instance costs only what is excused, the exclusive
\* access is given to a messaging that is there, each loaded service has its messages
\* unless a later one took them, and no task meets a service that is not started.
THEOREM StartAgrees == DaemonSpec => []ComponentsAgree
<1>1. DaemonInv => ComponentsAgree
  <2> SUFFICES ASSUME DaemonInv PROVE ComponentsAgree
    OBVIOUS
  <2>1. RefusedForAReason
    BY LoadedForAReason DEF DaemonInv
  <2>2. pets \in Nat /\ busy \in Nat
    BY DaemonStartAssumption DEF DaemonInv, DaemonTypeOK
  <2>3. TasksMeetStartedServices
    BY <2>2 DEF DaemonInv, MainInv, TasksMeetStartedServices
  <2> QED BY <2>1, <2>3 DEF DaemonInv, HandlerInv, ComponentsAgree
<1> QED BY <1>1, DaemonInvariant, PTL

\* The loop of DaemonController::run: for any time of the watch dog but that of one tick,
\* it ends the daemon only when tasks held the Scheduler's worker up for as long as the
\* bound says, and never lets twice its time pass without a pet.
THEOREM WatchDogJust == DaemonSpec => []WatchDogIsJust
<1>1. DaemonInv => WatchDogIsJust
  <2> SUFFICES ASSUME DaemonInv PROVE WatchDogIsJust
    OBVIOUS
  <2>1. DaemonTypeOK /\ PetInv
    BY DEF DaemonInv
  <2>2. timeout \in Nat /\ age \in Nat /\ wakeIn \in Nat
    BY <2>1, DaemonStartAssumption DEF DaemonTypeOK
  <2>3. BitesInTime
    BY <2>1, <2>2 DEF PetInv, BitesInTime, Serving
  <2> QED BY <2>1, <2>3 DEF PetInv, WatchDogIsJust
<1> QED BY <1>1, DaemonInvariant, PTL

-----------------------------------------------------------------------------
(* The configuration files: what the parts read.                           *)

\* A read of one of the functions; only a list of nodes is a vector of ints.
SomeReads(names) ==
    UNION {[how : {"required", "possible"}, member : names \ {"DefaultTimeout"},
            type : {"int", "bool", "string"}],
           [how : {"possible"}, member : {"DefaultTimeout"}, type : {"int"}],
           [how : {"vector"}, member : {"Pulsemeters", "ProtocolBridges", "Thermometers"},
            type : {"int"}],
           [how : {"vector"}, member : {"Serializers"}, type : {"string"}],
           [how : {"object"}, member : {"Properties"}, type : {"object"}],
           [how : {"pattern"}, member : {"DpaRequestJsonPattern"}, type : {"object"}],
           [how : {"components"}, member : {"Components"}, type : {"component"}]}

NamesOf(s) == {s[i].member : i \in DOMAIN s}
Distinct(s) == \A i, j \in DOMAIN s : s[i].member = s[j].member => i = j
AreReads(s, names) == s \in Seq(SomeReads(names)) /\ Distinct(s) /\ NamesOf(s) = names

\* A sequence of different names.
AreNames(n, names, S) ==
    /\ n \in Nat /\ DOMAIN names = 1..n /\ "DefaultTimeout" \notin S
    /\ \A i, j \in 1..n : names[i] = names[j] => i = j
    /\ \A i \in 1..n : names[i] \in S
    /\ \A m \in S : \E i \in 1..n : names[i] = m

\* Members that are read in the same way.
LEMMA SameWay ==
  ASSUME NEW n, NEW names, NEW S, AreNames(n, names, S), NEW type \in {"int", "bool", "string"}
  PROVE  /\ AreReads(Required(type, names), S) /\ Len(Required(type, names)) = n
         /\ AreReads(Possible(type, names), S) /\ Len(Possible(type, names)) = n
<1>0. /\ n \in Nat /\ DOMAIN names = 1..n /\ "DefaultTimeout" \notin S
      /\ \A i, j \in 1..n : names[i] = names[j] => i = j
      /\ \A i \in 1..n : names[i] \in S
      /\ \A m \in S : \E i \in 1..n : names[i] = m
  BY DEF AreNames
<1> DEFINE r == Required(type, names)
           p == Possible(type, names)
<1>1. DOMAIN r = 1..n /\ \A i \in 1..n : r[i] = [how |-> "required", member |-> names[i], type |-> type]
  BY <1>0 DEF Required
<1>2. DOMAIN p = 1..n /\ \A i \in 1..n : p[i] = [how |-> "possible", member |-> names[i], type |-> type]
  BY <1>0 DEF Possible
<1>3. r \in Seq(SomeReads(S)) /\ Len(r) = n
  <2>1. r \in [1..n -> SomeReads(S)]
    BY <1>0, <1>1 DEF SomeReads, Required
  <2> HIDE DEF r
  <2> QED BY <1>0, <1>1, <2>1, SeqDef, LenProperties
<1>4. p \in Seq(SomeReads(S)) /\ Len(p) = n
  <2>1. p \in [1..n -> SomeReads(S)]
    BY <1>0, <1>2 DEF SomeReads, Possible
  <2> HIDE DEF p
  <2> QED BY <1>0, <1>2, <2>1, SeqDef, LenProperties
<1> HIDE DEF r, p
<1>5. Distinct(r) /\ NamesOf(r) = S
  <2>1. Distinct(r)
    BY <1>0, <1>1 DEF Distinct
  <2>2. \A i \in DOMAIN r : r[i].member \in S
    BY <1>0, <1>1
  <2>3. \A m \in S : \E i \in DOMAIN r : r[i].member = m
    BY <1>0, <1>1
  <2>4. NamesOf(r) \subseteq S
    BY <1>0, <2>2 DEF NamesOf
  <2>5. S \subseteq NamesOf(r)
    BY <1>0, <2>3 DEF NamesOf
  <2> QED BY <2>1, <2>4, <2>5
<1>6. Distinct(p) /\ NamesOf(p) = S
  <2>1. Distinct(p)
    BY <1>0, <1>2 DEF Distinct
  <2>2. \A i \in DOMAIN p : p[i].member \in S
    BY <1>0, <1>2
  <2>3. \A m \in S : \E i \in DOMAIN p : p[i].member = m
    BY <1>0, <1>2
  <2>4. NamesOf(p) \subseteq S
    BY <1>0, <2>2 DEF NamesOf
  <2>5. S \subseteq NamesOf(p)
    BY <1>0, <2>3 DEF NamesOf
  <2> QED BY <2>1, <2>4, <2>5
<1> QED BY <1>3, <1>4, <1>5, <1>6 DEF AreReads, r, p

\* u is s and, behind it, t.
Joined(s, t, u) ==
    /\ Len(u) = Len(s) + Len(t)
    /\ \A i \in 1..Len(s) : u[i] = s[i]
    /\ \A i \in 1..Len(t) : u[Len(s) + i] = t[i]

\* One read after the other.
LEMMA Then ==
  ASSUME NEW s, NEW t, NEW names, NEW others, AreReads(s, names), AreReads(t, others),
         names \intersect others = {}
  PROVE  AreReads(s \o t, names \union others) /\ Joined(s, t, s \o t)
<1> DEFINE u == s \o t
<1> DEFINE R == SomeReads(names \union others)
<1>1. s \in Seq(R) /\ t \in Seq(R)
  <2>1. s \in Seq(SomeReads(names)) /\ t \in Seq(SomeReads(others))
    BY DEF AreReads
  <2>2. SomeReads(names) \subseteq R /\ SomeReads(others) \subseteq R
    BY DEF SomeReads
  <2> QED BY <2>1, <2>2, SeqMonotonic
<1>2. /\ u \in Seq(R) /\ Len(u) = Len(s) + Len(t)
      /\ \A i \in 1..Len(s) : u[i] = s[i]
      /\ \A i \in 1..Len(t) : u[Len(s) + i] = t[i]
  BY <1>1, ConcatProperties
<1> HIDE DEF u, R
<1>3. DOMAIN u = 1..(Len(s) + Len(t)) /\ DOMAIN s = 1..Len(s) /\ DOMAIN t = 1..Len(t)
  BY <1>1, <1>2
<1>4. Len(s) \in Nat /\ Len(t) \in Nat
  BY <1>1
<1>5. \A i \in DOMAIN u : \/ i \in 1..Len(s) /\ u[i] = s[i]
                          \/ i - Len(s) \in 1..Len(t) /\ u[i] = t[i - Len(s)]
  <2> TAKE i \in DOMAIN u
  <2>1. CASE i \in 1..Len(s)
    BY <1>2, <2>1
  <2>2. CASE i \notin 1..Len(s)
    <3>1. i - Len(s) \in 1..Len(t) /\ i = Len(s) + (i - Len(s))
      BY <1>3, <1>4, <2>2
    <3> QED BY <1>2, <3>1
  <2> QED BY <2>1, <2>2
<1>6. \A i \in 1..Len(s) : s[i].member \in names
  BY <1>3 DEF AreReads, NamesOf
<1>7. \A i \in 1..Len(t) : t[i].member \in others
  BY <1>3 DEF AreReads, NamesOf
<1>8. Distinct(u)
  <2> SUFFICES ASSUME NEW i \in DOMAIN u, NEW j \in DOMAIN u, u[i].member = u[j].member PROVE i = j
    BY DEF Distinct
  <2>1. CASE i \in 1..Len(s) /\ j \in 1..Len(s)
    BY <1>2, <1>3, <2>1 DEF AreReads, Distinct
  <2>2. CASE i - Len(s) \in 1..Len(t) /\ j - Len(s) \in 1..Len(t)
    <3>1. u[i] = t[i - Len(s)] /\ u[j] = t[j - Len(s)]
      BY <1>3, <1>4, <1>5, <2>2
    <3>2. i - Len(s) = j - Len(s)
      BY <1>3, <2>2, <3>1 DEF AreReads, Distinct
    <3> QED BY <1>3, <1>4, <3>2
  <2> QED BY <1>3, <1>4, <1>5, <1>6, <1>7, <2>1, <2>2
<1>9. NamesOf(u) = names \union others
  <2>1. NamesOf(u) \subseteq names \union others
    BY <1>5, <1>6, <1>7 DEF NamesOf
  <2>2. names \subseteq NamesOf(u)
    <3>1. \A i \in 1..Len(s) : i \in DOMAIN u /\ u[i] = s[i]
      BY <1>2, <1>3, <1>4
    <3> QED BY <1>3, <3>1 DEF NamesOf, AreReads
  <2>3. others \subseteq NamesOf(u)
    <3>1. \A i \in 1..Len(t) : Len(s) + i \in DOMAIN u /\ u[Len(s) + i] = t[i]
      BY <1>2, <1>3, <1>4
    <3> QED BY <1>3, <3>1 DEF NamesOf, AreReads
  <2> QED BY <2>1, <2>2, <2>3
<1> QED BY <1>2, <1>8, <1>9 DEF AreReads, Joined, u, R

\* The reads of one member.
LEMMA One ==
  /\ \A m : m # "DefaultTimeout" => \A type \in {"int", "bool", "string"} :
       /\ AreReads(Required(type, <<m>>), {m}) /\ Len(Required(type, <<m>>)) = 1
       /\ AreReads(Possible(type, <<m>>), {m}) /\ Len(Possible(type, <<m>>)) = 1
  /\ AreReads(Possible("int", <<"DefaultTimeout">>), {"DefaultTimeout"})
  /\ \A m \in {"Pulsemeters", "ProtocolBridges", "Thermometers"} : AreReads(Vector("int", m), {m})
  /\ AreReads(Vector("string", "Serializers"), {"Serializers"})
  /\ AreReads(Object("Properties"), {"Properties"})
  /\ AreReads(Pattern, {"DpaRequestJsonPattern"})
  /\ AreReads(Components, {"Components"})
<1>1. ASSUME NEW r, r \in SomeReads({r.member}) PROVE AreReads(<<r>>, {r.member}) /\ Len(<<r>>) = 1
  BY <1>1 DEF AreReads, Distinct, NamesOf
<1>2. ASSUME NEW type \in {"int", "bool", "string"}, NEW m, m # "DefaultTimeout"
      PROVE  /\ AreReads(Required(type, <<m>>), {m}) /\ Len(Required(type, <<m>>)) = 1
             /\ AreReads(Possible(type, <<m>>), {m}) /\ Len(Possible(type, <<m>>)) = 1
  <2> DEFINE names == <<m>>
  <2>1. DOMAIN names = 1..1 /\ names[1] = m
    OBVIOUS
  <2> HIDE DEF names
  <2>2. AreNames(1, names, {m})
    BY <1>2, <2>1 DEF AreNames
  <2>3. /\ AreReads(Required(type, names), {m}) /\ Len(Required(type, names)) = 1
        /\ AreReads(Possible(type, names), {m}) /\ Len(Possible(type, names)) = 1
    BY <2>2, SameWay
  <2> QED BY <2>3 DEF names
<1>3. AreReads(Possible("int", <<"DefaultTimeout">>), {"DefaultTimeout"})
  <2> DEFINE r == [how |-> "possible", member |-> "DefaultTimeout", type |-> "int"]
  <2>1. r \in SomeReads({r.member}) /\ r.member = "DefaultTimeout"
    BY DEF SomeReads
  <2>2. Possible("int", <<"DefaultTimeout">>) = <<r>>
    BY DEF Possible
  <2> QED BY <1>1, <2>1, <2>2
<1>4. ASSUME NEW m \in {"Pulsemeters", "ProtocolBridges", "Thermometers"}
      PROVE  AreReads(Vector("int", m), {m})
  <2> DEFINE r == [how |-> "vector", member |-> m, type |-> "int"]
  <2>1. r \in SomeReads({r.member}) /\ r.member = m
    BY DEF SomeReads
  <2> QED BY <1>1, <2>1 DEF Vector
<1>5. AreReads(Vector("string", "Serializers"), {"Serializers"})
  <2> DEFINE r == [how |-> "vector", member |-> "Serializers", type |-> "string"]
  <2>1. r \in SomeReads({r.member}) /\ r.member = "Serializers"
    BY DEF SomeReads
  <2> QED BY <1>1, <2>1 DEF Vector
<1>6. AreReads(Object("Properties"), {"Properties"})
  <2> DEFINE r == [how |-> "object", member |-> "Properties", type |-> "object"]
  <2>1. r \in SomeReads({r.member}) /\ r.member = "Properties"
    BY DEF SomeReads
  <2> QED BY <1>1, <2>1 DEF Object
<1>7. AreReads(Pattern, {"DpaRequestJsonPattern"})
  <2> DEFINE r == [how |-> "pattern", member |-> "DpaRequestJsonPattern", type |-> "object"]
  <2>1. r \in SomeReads({r.member}) /\ r.member = "DpaRequestJsonPattern"
    BY DEF SomeReads
  <2> QED BY <1>1, <2>1 DEF Pattern
<1>8. AreReads(Components, {"Components"})
  <2> DEFINE r == [how |-> "components", member |-> "Components", type |-> "component"]
  <2>1. r \in SomeReads({r.member}) /\ r.member = "Components"
    BY DEF SomeReads
  <2> QED BY <1>1, <2>1 DEF Components
<1> QED BY <1>2, <1>3, <1>4, <1>5, <1>6, <1>7, <1>8

-----------------------------------------------------------------------------

\* The groups of members that are read in the same way.
LEMMA Groups ==
  /\ AreReads(Possible("int", <<"FrcPeriod", "SleepPeriod">>), {"FrcPeriod", "SleepPeriod"})
  /\ AreReads(Possible("int", <<"FrcPeriod", "SleepPeriod", "WmPeriod">>),
              {"FrcPeriod", "SleepPeriod", "WmPeriod"})
  /\ AreReads(Possible("int", <<"RemotePort", "LocalPort">>), {"RemotePort", "LocalPort"})
  /\ AreReads(Possible("string", <<"LocalMqName", "RemoteMqName">>),
              {"LocalMqName", "RemoteMqName"})
  /\ AreReads(Required("string", <<"Configuration", "ConfigurationDir">>),
              {"Configuration", "ConfigurationDir"})
  /\ AreReads(Possible("int", <<"enableGpioPin", "spiCe0GpioPin", "spiMisoGpioPin",
                "spiMosiGpioPin", "spiClkGpioPin", "DpaHandlerTimeout">>),
              {"enableGpioPin", "spiCe0GpioPin", "spiMisoGpioPin", "spiMosiGpioPin",
               "spiClkGpioPin", "DpaHandlerTimeout"})
  /\ AreReads(Required("string", <<"BrokerAddr", "ClientId">>), {"BrokerAddr", "ClientId"})
  /\ AreReads(Required("int", <<"Persistence", "Qos">>), {"Persistence", "Qos"})
  /\ AreReads(Required("string", <<"TopicRequest", "TopicResponse", "User", "Password">>),
              {"TopicRequest", "TopicResponse", "User", "Password"})
  /\ AreReads(Possible("string", <<"TrustStore", "KeyStore", "PrivateKey", "PrivateKeyPassword",
                "EnabledCipherSuites">>),
              {"TrustStore", "KeyStore", "PrivateKey", "PrivateKeyPassword", "EnabledCipherSuites"})
  /\ AreReads(Possible("int", <<"KeepAliveInterval", "ConnectTimeout", "MinReconnect",
                "MaxReconnect">>),
              {"KeepAliveInterval", "ConnectTimeout", "MinReconnect", "MaxReconnect"})
  /\ Len(Required("string", <<"Configuration", "ConfigurationDir">>)) = 2
<1>1. AreReads(Possible("int", <<"FrcPeriod", "SleepPeriod">>), {"FrcPeriod", "SleepPeriod"})
  <2> DEFINE names == <<"FrcPeriod", "SleepPeriod">>
  <2>1. /\ DOMAIN names = 1..2
        /\ names[1] = "FrcPeriod" /\ names[2] = "SleepPeriod"
    OBVIOUS
  <2> HIDE DEF names
  <2>2. AreNames(2, names, {"FrcPeriod", "SleepPeriod"})
    BY <2>1 DEF AreNames
  <2>3. AreReads(Possible("int", names), {"FrcPeriod", "SleepPeriod"})
    BY <2>2, SameWay
  <2> QED BY <2>3 DEF names
<1>2. AreReads(Possible("int", <<"FrcPeriod", "SleepPeriod", "WmPeriod">>),
               {"FrcPeriod", "SleepPeriod", "WmPeriod"})
  <2> DEFINE names == <<"FrcPeriod", "SleepPeriod", "WmPeriod">>
  <2>1. /\ DOMAIN names = 1..3
        /\ names[1] = "FrcPeriod" /\ names[2] = "SleepPeriod" /\ names[3] = "WmPeriod"
    OBVIOUS
  <2> HIDE DEF names
  <2>2. AreNames(3, names, {"FrcPeriod", "SleepPeriod", "WmPeriod"})
    BY <2>1 DEF AreNames
  <2>3. AreReads(Possible("int", names), {"FrcPeriod", "SleepPeriod", "WmPeriod"})
    BY <2>2, SameWay
  <2> QED BY <2>3 DEF names
<1>3. AreReads(Possible("int", <<"RemotePort", "LocalPort">>), {"RemotePort", "LocalPort"})
  <2> DEFINE names == <<"RemotePort", "LocalPort">>
  <2>1. /\ DOMAIN names = 1..2
        /\ names[1] = "RemotePort" /\ names[2] = "LocalPort"
    OBVIOUS
  <2> HIDE DEF names
  <2>2. AreNames(2, names, {"RemotePort", "LocalPort"})
    BY <2>1 DEF AreNames
  <2>3. AreReads(Possible("int", names), {"RemotePort", "LocalPort"})
    BY <2>2, SameWay
  <2> QED BY <2>3 DEF names
<1>4. AreReads(Possible("string", <<"LocalMqName", "RemoteMqName">>),
               {"LocalMqName", "RemoteMqName"})
  <2> DEFINE names == <<"LocalMqName", "RemoteMqName">>
  <2>1. /\ DOMAIN names = 1..2
        /\ names[1] = "LocalMqName" /\ names[2] = "RemoteMqName"
    OBVIOUS
  <2> HIDE DEF names
  <2>2. AreNames(2, names, {"LocalMqName", "RemoteMqName"})
    BY <2>1 DEF AreNames
  <2>3. AreReads(Possible("string", names), {"LocalMqName", "RemoteMqName"})
    BY <2>2, SameWay
  <2> QED BY <2>3 DEF names
<1>5. /\ AreReads(Required("string", <<"Configuration", "ConfigurationDir">>),
                  {"Configuration", "ConfigurationDir"})
      /\ Len(Required("string", <<"Configuration", "ConfigurationDir">>)) = 2
  <2> DEFINE names == <<"Configuration", "ConfigurationDir">>
  <2>1. /\ DOMAIN names = 1..2
        /\ names[1] = "Configuration" /\ names[2] = "ConfigurationDir"
    OBVIOUS
  <2> HIDE DEF names
  <2>2. AreNames(2, names, {"Configuration", "ConfigurationDir"})
    BY <2>1 DEF AreNames
  <2>3. AreReads(Required("string", names), {"Configuration", "ConfigurationDir"})
        /\ Len(Required("string", names)) = 2
    BY <2>2, SameWay
  <2> QED BY <2>3 DEF names
<1>6. AreReads(Possible("int", <<"enableGpioPin", "spiCe0GpioPin", "spiMisoGpioPin",
                 "spiMosiGpioPin", "spiClkGpioPin", "DpaHandlerTimeout">>),
               {"enableGpioPin", "spiCe0GpioPin", "spiMisoGpioPin", "spiMosiGpioPin",
                "spiClkGpioPin", "DpaHandlerTimeout"})
  <2> DEFINE names == <<"enableGpioPin", "spiCe0GpioPin", "spiMisoGpioPin", "spiMosiGpioPin",
                        "spiClkGpioPin", "DpaHandlerTimeout">>
  <2>1. /\ DOMAIN names = 1..6
        /\ names[1] = "enableGpioPin" /\ names[2] = "spiCe0GpioPin"
        /\ names[3] = "spiMisoGpioPin" /\ names[4] = "spiMosiGpioPin"
        /\ names[5] = "spiClkGpioPin" /\ names[6] = "DpaHandlerTimeout"
    OBVIOUS
  <2> HIDE DEF names
  <2>2. AreNames(6, names, {"enableGpioPin", "spiCe0GpioPin", "spiMisoGpioPin", "spiMosiGpioPin",
                            "spiClkGpioPin", "DpaHandlerTimeout"})
    BY <2>1 DEF AreNames
  <2>3. AreReads(Possible("int", names), {"enableGpioPin", "spiCe0GpioPin", "spiMisoGpioPin",
                                          "spiMosiGpioPin", "spiClkGpioPin", "DpaHandlerTimeout"})
    BY <2>2, SameWay
  <2> QED BY <2>3 DEF names
<1>7. AreReads(Required("string", <<"BrokerAddr", "ClientId">>), {"BrokerAddr", "ClientId"})
  <2> DEFINE names == <<"BrokerAddr", "ClientId">>
  <2>1. /\ DOMAIN names = 1..2
        /\ names[1] = "BrokerAddr" /\ names[2] = "ClientId"
    OBVIOUS
  <2> HIDE DEF names
  <2>2. AreNames(2, names, {"BrokerAddr", "ClientId"})
    BY <2>1 DEF AreNames
  <2>3. AreReads(Required("string", names), {"BrokerAddr", "ClientId"})
    BY <2>2, SameWay
  <2> QED BY <2>3 DEF names
<1>8. AreReads(Required("int", <<"Persistence", "Qos">>), {"Persistence", "Qos"})
  <2> DEFINE names == <<"Persistence", "Qos">>
  <2>1. /\ DOMAIN names = 1..2
        /\ names[1] = "Persistence" /\ names[2] = "Qos"
    OBVIOUS
  <2> HIDE DEF names
  <2>2. AreNames(2, names, {"Persistence", "Qos"})
    BY <2>1 DEF AreNames
  <2>3. AreReads(Required("int", names), {"Persistence", "Qos"})
    BY <2>2, SameWay
  <2> QED BY <2>3 DEF names
<1>9. AreReads(Required("string", <<"TopicRequest", "TopicResponse", "User", "Password">>),
               {"TopicRequest", "TopicResponse", "User", "Password"})
  <2> DEFINE names == <<"TopicRequest", "TopicResponse", "User", "Password">>
  <2>1. /\ DOMAIN names = 1..4
        /\ names[1] = "TopicRequest" /\ names[2] = "TopicResponse" /\ names[3] = "User"
        /\ names[4] = "Password"
    OBVIOUS
  <2> HIDE DEF names
  <2>2. AreNames(4, names, {"TopicRequest", "TopicResponse", "User", "Password"})
    BY <2>1 DEF AreNames
  <2>3. AreReads(Required("string", names), {"TopicRequest", "TopicResponse", "User", "Password"})
    BY <2>2, SameWay
  <2> QED BY <2>3 DEF names
<1>10. AreReads(Possible("string", <<"TrustStore", "KeyStore", "PrivateKey", "PrivateKeyPassword",
                  "EnabledCipherSuites">>),
                {"TrustStore", "KeyStore", "PrivateKey", "PrivateKeyPassword",
                 "EnabledCipherSuites"})
  <2> DEFINE names == <<"TrustStore", "KeyStore", "PrivateKey", "PrivateKeyPassword",
                        "EnabledCipherSuites">>
  <2>1. /\ DOMAIN names = 1..5
        /\ names[1] = "TrustStore" /\ names[2] = "KeyStore" /\ names[3] = "PrivateKey"
        /\ names[4] = "PrivateKeyPassword" /\ names[5] = "EnabledCipherSuites"
    OBVIOUS
  <2> HIDE DEF names
  <2>2. AreNames(5, names, {"TrustStore", "KeyStore", "PrivateKey", "PrivateKeyPassword",
                            "EnabledCipherSuites"})
    BY <2>1 DEF AreNames
  <2>3. AreReads(Possible("string", names), {"TrustStore", "KeyStore", "PrivateKey",
                                             "PrivateKeyPassword", "EnabledCipherSuites"})
    BY <2>2, SameWay
  <2> QED BY <2>3 DEF names
<1>11. AreReads(Possible("int", <<"KeepAliveInterval", "ConnectTimeout", "MinReconnect",
                  "MaxReconnect">>),
                {"KeepAliveInterval", "ConnectTimeout", "MinReconnect", "MaxReconnect"})
  <2> DEFINE names == <<"KeepAliveInterval", "ConnectTimeout", "MinReconnect", "MaxReconnect">>
  <2>1. /\ DOMAIN names = 1..4
        /\ names[1] = "KeepAliveInterval" /\ names[2] = "ConnectTimeout"
        /\ names[3] = "MinReconnect" /\ names[4] = "MaxReconnect"
    OBVIOUS
  <2> HIDE DEF names
  <2>2. AreNames(4, names, {"KeepAliveInterval", "ConnectTimeout", "MinReconnect", "MaxReconnect"})
    BY <2>1 DEF AreNames
  <2>3. AreReads(Possible("int", names), {"KeepAliveInterval", "ConnectTimeout", "MinReconnect",
                                          "MaxReconnect"})
    BY <2>2, SameWay
  <2> QED BY <2>3 DEF names
<1> QED BY <1>1, <1>2, <1>3, <1>4, <1>5, <1>6, <1>7, <1>8, <1>9, <1>10, <1>11

\* What the parts read: every group adds its members to those before it.
LEMMA PartsRead ==
  /\ AreReads(PulseMeterReads, {"FrcPeriod", "SleepPeriod", "DpaRequestJsonPattern", "Pulsemeters"})
  /\ AreReads(BridgeReads,
       {"FrcPeriod", "SleepPeriod", "WmPeriod", "DpaRequestJsonPattern", "ProtocolBridges"})
  /\ AreReads(ThermometerReads, {"ReadPeriod", "Thermometers"})
  /\ AreReads(InterfaceReads,
       {"IqrfInterface", "enableGpioPin", "spiCe0GpioPin", "spiMisoGpioPin", "spiMosiGpioPin",
        "spiClkGpioPin", "DpaHandlerTimeout", "CommunicationMode"})
  /\ AreReads(TracerReads, {"TraceFileName", "TraceFileSize", "VerbosityLevel"})
  /\ AreReads(AppReads, {"LocalMqName", "RemoteMqName", "DefaultTimeout", "VerbosityLevel"})
  /\ AreReads(MessagingReads, {"Name", "Enabled", "Properties"})
  /\ AreReads(ServiceReads, {"Name", "Enabled", "Messaging", "Serializers", "Properties"})
  /\ AreReads(DaemonReads,
       {"Configuration", "ConfigurationDir", "WatchDogTimeoutMilis", "Mode", "Components"})
  /\ AreReads(MqttReads,
       {"BrokerAddr", "ClientId", "Persistence", "Qos", "TopicRequest", "TopicResponse", "User",
        "Password", "EnabledSSL", "TrustStore", "KeyStore", "PrivateKey", "PrivateKeyPassword",
        "EnabledCipherSuites", "EnableServerCertAuth", "KeepAliveInterval", "ConnectTimeout",
        "MinReconnect", "MaxReconnect"})
<1>1. AreReads(PulseMeterReads,
        {"FrcPeriod", "SleepPeriod", "DpaRequestJsonPattern", "Pulsemeters"})
  <2> DEFINE r1 == Possible("int", <<"FrcPeriod", "SleepPeriod">>)
             s2 == Pattern
             r2 == r1 \o s2
             s3 == Vector("int", "Pulsemeters")
             r3 == r2 \o s3
  <2>1. PulseMeterReads = r3
    BY DEF PulseMeterReads
  <2>2. /\ AreReads(r1, {"FrcPeriod", "SleepPeriod"})
        /\ AreReads(s2, {"DpaRequestJsonPattern"})
        /\ AreReads(s3, {"Pulsemeters"})
    BY One, Groups
  <2> HIDE DEF r1, s2
  <2>3. AreReads(r2, {"FrcPeriod", "SleepPeriod", "DpaRequestJsonPattern"})
    BY <2>2, Then
  <2> HIDE DEF r2, s3
  <2>4. AreReads(r3, {"FrcPeriod", "SleepPeriod", "DpaRequestJsonPattern", "Pulsemeters"})
    BY <2>2, <2>3, Then
  <2> QED BY <2>1, <2>4
<1>2. AreReads(BridgeReads,
        {"FrcPeriod", "SleepPeriod", "WmPeriod", "DpaRequestJsonPattern", "ProtocolBridges"})
  <2> DEFINE r1 == Possible("int", <<"FrcPeriod", "SleepPeriod", "WmPeriod">>)
             s2 == Pattern
             r2 == r1 \o s2
             s3 == Vector("int", "ProtocolBridges")
             r3 == r2 \o s3
  <2>1. BridgeReads = r3
    BY DEF BridgeReads
  <2>2. /\ AreReads(r1, {"FrcPeriod", "SleepPeriod", "WmPeriod"})
        /\ AreReads(s2, {"DpaRequestJsonPattern"})
        /\ AreReads(s3, {"ProtocolBridges"})
    BY One, Groups
  <2> HIDE DEF r1, s2
  <2>3. AreReads(r2, {"FrcPeriod", "SleepPeriod", "WmPeriod", "DpaRequestJsonPattern"})
    BY <2>2, Then
  <2> HIDE DEF r2, s3
  <2>4. AreReads(r3,
          {"FrcPeriod", "SleepPeriod", "WmPeriod", "DpaRequestJsonPattern", "ProtocolBridges"})
    BY <2>2, <2>3, Then
  <2> QED BY <2>1, <2>4
<1>3. AreReads(ThermometerReads, {"ReadPeriod", "Thermometers"})
  <2> DEFINE r1 == Possible("int", <<"ReadPeriod">>)
             s2 == Vector("int", "Thermometers")
             r2 == r1 \o s2
  <2>1. ThermometerReads = r2
    BY DEF ThermometerReads
  <2>2. /\ AreReads(r1, {"ReadPeriod"})
        /\ AreReads(s2, {"Thermometers"})
    BY One, Groups
  <2> HIDE DEF r1, s2
  <2>3. AreReads(r2, {"ReadPeriod", "Thermometers"})
    BY <2>2, Then
  <2> QED BY <2>1, <2>3
<1>4. AreReads(InterfaceReads,
        {"IqrfInterface", "enableGpioPin", "spiCe0GpioPin", "spiMisoGpioPin", "spiMosiGpioPin",
         "spiClkGpioPin", "DpaHandlerTimeout", "CommunicationMode"})
  <2> DEFINE r1 == Required("string", <<"IqrfInterface">>)
             s2 == Possible("int", <<"enableGpioPin", "spiCe0GpioPin", "spiMisoGpioPin",
                     "spiMosiGpioPin", "spiClkGpioPin", "DpaHandlerTimeout">>)
             r2 == r1 \o s2
             s3 == Possible("string", <<"CommunicationMode">>)
             r3 == r2 \o s3
  <2>1. InterfaceReads = r3
    BY DEF InterfaceReads
  <2>2. /\ AreReads(r1, {"IqrfInterface"})
        /\ AreReads(s2,
             {"enableGpioPin", "spiCe0GpioPin", "spiMisoGpioPin", "spiMosiGpioPin",
              "spiClkGpioPin", "DpaHandlerTimeout"})
        /\ AreReads(s3, {"CommunicationMode"})
    BY One, Groups
  <2> HIDE DEF r1, s2
  <2>3. AreReads(r2,
          {"IqrfInterface", "enableGpioPin", "spiCe0GpioPin", "spiMisoGpioPin", "spiMosiGpioPin",
           "spiClkGpioPin", "DpaHandlerTimeout"})
    BY <2>2, Then
  <2> HIDE DEF r2, s3
  <2>4. AreReads(r3,
          {"IqrfInterface", "enableGpioPin", "spiCe0GpioPin", "spiMisoGpioPin", "spiMosiGpioPin",
           "spiClkGpioPin", "DpaHandlerTimeout", "CommunicationMode"})
    BY <2>2, <2>3, Then
  <2> QED BY <2>1, <2>4
<1>5. AreReads(TracerReads, {"TraceFileName", "TraceFileSize", "VerbosityLevel"})
  <2> DEFINE r1 == Possible("string", <<"TraceFileName">>)
             s2 == Possible("int", <<"TraceFileSize">>)
             r2 == r1 \o s2
             s3 == Possible("string", <<"VerbosityLevel">>)
             r3 == r2 \o s3
  <2>1. TracerReads = r3
    BY DEF TracerReads
  <2>2. /\ AreReads(r1, {"TraceFileName"})
        /\ AreReads(s2, {"TraceFileSize"})
        /\ AreReads(s3, {"VerbosityLevel"})
    BY One, Groups
  <2> HIDE DEF r1, s2
  <2>3. AreReads(r2, {"TraceFileName", "TraceFileSize"})
    BY <2>2, Then
  <2> HIDE DEF r2, s3
  <2>4. AreReads(r3, {"TraceFileName", "TraceFileSize", "VerbosityLevel"})
    BY <2>2, <2>3, Then
  <2> QED BY <2>1, <2>4
<1>6. AreReads(AppReads, {"LocalMqName", "RemoteMqName", "DefaultTimeout", "VerbosityLevel"})
  <2> DEFINE r1 == Possible("string", <<"LocalMqName", "RemoteMqName">>)
             s2 == Possible("int", <<"DefaultTimeout">>)
             r2 == r1 \o s2
             s3 == Possible("string", <<"VerbosityLevel">>)
             r3 == r2 \o s3
  <2>1. AppReads = r3
    BY DEF AppReads
  <2>2. /\ AreReads(r1, {"LocalMqName", "RemoteMqName"})
        /\ AreReads(s2, {"DefaultTimeout"})
        /\ AreReads(s3, {"VerbosityLevel"})
    BY One, Groups
  <2> HIDE DEF r1, s2
  <2>3. AreReads(r2, {"LocalMqName", "RemoteMqName", "DefaultTimeout"})
    BY <2>2, Then
  <2> HIDE DEF r2, s3
  <2>4. AreReads(r3, {"LocalMqName", "RemoteMqName", "DefaultTimeout", "VerbosityLevel"})
    BY <2>2, <2>3, Then
  <2> QED BY <2>1, <2>4
<1>7. AreReads(MessagingReads, {"Name", "Enabled", "Properties"})
  <2> DEFINE r1 == Required("string", <<"Name">>)
             s2 == Possible("bool", <<"Enabled">>)
             r2 == r1 \o s2
             s3 == Object("Properties")
             r3 == r2 \o s3
  <2>1. MessagingReads = r3
    BY DEF MessagingReads
  <2>2. /\ AreReads(r1, {"Name"})
        /\ AreReads(s2, {"Enabled"})
        /\ AreReads(s3, {"Properties"})
    BY One, Groups
  <2> HIDE DEF r1, s2
  <2>3. AreReads(r2, {"Name", "Enabled"})
    BY <2>2, Then
  <2> HIDE DEF r2, s3
  <2>4. AreReads(r3, {"Name", "Enabled", "Properties"})
    BY <2>2, <2>3, Then
  <2> QED BY <2>1, <2>4
<1>8. AreReads(ServiceReads, {"Name", "Enabled", "Messaging", "Serializers", "Properties"})
  <2> DEFINE r1 == Required("string", <<"Name">>)
             s2 == Possible("bool", <<"Enabled">>)
             r2 == r1 \o s2
             s3 == Required("string", <<"Messaging">>)
             r3 == r2 \o s3
             s4 == Vector("string", "Serializers")
             r4 == r3 \o s4
             s5 == Object("Properties")
             r5 == r4 \o s5
  <2>1. ServiceReads = r5
    BY DEF ServiceReads
  <2>2. /\ AreReads(r1, {"Name"})
        /\ AreReads(s2, {"Enabled"})
        /\ AreReads(s3, {"Messaging"})
        /\ AreReads(s4, {"Serializers"})
        /\ AreReads(s5, {"Properties"})
    BY One, Groups
  <2> HIDE DEF r1, s2
  <2>3. AreReads(r2, {"Name", "Enabled"})
    BY <2>2, Then
  <2> HIDE DEF r2, s3
  <2>4. AreReads(r3, {"Name", "Enabled", "Messaging"})
    BY <2>2, <2>3, Then
  <2> HIDE DEF r3, s4
  <2>5. AreReads(r4, {"Name", "Enabled", "Messaging", "Serializers"})
    BY <2>2, <2>4, Then
  <2> HIDE DEF r4, s5
  <2>6. AreReads(r5, {"Name", "Enabled", "Messaging", "Serializers", "Properties"})
    BY <2>2, <2>5, Then
  <2> QED BY <2>1, <2>6
<1>9. AreReads(DaemonReads,
        {"Configuration", "ConfigurationDir", "WatchDogTimeoutMilis", "Mode", "Components"})
  <2> DEFINE r1 == Required("string", <<"Configuration", "ConfigurationDir">>)
             s2 == Possible("int", <<"WatchDogTimeoutMilis">>)
             r2 == r1 \o s2
             s3 == Possible("string", <<"Mode">>)
             r3 == r2 \o s3
             s4 == Components
             r4 == r3 \o s4
  <2>1. DaemonReads = r4
    BY DEF DaemonReads
  <2>2. /\ AreReads(r1, {"Configuration", "ConfigurationDir"})
        /\ AreReads(s2, {"WatchDogTimeoutMilis"})
        /\ AreReads(s3, {"Mode"})
        /\ AreReads(s4, {"Components"})
    BY One, Groups
  <2> HIDE DEF r1, s2
  <2>3. AreReads(r2, {"Configuration", "ConfigurationDir", "WatchDogTimeoutMilis"})
    BY <2>2, Then
  <2> HIDE DEF r2, s3
  <2>4. AreReads(r3, {"Configuration", "ConfigurationDir", "WatchDogTimeoutMilis", "Mode"})
    BY <2>2, <2>3, Then
  <2> HIDE DEF r3, s4
  <2>5. AreReads(r4,
          {"Configuration", "ConfigurationDir", "WatchDogTimeoutMilis", "Mode", "Components"})
    BY <2>2, <2>4, Then
  <2> QED BY <2>1, <2>5
<1>10. AreReads(MqttReads,
         {"BrokerAddr", "ClientId", "Persistence", "Qos", "TopicRequest", "TopicResponse", "User",
          "Password", "EnabledSSL", "TrustStore", "KeyStore", "PrivateKey", "PrivateKeyPassword",
          "EnabledCipherSuites", "EnableServerCertAuth", "KeepAliveInterval", "ConnectTimeout",
          "MinReconnect", "MaxReconnect"})
  <2> DEFINE r1 == Required("string", <<"BrokerAddr", "ClientId">>)
             s2 == Required("int", <<"Persistence", "Qos">>)
             r2 == r1 \o s2
             s3 == Required("string", <<"TopicRequest", "TopicResponse", "User", "Password">>)
             r3 == r2 \o s3
             s4 == Required("bool", <<"EnabledSSL">>)
             r4 == r3 \o s4
             s5 == Possible("string", <<"TrustStore", "KeyStore", "PrivateKey",
                     "PrivateKeyPassword", "EnabledCipherSuites">>)
             r5 == r4 \o s5
             s6 == Possible("bool", <<"EnableServerCertAuth">>)
             r6 == r5 \o s6
             s7 == Possible("int", <<"KeepAliveInterval", "ConnectTimeout", "MinReconnect",
                     "MaxReconnect">>)
             r7 == r6 \o s7
  <2>1. MqttReads = r7
    BY DEF MqttReads
  <2>2. /\ AreReads(r1, {"BrokerAddr", "ClientId"})
        /\ AreReads(s2, {"Persistence", "Qos"})
        /\ AreReads(s3, {"TopicRequest", "TopicResponse", "User", "Password"})
        /\ AreReads(s4, {"EnabledSSL"})
        /\ AreReads(s5,
             {"TrustStore", "KeyStore", "PrivateKey", "PrivateKeyPassword", "EnabledCipherSuites"})
        /\ AreReads(s6, {"EnableServerCertAuth"})
        /\ AreReads(s7, {"KeepAliveInterval", "ConnectTimeout", "MinReconnect", "MaxReconnect"})
    BY One, Groups
  <2> HIDE DEF r1, s2
  <2>3. AreReads(r2, {"BrokerAddr", "ClientId", "Persistence", "Qos"})
    BY <2>2, Then
  <2> HIDE DEF r2, s3
  <2>4. AreReads(r3,
          {"BrokerAddr", "ClientId", "Persistence", "Qos", "TopicRequest", "TopicResponse", "User",
           "Password"})
    BY <2>2, <2>3, Then
  <2> HIDE DEF r3, s4
  <2>5. AreReads(r4,
          {"BrokerAddr", "ClientId", "Persistence", "Qos", "TopicRequest", "TopicResponse", "User",
           "Password", "EnabledSSL"})
    BY <2>2, <2>4, Then
  <2> HIDE DEF r4, s5
  <2>6. AreReads(r5,
          {"BrokerAddr", "ClientId", "Persistence", "Qos", "TopicRequest", "TopicResponse", "User",
           "Password", "EnabledSSL", "TrustStore", "KeyStore", "PrivateKey", "PrivateKeyPassword",
           "EnabledCipherSuites"})
    BY <2>2, <2>5, Then
  <2> HIDE DEF r5, s6
  <2>7. AreReads(r6,
          {"BrokerAddr", "ClientId", "Persistence", "Qos", "TopicRequest", "TopicResponse", "User",
           "Password", "EnabledSSL", "TrustStore", "KeyStore", "PrivateKey", "PrivateKeyPassword",
           "EnabledCipherSuites", "EnableServerCertAuth"})
    BY <2>2, <2>6, Then
  <2> HIDE DEF r6, s7
  <2>8. AreReads(r7,
          {"BrokerAddr", "ClientId", "Persistence", "Qos", "TopicRequest", "TopicResponse", "User",
           "Password", "EnabledSSL", "TrustStore", "KeyStore", "PrivateKey", "PrivateKeyPassword",
           "EnabledCipherSuites", "EnableServerCertAuth", "KeepAliveInterval", "ConnectTimeout",
           "MinReconnect", "MaxReconnect"})
    BY <2>2, <2>7, Then
  <2> QED BY <2>1, <2>8
<1> QED BY <1>1, <1>2, <1>3, <1>4, <1>5, <1>6, <1>7, <1>8, <1>9, <1>10

\* The lists of what is served, of which a part has one at most.
NodeLists == {"Pulsemeters", "ProtocolBridges", "Thermometers", "Components"}
OneListAtMost(names) == \A l, m \in names \intersect NodeLists : l = m

\* Of every part the reads are of different members, and of one list at most.
LEMMA EveryPart ==
  ASSUME NEW p \in Parts
  PROVE  AreReads(ReadsOf(p), MembersOf(p)) /\ OneListAtMost(MembersOf(p))
<1>1. MembersOf(p) = NamesOf(ReadsOf(p))
  BY DEF MembersOf, NamesOf
<1>2. ASSUME NEW names, AreReads(ReadsOf(p), names), OneListAtMost(names)
      PROVE  AreReads(ReadsOf(p), MembersOf(p)) /\ OneListAtMost(MembersOf(p))
  <2>1. names = MembersOf(p)
    BY <1>1, <1>2 DEF AreReads
  <2> QED BY <1>2, <2>1
<1>3. CASE p = "MqttMessaging"
  <2>1. ReadsOf(p) = MqttReads
    BY <1>3 DEF ReadsOf
  <2>2. PICK names : AreReads(MqttReads, names) /\ OneListAtMost(names)
    BY PartsRead, Groups, One DEF OneListAtMost, NodeLists
  <2> QED BY <1>2, <2>1, <2>2
<1>4. CASE p = "UdpMessaging"
  <2>1. ReadsOf(p) = UdpReads
    BY <1>4 DEF ReadsOf
  <2>2. PICK names : AreReads(UdpReads, names) /\ OneListAtMost(names)
    BY PartsRead, Groups, One DEF OneListAtMost, NodeLists, UdpReads
  <2> QED BY <1>2, <2>1, <2>2
<1>5. CASE p = "MqMessaging"
  <2>1. ReadsOf(p) = MqReads
    BY <1>5 DEF ReadsOf
  <2>2. PICK names : AreReads(MqReads, names) /\ OneListAtMost(names)
    BY PartsRead, Groups, One DEF OneListAtMost, NodeLists, MqReads
  <2> QED BY <1>2, <2>1, <2>2
<1>6. CASE p = "BaseService"
  <2>1. ReadsOf(p) = BaseServiceReads
    BY <1>6 DEF ReadsOf
  <2>2. PICK names : AreReads(BaseServiceReads, names) /\ OneListAtMost(names)
    <3>1. AreReads(BaseServiceReads, {"AsyncDpaMessage"})
      BY One DEF BaseServiceReads
    <3>2. OneListAtMost({"AsyncDpaMessage"})
      BY DEF OneListAtMost, NodeLists
    <3> QED BY <3>1, <3>2
  <2> QED BY <1>2, <2>1, <2>2
<1>7. CASE p = "PulseMeters"
  <2>1. ReadsOf(p) = PulseMeterReads
    BY <1>7 DEF ReadsOf
  <2>2. PICK names : AreReads(PulseMeterReads, names) /\ OneListAtMost(names)
    BY PartsRead, Groups, One DEF OneListAtMost, NodeLists
  <2> QED BY <1>2, <2>1, <2>2
<1>8. CASE p = "ProtocolBridges"
  <2>1. ReadsOf(p) = BridgeReads
    BY <1>8 DEF ReadsOf
  <2>2. PICK names : AreReads(BridgeReads, names) /\ OneListAtMost(names)
    BY PartsRead, Groups, One DEF OneListAtMost, NodeLists
  <2> QED BY <1>2, <2>1, <2>2
<1>9. CASE p = "Thermometers"
  <2>1. ReadsOf(p) = ThermometerReads
    BY <1>9 DEF ReadsOf
  <2>2. PICK names : AreReads(ThermometerReads, names) /\ OneListAtMost(names)
    BY PartsRead, Groups, One DEF OneListAtMost, NodeLists
  <2> QED BY <1>2, <2>1, <2>2
<1>10. CASE p = "messaging"
  <2>1. ReadsOf(p) = MessagingReads
    BY <1>10 DEF ReadsOf
  <2>2. PICK names : AreReads(MessagingReads, names) /\ OneListAtMost(names)
    BY PartsRead, Groups, One DEF OneListAtMost, NodeLists
  <2> QED BY <1>2, <2>1, <2>2
<1>11. CASE p = "service"
  <2>1. ReadsOf(p) = ServiceReads
    BY <1>11 DEF ReadsOf
  <2>2. PICK names : AreReads(ServiceReads, names) /\ OneListAtMost(names)
    BY PartsRead, Groups, One DEF OneListAtMost, NodeLists
  <2> QED BY <1>2, <2>1, <2>2
<1>12. CASE p = "DaemonController"
  <2>1. ReadsOf(p) = DaemonReads
    BY <1>12 DEF ReadsOf
  <2>2. PICK names : AreReads(DaemonReads, names) /\ OneListAtMost(names)
    BY PartsRead, Groups, One DEF OneListAtMost, NodeLists
  <2> QED BY <1>2, <2>1, <2>2
<1>13. CASE p = "IqrfInterface"
  <2>1. ReadsOf(p) = InterfaceReads
    BY <1>13 DEF ReadsOf
  <2>2. PICK names : AreReads(InterfaceReads, names) /\ OneListAtMost(names)
    BY PartsRead, Groups, One DEF OneListAtMost, NodeLists
  <2> QED BY <1>2, <2>1, <2>2
<1>14. CASE p = "TracerFile"
  <2>1. ReadsOf(p) = TracerReads
    BY <1>14 DEF ReadsOf
  <2>2. PICK names : AreReads(TracerReads, names) /\ OneListAtMost(names)
    BY PartsRead, Groups, One DEF OneListAtMost, NodeLists
  <2> QED BY <1>2, <2>1, <2>2
<1>15. CASE p = "iqrfapp"
  <2>1. ReadsOf(p) = AppReads
    BY <1>15 DEF ReadsOf
  <2>2. PICK names : AreReads(AppReads, names) /\ OneListAtMost(names)
    BY PartsRead, Groups, One DEF OneListAtMost, NodeLists
  <2> QED BY <1>2, <2>1, <2>2
<1> QED BY <1>3, <1>4, <1>5, <1>6, <1>7, <1>8, <1>9, <1>10, <1>11, <1>12, <1>13, <1>14, <1>15,
           ConfigurationAssumption

\* Where the flag and the version are read, and the components.
LEMMA Places ==
  /\ Len(MessagingReads) = 3
  /\ MessagingReads[2] = [how |-> "possible", member |-> "Enabled", type |-> "bool"]
  /\ Len(ServiceReads) = 5
  /\ ServiceReads[2] = [how |-> "possible", member |-> "Enabled", type |-> "bool"]
  /\ Len(DaemonReads) = 5
  /\ DaemonReads[1] = [how |-> "required", member |-> "Configuration", type |-> "string"]
  /\ DaemonReads[5] = [how |-> "components", member |-> "Components", type |-> "component"]
<1> DEFINE a == Required("string", <<"Name">>)
           b == Possible("bool", <<"Enabled">>)
           c == Object("Properties")
           d == Required("string", <<"Messaging">>)
           e == Vector("string", "Serializers")
           f == Required("string", <<"Configuration", "ConfigurationDir">>)
           g == Possible("int", <<"WatchDogTimeoutMilis">>)
           h == Possible("string", <<"Mode">>)
           k == Components
<1>1. /\ AreReads(a, {"Name"}) /\ Len(a) = 1 /\ AreReads(b, {"Enabled"}) /\ Len(b) = 1
      /\ AreReads(c, {"Properties"}) /\ AreReads(d, {"Messaging"}) /\ Len(d) = 1
      /\ AreReads(e, {"Serializers"}) /\ AreReads(g, {"WatchDogTimeoutMilis"}) /\ Len(g) = 1
      /\ AreReads(h, {"Mode"}) /\ Len(h) = 1 /\ AreReads(k, {"Components"})
  BY One
<1>2. AreReads(f, {"Configuration", "ConfigurationDir"}) /\ Len(f) = 2
  BY Groups
<1>3. Len(c) = 1 /\ Len(e) = 1 /\ Len(k) = 1
  BY DEF Object, Vector, Components
<1>4. /\ b[1] = [how |-> "possible", member |-> "Enabled", type |-> "bool"]
      /\ f[1] = [how |-> "required", member |-> "Configuration", type |-> "string"]
      /\ k[1] = [how |-> "components", member |-> "Components", type |-> "component"]
  BY DEF Possible, Required, Components
<1> DEFINE ab == a \o b
           abd == ab \o d
           abde == abd \o e
           fg == f \o g
           fgh == fg \o h
<1>5. MessagingReads = ab \o c /\ ServiceReads = abde \o c /\ DaemonReads = fgh \o k
  BY DEF MessagingReads, ServiceReads, DaemonReads
<1> HIDE DEF a, b, c, d, e, f, g, h, k
<1>6. AreReads(ab, {"Name", "Enabled"}) /\ Joined(a, b, ab)
  BY <1>1, Then
<1> HIDE DEF ab
<1>7. AreReads(abd, {"Name", "Enabled", "Messaging"}) /\ Joined(ab, d, abd)
  BY <1>1, <1>6, Then
<1>8. Joined(ab, c, ab \o c)
  BY <1>1, <1>6, Then
<1> HIDE DEF abd
<1>9. AreReads(abde, {"Name", "Enabled", "Messaging", "Serializers"}) /\ Joined(abd, e, abde)
  BY <1>1, <1>7, Then
<1> HIDE DEF abde
<1>10. Joined(abde, c, abde \o c)
  BY <1>1, <1>9, Then
<1>11. AreReads(fg, {"Configuration", "ConfigurationDir", "WatchDogTimeoutMilis"}) /\ Joined(f, g, fg)
  BY <1>1, <1>2, Then
<1> HIDE DEF fg
<1>12. /\ AreReads(fgh, {"Configuration", "ConfigurationDir", "WatchDogTimeoutMilis", "Mode"})
       /\ Joined(fg, h, fgh)
  BY <1>1, <1>11, Then
<1> HIDE DEF fgh
<1>13. Joined(fgh, k, fgh \o k)
  BY <1>1, <1>12, Then
<1>14. Len(ab) = 2 /\ ab[2] = b[1] /\ Len(ab \o c) = 3 /\ (ab \o c)[2] = ab[2]
  BY <1>1, <1>3, <1>6, <1>8 DEF Joined
<1>15. Len(abd) = 3 /\ abd[2] = ab[2]
  BY <1>1, <1>7, <1>14 DEF Joined
<1>16. Len(abde) = 4 /\ abde[2] = abd[2]
  BY <1>3, <1>9, <1>15 DEF Joined
<1>17. Len(abde \o c) = 5 /\ (abde \o c)[2] = abde[2]
  BY <1>3, <1>10, <1>16 DEF Joined
<1>18. Len(fg) = 3 /\ fg[1] = f[1] /\ Len(fgh) = 4 /\ fgh[1] = fg[1]
  BY <1>1, <1>2, <1>11, <1>12 DEF Joined
<1>19. Len(fgh \o k) = 5 /\ (fgh \o k)[1] = fgh[1] /\ (fgh \o k)[5] = k[1]
  BY <1>3, <1>13, <1>18 DEF Joined
<1> QED BY <1>4, <1>5, <1>14, <1>15, <1>16, <1>17, <1>18, <1>19

-----------------------------------------------------------------------------
(* The invariant of the reading.                                           *)

IsListOfNodes(i) == Reads[i].how = "vector" /\ Reads[i].type = "int"
Found(i) == file[Reads[i].member]
TimeoutBelowZero(i) == Reads[i].member = "DefaultTimeout" /\ Content(Found(i)) < 0

\* What the part has of a member, when it has come to the read numbered step.
Has(i) == IF i < step /\ IsGiven(i) /\ ~TimeoutBelowZero(i) THEN Found(i) ELSE Default

\* Where the reads stand, and that all before were as wanted.
ReadingInv ==
    /\ part \in Parts /\ file \in Files[part] /\ step \in 1..(Len(Reads) + 1)
    /\ ended \in {"reading", "updated", "left", "refused", "aborted"}
    /\ \A i \in DOMAIN Reads : i < step => i \notin Unwanted
    /\ step <= EnoughAt + 1

SettingsInv ==
    /\ DOMAIN settings = MembersOf(part)
    /\ \A i \in DOMAIN Reads :
         settings[Reads[i].member] = IF ended = "updated" THEN Made(Reads[i].member, Has(i)) ELSE Has(i)

\* Why a part that reads no more has ended.
EndedInv ==
    /\ ended # "reading" => list = <<>>
    /\ ended = "updated" => step = Len(Reads) + 1
    /\ ended = "left" => part \in {"messaging", "service"} /\ step = 3 /\ EnoughAt = 2
    /\ ended \in {"refused", "aborted"} =>
         \/ step \in Unwanted /\ step <= EnoughAt
         \/ part = "DaemonController" /\ step = 2 /\ EnoughAt = 1
    /\ ended = "aborted" =>
         /\ step \in Unwanted /\ Reads[step].how = "pattern"
         /\ Kind(Found(step)) \notin {"absent", "string"}

\* What is served and what is left of a list make up the list.
ListInv ==
    /\ \A i \in DOMAIN Reads : IsListOfNodes(i) =>
         LET listed == Content(Found(i))
         IN  IF i < step
             THEN /\ nodes \in Seq(ToSet(listed)) /\ list \in Seq(ToSet(listed))
                  /\ part = "PulseMeters" => nodes \o list = listed
                  /\ part # "PulseMeters" =>
                       ToSet(nodes) \union ToSet(list) = ToSet(listed) /\ IsInjective(nodes)
             ELSE nodes = <<>> /\ list = <<>>
    /\ (\A i \in DOMAIN Reads : ~IsListOfNodes(i)) => list = <<>>

\* The daemon has the components before the first that is none.
ComponentsInv ==
    LET listed == Content(file["Components"])
    IN  part = "DaemonController" /\ Kind(file["Components"]) = "array"
            /\ step >= 5 /\ (step = 5 => ended # "reading") =>
          /\ nodes = SubSeq(listed, 1, Len(nodes)) /\ \A e \in ToSet(nodes) : Is(e, "component")
          /\ nodes = listed \/ ~Is(listed[Len(nodes) + 1], "component")

ConfigurationInv == ReadingInv /\ SettingsInv /\ EndedInv /\ ListInv /\ ComponentsInv

\* What the proof knows of the reads of a part.
LEMMA ReadsAre ==
  ASSUME part \in Parts
  PROVE  /\ Len(Reads) \in Nat /\ DOMAIN Reads = 1..Len(Reads)
         /\ \A i, j \in DOMAIN Reads : Reads[i].member = Reads[j].member => i = j
         /\ MembersOf(part) = NamesOf(Reads)
         /\ \A i \in DOMAIN Reads :
              /\ Reads[i] \in SomeReads(MembersOf(part))
              /\ IsListOfNodes(i) \/ Reads[i].how = "components" => Reads[i].member \in NodeLists
         /\ \A i, j \in DOMAIN Reads :
              Reads[i].member \in NodeLists /\ Reads[j].member \in NodeLists => i = j
<1>1. AreReads(Reads, MembersOf(part)) /\ OneListAtMost(MembersOf(part))
  BY EveryPart DEF Reads
<1>2. Reads \in Seq(SomeReads(MembersOf(part))) /\ Distinct(Reads) /\ NamesOf(Reads) = MembersOf(part)
  BY <1>1 DEF AreReads
<1> HIDE DEF Reads
<1>3. /\ Len(Reads) \in Nat /\ DOMAIN Reads = 1..Len(Reads)
      /\ \A i \in DOMAIN Reads : Reads[i] \in SomeReads(MembersOf(part))
  BY <1>2, LenProperties
<1>4. \A i \in DOMAIN Reads : Reads[i].member \in MembersOf(part)
  BY <1>2 DEF NamesOf
<1>5. \A i \in DOMAIN Reads :
          IsListOfNodes(i) \/ Reads[i].how = "components" => Reads[i].member \in NodeLists
  BY <1>3 DEF SomeReads, IsListOfNodes, NodeLists
<1>6. \A i, j \in DOMAIN Reads :
        Reads[i].member \in NodeLists /\ Reads[j].member \in NodeLists => i = j
  <2> SUFFICES ASSUME NEW i \in DOMAIN Reads, NEW j \in DOMAIN Reads,
                      Reads[i].member \in NodeLists, Reads[j].member \in NodeLists
               PROVE  i = j
    OBVIOUS
  <2>1. Reads[i].member = Reads[j].member
    BY <1>1, <1>4 DEF OneListAtMost
  <2> QED BY <1>2, <2>1 DEF Distinct
<1> QED BY <1>2, <1>3, <1>5, <1>6 DEF Distinct

\* The places, of the part whose file is read.
LEMMA PlacesOfPart ==
  ASSUME part \in Parts
  PROVE  /\ part \in {"messaging", "service"} =>
              Len(Reads) >= 3 /\ Reads[2] = [how |-> "possible", member |-> "Enabled", type |-> "bool"]
         /\ part = "DaemonController" =>
              /\ Len(Reads) = 5
              /\ Reads[1] = [how |-> "required", member |-> "Configuration", type |-> "string"]
              /\ Reads[5] = [how |-> "components", member |-> "Components", type |-> "component"]
              /\ \A i \in DOMAIN Reads : ~IsListOfNodes(i) /\ (Reads[i].how = "components" => i = 5)
<1>1. CASE part = "messaging"
  <2>1. Reads = MessagingReads
    BY <1>1 DEF Reads, ReadsOf
  <2> QED BY <1>1, <2>1, Places
<1>2. CASE part = "service"
  <2>1. Reads = ServiceReads
    BY <1>2 DEF Reads, ReadsOf
  <2> QED BY <1>2, <2>1, Places
<1>3. CASE part = "DaemonController"
  <2>1. Reads = DaemonReads
    BY <1>3 DEF Reads, ReadsOf
  <2>2. /\ Len(Reads) = 5
        /\ Reads[1] = [how |-> "required", member |-> "Configuration", type |-> "string"]
        /\ Reads[5] = [how |-> "components", member |-> "Components", type |-> "component"]
    BY <2>1, Places
  <2>3. 5 \in DOMAIN Reads /\ Reads[5].member \in NodeLists
    BY <2>2, ReadsAre DEF NodeLists
  <2>4. \A i \in DOMAIN Reads : IsListOfNodes(i) \/ Reads[i].how = "components" => i = 5
    BY <2>3, ReadsAre
  <2>5. ~IsListOfNodes(5)
    BY <2>2 DEF IsListOfNodes
  <2> QED BY <1>3, <2>2, <2>4, <2>5
<1> QED BY <1>1, <1>2, <1>3

\* A step reads the same file of the same part.
LEMMA SameFile ==
  ASSUME UNCHANGED <<part, file>>
  PROVE  /\ Reads' = Reads /\ Unwanted' = Unwanted /\ EnoughAt' = EnoughAt
         /\ \A i : /\ IsGiven(i)' = IsGiven(i) /\ Found(i)' = Found(i)
                   /\ IsListOfNodes(i)' = IsListOfNodes(i)
                   /\ TimeoutBelowZero(i)' = TimeoutBelowZero(i)
<1>1. Reads' = Reads
  BY DEF Reads
<1>2. Unwanted' = Unwanted
  BY <1>1 DEF Unwanted, Is, Kind, Content
<1>3. EnoughAt' = EnoughAt
  BY <1>1 DEF EnoughAt, Kind, Content, Value
<1>4. \A i : /\ IsGiven(i)' = IsGiven(i) /\ Found(i)' = Found(i)
             /\ IsListOfNodes(i)' = IsListOfNodes(i)
             /\ TimeoutBelowZero(i)' = TimeoutBelowZero(i)
  BY <1>1 DEF IsGiven, Found, IsListOfNodes, TimeoutBelowZero
<1> QED BY <1>1, <1>2, <1>3, <1>4

\* The values of a file.
LEMMA Written ==
  ASSUME ReadingInv, NEW i \in DOMAIN Reads
  PROVE  IsValue(Found(i)) /\ Reads[i].member \in DOMAIN file
<1>1. Reads[i].member \in MembersOf(part)
  BY ReadsAre DEF ReadingInv, NamesOf
<1> QED BY <1>1, ConfigurationAssumption DEF ReadingInv, Found

-----------------------------------------------------------------------------
\* A read either goes on, with what was found, or throws at what is not wanted.
GoesOn ==
    /\ step \notin Unwanted /\ step' = step + 1 /\ ended' = ended
    /\ settings' = IF IsGiven(step) /\ ~TimeoutBelowZero(step)
                   THEN [settings EXCEPT ![Reads[step].member] = Found(step)] ELSE settings
Throws ==
    /\ step \in Unwanted /\ ended' \in {"refused", "aborted"} /\ UNCHANGED <<settings, step>>
    /\ ended' = "aborted" =>
         Reads[step].how = "pattern" /\ Kind(Found(step)) \notin {"absent", "string"}

\* Every function of JsonUtils.h, the services' patterns and the daemon's components do so.
LEMMA GoesOnOrThrows ==
  ASSUME ReadingInv, step <= Len(Reads), ReadMember
  PROVE  GoesOn \/ Throws
<1>1. step \in DOMAIN Reads /\ Reads[step] \in SomeReads(MembersOf(part))
  BY ReadsAre DEF ReadingInv
<1>2. value = Found(step) /\ Read = Reads[step]
  BY DEF value, Found, Read
<1>3. Keep(Found(step)) /\ IsGiven(step) =>
        /\ step' = step + 1 /\ ended' = ended
        /\ settings' = IF IsGiven(step) /\ ~TimeoutBelowZero(step)
                       THEN [settings EXCEPT ![Reads[step].member] = Found(step)] ELSE settings
  BY <1>2 DEF Keep, TimeoutBelowZero
<1>4. CASE GetMemberAs
  <2>1. step \in Unwanted <=> Kind(Found(step)) # Reads[step].type
    BY <1>1, <1>2, <1>4 DEF GetMemberAs, Unwanted, Found
  <2>2. Reads[step].type \in {"int", "bool", "string"}
    BY <1>1, <1>2, <1>4 DEF GetMemberAs, SomeReads
  <2>3. CASE Kind(Found(step)) = Reads[step].type
    <3>1. Keep(Found(step)) /\ IsGiven(step)
      BY <1>2, <1>4, <2>2, <2>3 DEF GetMemberAs, Is, IsGiven, Found
    <3> QED BY <1>3, <2>1, <2>3, <3>1 DEF GoesOn
  <2>4. CASE Kind(Found(step)) # Reads[step].type
    BY <1>2, <1>4, <2>1, <2>4 DEF GetMemberAs, Is, Throw, Throws
  <2> QED BY <2>3, <2>4
<1>5. CASE GetPossibleMemberAs
  <2>1. step \in Unwanted <=> Kind(Found(step)) \notin {"absent", Reads[step].type}
    BY <1>1, <1>2, <1>5 DEF GetPossibleMemberAs, Unwanted, Found
  <2>2. Reads[step].type \in {"int", "bool", "string"}
    BY <1>1, <1>2, <1>5 DEF GetPossibleMemberAs, SomeReads
  <2>3. CASE Kind(Found(step)) = "absent"
    <3>1. Skip /\ ~IsGiven(step)
      BY <1>2, <1>5, <2>3 DEF GetPossibleMemberAs, IsGiven, Found
    <3> QED BY <2>1, <2>3, <3>1 DEF GoesOn, Skip
  <2>4. CASE Kind(Found(step)) = Reads[step].type
    <3>1. Keep(Found(step)) /\ IsGiven(step)
      BY <1>2, <1>5, <2>2, <2>4 DEF GetPossibleMemberAs, Is, IsGiven, Found
    <3> QED BY <1>3, <2>1, <2>4, <3>1 DEF GoesOn
  <2>5. CASE Kind(Found(step)) \notin {"absent", Reads[step].type}
    <3>1. Throw("refused")
      BY <1>2, <1>5, <2>5 DEF GetPossibleMemberAs, Is
    <3> QED BY <2>1, <2>5, <3>1 DEF Throw, Throws
  <2> QED BY <2>3, <2>4, <2>5
<1>6. CASE GetObject
  <2>1. step \in Unwanted <=> Kind(Found(step)) # "object"
    BY <1>1, <1>2, <1>6 DEF GetObject, Unwanted, Found, SomeReads
  <2>2. CASE Kind(Found(step)) = "object"
    <3>1. Keep(Found(step)) /\ IsGiven(step)
      BY <1>2, <1>6, <2>2 DEF GetObject, Is, IsGiven, Found
    <3> QED BY <1>3, <2>1, <2>2, <3>1 DEF GoesOn
  <2>3. CASE Kind(Found(step)) # "object"
    BY <1>2, <1>6, <2>1, <2>3 DEF GetObject, Is, Throw, Throws
  <2> QED BY <2>2, <2>3
<1>7. CASE GetPattern
  <2>1. step \in Unwanted <=> Kind(Found(step)) # "object"
    BY <1>1, <1>2, <1>7 DEF GetPattern, Unwanted, Found, SomeReads
  <2>2. CASE Kind(Found(step)) = "object"
    <3>1. Keep(Found(step)) /\ IsGiven(step)
      BY <1>2, <1>7, <2>2 DEF GetPattern, Is, IsGiven, Found
    <3> QED BY <1>3, <2>1, <2>2, <3>1 DEF GoesOn
  <2>3. CASE Kind(Found(step)) \in {"absent", "string"}
    <3>1. Throw("refused")
      BY <1>2, <1>7, <2>3 DEF GetPattern, Is
    <3> QED BY <2>1, <2>3, <3>1 DEF Throw, Throws
  <2>4. CASE Kind(Found(step)) \notin {"object", "absent", "string"}
    <3>1. Throw("aborted") /\ Read.how = "pattern"
      BY <1>2, <1>7, <2>4 DEF GetPattern, Is
    <3> QED BY <1>2, <2>1, <2>4, <3>1 DEF Throw, Throws
  <2> QED BY <2>2, <2>3, <2>4
<1>8. CASE GetMemberAsVector
  <2> DEFINE proper == Kind(Found(step)) = "array"
                         /\ \A i \in DOMAIN Content(Found(step)) :
                              Is(Content(Found(step))[i], Reads[step].type)
  <2>1. step \in Unwanted <=> ~proper
    BY <1>1, <1>2, <1>8 DEF GetMemberAsVector, Unwanted, Found
  <2>2. CASE proper
    <3>1. Keep(Found(step)) /\ IsGiven(step)
      BY <1>2, <1>8, <2>2 DEF GetMemberAsVector, Is, IsGiven, Found
    <3> QED BY <1>3, <2>1, <2>2, <3>1 DEF GoesOn
  <2>3. CASE ~proper
    <3>1. Throw("refused")
      BY <1>2, <1>8, <2>3 DEF GetMemberAsVector, Is
    <3> QED BY <2>1, <2>3, <3>1 DEF Throw, Throws
  <2> QED BY <2>2, <2>3
<1>9. CASE GetComponents
  <2> DEFINE proper == Kind(Found(step)) = "array"
                         /\ \A i \in DOMAIN Content(Found(step)) :
                              Is(Content(Found(step))[i], "component")
  <2>1. Reads[step].type = "component"
    BY <1>1, <1>2, <1>9 DEF GetComponents, SomeReads
  <2>2. step \in Unwanted <=> ~proper
    BY <1>1, <1>2, <1>9, <2>1 DEF GetComponents, Unwanted, Found
  <2>3. CASE proper
    <3>1. Keep(Found(step)) /\ IsGiven(step)
      BY <1>2, <1>9, <2>3 DEF GetComponents, Is, IsGiven, Found
    <3> QED BY <1>3, <2>2, <2>3, <3>1 DEF GoesOn
  <2>4. CASE ~proper
    <3>1. Throw("refused")
      <4>1. CASE ~Is(value, "array")
        BY <1>9, <4>1 DEF GetComponents
      <4>2. CASE Is(value, "array")
        <5>1. ~(\A i \in DOMAIN Content(value) : Is(Content(value)[i], "component"))
          BY <1>2, <2>4, <4>2 DEF Is
        <5> QED BY <1>9, <4>2, <5>1 DEF GetComponents
      <4> QED BY <4>1, <4>2
    <3> QED BY <2>2, <2>4, <3>1 DEF Throw, Throws
  <2> QED BY <2>3, <2>4
<1> QED BY <1>4, <1>5, <1>6, <1>7, <1>8, <1>9 DEF ReadMember

-----------------------------------------------------------------------------
\* The daemon and the messagings and services that are not enabled leave before they read on.
LEMMA Enough ==
  ASSUME ConfigurationInv, ended = "reading", step <= Len(Reads), ~IsLeft, ~IsOtherVersion
  PROVE  step <= EnoughAt
<1>0. /\ part \in Parts /\ step \in 1..(Len(Reads) + 1) /\ step <= EnoughAt + 1
      /\ \A i \in DOMAIN Reads : i < step => i \notin Unwanted
      /\ Len(Reads) \in Nat /\ DOMAIN Reads = 1..Len(Reads)
  BY ReadsAre DEF ConfigurationInv, ReadingInv
<1>1. CASE part \in {"messaging", "service"}
  <2>1. Len(Reads) >= 3 /\ Reads[2] = [how |-> "possible", member |-> "Enabled", type |-> "bool"]
    BY <1>0, <1>1, PlacesOfPart
  <2>2. CASE Kind(file["Enabled"]) = "bool" /\ ~Content(file["Enabled"])
    <3>1. EnoughAt = 2
      BY <1>1, <2>2 DEF EnoughAt
    <3>2. SUFFICES ASSUME step = 3 PROVE FALSE
      BY <1>0, <3>1
    <3>3. settings["Enabled"] = file["Enabled"]
      <4>1. 2 \in DOMAIN Reads /\ 2 < step
        BY <1>0, <2>1, <3>2
      <4>2. IsGiven(2) /\ ~TimeoutBelowZero(2) /\ Found(2) = file["Enabled"]
        BY <2>1, <2>2 DEF IsGiven, TimeoutBelowZero, Found
      <4> QED BY <2>1, <4>1, <4>2 DEF ConfigurationInv, SettingsInv, Has
    <3>4. file["Enabled"] = Value("bool", FALSE)
      <4>1. IsValue(Found(2)) /\ Found(2) = file["Enabled"]
        BY <1>0, <2>1, Written DEF Found, ConfigurationInv
      <4> QED BY <2>2, <4>1 DEF IsValue
    <3> QED BY <1>1, <3>2, <3>3, <3>4 DEF IsLeft
  <2>3. CASE ~(Kind(file["Enabled"]) = "bool" /\ ~Content(file["Enabled"]))
    <3>1. EnoughAt = Len(Reads) + 1
      BY <1>1, <2>3 DEF EnoughAt
    <3> QED BY <1>0, <3>1
  <2> QED BY <2>2, <2>3
<1>2. CASE part = "DaemonController"
  <2>1. /\ Len(Reads) = 5
        /\ Reads[1] = [how |-> "required", member |-> "Configuration", type |-> "string"]
    BY <1>0, <1>2, PlacesOfPart
  <2>2. CASE file["Configuration"] # Value("string", "v1.0")
    <3>1. EnoughAt = 1
      BY <1>2, <2>2 DEF EnoughAt
    <3>2. SUFFICES ASSUME step = 2 PROVE FALSE
      BY <1>0, <3>1
    <3>3. settings["Configuration"] = file["Configuration"]
      <4>1. 1 \in DOMAIN Reads /\ 1 < step /\ 1 \notin Unwanted
        BY <1>0, <2>1, <3>2
      <4>2. IsGiven(1) /\ ~TimeoutBelowZero(1) /\ Found(1) = file["Configuration"]
        BY <2>1, <4>1 DEF IsGiven, TimeoutBelowZero, Found, Unwanted
      <4> QED BY <2>1, <4>1, <4>2 DEF ConfigurationInv, SettingsInv, Has
    <3> QED BY <1>2, <2>2, <3>2, <3>3 DEF IsOtherVersion
  <2>3. CASE file["Configuration"] = Value("string", "v1.0")
    <3>1. EnoughAt = Len(Reads) + 1
      BY <1>2, <2>3 DEF EnoughAt
    <3> QED BY <1>0, <3>1
  <2> QED BY <2>2, <2>3
<1>3. CASE part \notin {"messaging", "service", "DaemonController"}
  <2>1. EnoughAt = Len(Reads) + 1
    BY <1>3 DEF EnoughAt
  <2> QED BY <1>0, <2>1
<1> QED BY <1>1, <1>2, <1>3

\* A read keeps what was read before it.
LEMMA ReadSettings ==
  ASSUME ConfigurationInv, ended = "reading", step <= Len(Reads), ~IsLeft, ~IsOtherVersion,
         UNCHANGED <<part, file>>, ReadMember
  PROVE  ReadingInv' /\ SettingsInv' /\ (list' = <<>> => EndedInv')
<1>0. /\ part \in Parts /\ step \in 1..(Len(Reads) + 1) /\ step <= EnoughAt
      /\ \A i \in DOMAIN Reads : i < step => i \notin Unwanted
      /\ Len(Reads) \in Nat /\ DOMAIN Reads = 1..Len(Reads)
      /\ \A i, j \in DOMAIN Reads : Reads[i].member = Reads[j].member => i = j
      /\ \A i \in DOMAIN Reads : Reads[i].member \in MembersOf(part)
  BY ReadsAre, Enough DEF ConfigurationInv, ReadingInv, NamesOf
<1>1. /\ Reads' = Reads /\ Unwanted' = Unwanted /\ EnoughAt' = EnoughAt
      /\ \A i : /\ IsGiven(i)' = IsGiven(i) /\ Found(i)' = Found(i)
                /\ TimeoutBelowZero(i)' = TimeoutBelowZero(i)
  BY SameFile
<1>2. DOMAIN settings = MembersOf(part) /\ \A i \in DOMAIN Reads : settings[Reads[i].member] = Has(i)
  BY DEF ConfigurationInv, SettingsInv
<1>3. EnoughAt \in Int
  BY <1>0 DEF EnoughAt
<1>4. CASE GoesOn
  <2>1. ReadingInv'
    <3>1. \A i \in DOMAIN Reads : i < step' => i \notin Unwanted
      BY <1>0, <1>4 DEF GoesOn
    <3> QED BY <1>0, <1>1, <1>3, <1>4, <3>1 DEF GoesOn, ReadingInv, ConfigurationInv
  <2>2. SettingsInv'
    <3>1. DOMAIN settings' = MembersOf(part)
      BY <1>2, <1>4 DEF GoesOn
    <3>2. \A i \in DOMAIN Reads : settings'[Reads[i].member] = Has(i)'
      <4> SUFFICES ASSUME NEW i \in DOMAIN Reads PROVE settings'[Reads[i].member] = Has(i)'
        OBVIOUS
      <4>1. CASE i = step
        <5>1. Has(i)' = IF IsGiven(step) /\ ~TimeoutBelowZero(step) THEN Found(step) ELSE Default
          BY <1>0, <1>1, <1>4, <4>1 DEF GoesOn, Has, Default, Value
        <5>2. settings[Reads[i].member] = Default
          BY <1>0, <1>2, <4>1 DEF Has
        <5> QED BY <1>0, <1>2, <1>4, <4>1, <5>1, <5>2 DEF GoesOn
      <4>2. CASE i # step
        <5>1. Reads[i].member # Reads[step].member
          BY <1>0, <4>2
        <5>2. settings'[Reads[i].member] = settings[Reads[i].member]
          BY <1>0, <1>2, <1>4, <5>1 DEF GoesOn
        <5>3. Has(i)' = Has(i)
          BY <1>0, <1>1, <1>4, <4>2 DEF GoesOn, Has, Default, Value
        <5> QED BY <1>2, <5>2, <5>3
      <4> QED BY <4>1, <4>2
    <3>3. ended' = "reading" /\ part' = part
      BY <1>4 DEF GoesOn
    <3> QED BY <1>1, <3>1, <3>2, <3>3 DEF SettingsInv, MembersOf
  <2>3. EndedInv'
    BY <1>4 DEF GoesOn, EndedInv
  <2> QED BY <2>1, <2>2, <2>3
<1>5. CASE Throws
  <2>1. ReadingInv'
    BY <1>0, <1>1, <1>3, <1>5 DEF Throws, ReadingInv, ConfigurationInv
  <2>2. SettingsInv'
    <3>1. \A i \in DOMAIN Reads : Has(i)' = Has(i)
      BY <1>1, <1>5 DEF Throws, Has, Default, Value
    <3> QED BY <1>1, <1>2, <1>5, <3>1 DEF Throws, SettingsInv, MembersOf
  <2>3. list' = <<>> => EndedInv'
    BY <1>0, <1>1, <1>5 DEF Throws, EndedInv
  <2> QED BY <2>1, <2>2, <2>3
<1>6. GoesOn \/ Throws
  BY GoesOnOrThrows DEF ConfigurationInv
<1> QED BY <1>4, <1>5, <1>6

\* A sequence of its own elements.
LEMMA OwnSequence ==
  ASSUME NEW s, s \in Seq(ToSet(s))
  PROVE  /\ Len(s) \in Nat /\ DOMAIN s = 1..Len(s) /\ SubSeq(s, 1, Len(s)) = s
         /\ <<>> \o s = s /\ \A i \in DOMAIN s : s[i] \in ToSet(s)
         /\ <<>> \in Seq(ToSet(s)) /\ ToSet(<<>>) = {} /\ IsInjective(<<>>)
<1> DEFINE S == ToSet(s)
<1>1. \A i \in DOMAIN s : s[i] \in S
  BY DEF ToSet
<1>2. ToSet(<<>>) = {} /\ IsInjective(<<>>)
  BY DEF ToSet, IsInjective
<1> HIDE DEF S
<1>3. s \in Seq(S)
  BY DEF S
<1>4. Len(s) \in Nat /\ DOMAIN s = 1..Len(s) /\ <<>> \in Seq(S)
  BY <1>3
<1>5. <<>> \o s = s
  BY <1>3, ConcatEmptySeq
<1>6. SubSeq(s, 1, Len(s)) = s
  <2> DEFINE u == SubSeq(s, 1, Len(s))
  <2>1. \A i \in 1..Len(s) : s[i] \in S
    BY <1>1, <1>4
  <2>2. u \in Seq(S) /\ Len(u) = Len(s) /\ \A i \in 1..Len(s) : u[i] = s[i]
    <3>1. /\ u \in Seq(S) /\ Len(u) = IF 1 <= Len(s) THEN Len(s) - 1 + 1 ELSE 0
          /\ \A i \in 1..(Len(s) - 1 + 1) : u[i] = s[1 + i - 1]
      BY <1>4, <2>1, SubSeqProperties
    <3> QED BY <1>4, <3>1
  <2> HIDE DEF u
  <2>3. u = s
    BY <1>3, <2>2, SeqEqual
  <2> QED BY <2>3 DEF u
<1> QED BY <1>1, <1>2, <1>4, <1>5, <1>6 DEF S

\* A read of a list of nodes begins to go through it, the others leave it alone.
LEMMA ReadLists ==
  ASSUME ConfigurationInv, ended = "reading", list = <<>>, step <= Len(Reads),
         UNCHANGED <<part, file>>, ReadMember
  PROVE  ListInv' /\ (ended' # "reading" => list' = <<>>)
<1>0. /\ part \in Parts /\ step \in DOMAIN Reads /\ step \in Nat /\ DOMAIN Reads = 1..Len(Reads)
      /\ Reads[step] \in SomeReads(MembersOf(part)) /\ Len(Reads) \in Nat
      /\ \A i \in DOMAIN Reads :
          IsListOfNodes(i) \/ Reads[i].how = "components" => Reads[i].member \in NodeLists
      /\ \A i, j \in DOMAIN Reads :
           Reads[i].member \in NodeLists /\ Reads[j].member \in NodeLists => i = j
  BY ReadsAre DEF ConfigurationInv, ReadingInv
<1>1. /\ Reads' = Reads
      /\ \A i : Found(i)' = Found(i) /\ IsListOfNodes(i)' = IsListOfNodes(i)
  BY SameFile
<1>2. \/ step' = step + 1 /\ ended' = "reading"
      \/ step' = step /\ ended' # "reading"
  BY GoesOnOrThrows DEF GoesOn, Throws, ConfigurationInv
<1>3. value = Found(step) /\ Read = Reads[step]
  BY DEF value, Found, Read
<1>4. Reads[step].how # "components" => nodes' = nodes
  BY <1>3 DEF ReadMember, GetMemberAs, GetPossibleMemberAs, GetObject, GetPattern, GetMemberAsVector,
              GetComponents
<1>5. ~IsListOfNodes(step) => list' = <<>>
  <2>1. CASE GetMemberAsVector
    BY <1>0, <1>3, <2>1 DEF GetMemberAsVector, IsListOfNodes, SomeReads
  <2>2. CASE ~GetMemberAsVector
    BY <2>2 DEF ReadMember, GetMemberAs, GetPossibleMemberAs, GetObject, GetPattern, GetComponents
  <2> QED BY <2>1, <2>2
<1>6. IsListOfNodes(step) =>
        \/ step' = step + 1 /\ list' = Content(Found(step)) /\ Kind(Found(step)) = "array"
        \/ step' = step /\ list' = <<>>
  <2> SUFFICES ASSUME IsListOfNodes(step)
               PROVE  \/ step' = step + 1 /\ list' = Content(Found(step)) /\ Kind(Found(step)) = "array"
                      \/ step' = step /\ list' = <<>>
    OBVIOUS
  <2>1. GetMemberAsVector
    BY <1>3 DEF ReadMember, GetMemberAs, GetPossibleMemberAs, GetObject, GetPattern, GetComponents,
                IsListOfNodes
  <2> QED BY <1>3, <2>1 DEF GetMemberAsVector, IsListOfNodes, Keep, Throw, Is
<1>7. ASSUME NEW i \in DOMAIN Reads, IsListOfNodes(i)
      PROVE  LET listed == Content(Found(i))
             IN  IF i < step'
                 THEN /\ nodes' \in Seq(ToSet(listed)) /\ list' \in Seq(ToSet(listed))
                      /\ part = "PulseMeters" => nodes' \o list' = listed
                      /\ part # "PulseMeters" =>
                           ToSet(nodes') \union ToSet(list') = ToSet(listed) /\ IsInjective(nodes')
                 ELSE nodes' = <<>> /\ list' = <<>>
  <2>1. CASE i = step
    <3>1. nodes = <<>> /\ nodes' = nodes
      BY <1>0, <1>4, <1>7, <2>1 DEF ConfigurationInv, ListInv, IsListOfNodes
    <3>2. CASE step' = step
      BY <1>0, <1>6, <1>7, <2>1, <3>1, <3>2
    <3>3. CASE step' = step + 1
      <4> DEFINE listed == Content(Found(i))
      <4>1. list' = listed /\ Kind(Found(i)) = "array"
        BY <1>0, <1>6, <1>7, <2>1, <3>3
      <4>2. listed \in Seq(ToSet(listed))
        BY <4>1, Written DEF IsValue, ConfigurationInv
      <4> HIDE DEF listed
      <4>3. /\ <<>> \o listed = listed /\ <<>> \in Seq(ToSet(listed))
            /\ ToSet(<<>>) = {} /\ IsInjective(<<>>)
        BY <4>2, OwnSequence
      <4> QED BY <1>0, <2>1, <3>1, <3>3, <4>1, <4>2, <4>3 DEF listed
    <3> QED BY <1>2, <3>2, <3>3
  <2>2. CASE i # step
    <3>1. Reads[step].how # "components" /\ ~IsListOfNodes(step)
      BY <1>0, <1>7, <2>2
    <3>2. nodes' = nodes /\ list' = list
      BY <1>4, <1>5, <3>1
    <3>3. i < step' <=> i < step
      BY <1>0, <1>2, <2>2
    <3> QED BY <1>7, <3>2, <3>3 DEF ConfigurationInv, ListInv
  <2> QED BY <2>1, <2>2
<1>8. (\A i \in DOMAIN Reads : ~IsListOfNodes(i)) => list' = <<>>
  BY <1>0, <1>5
<1>9. ListInv'
  <2>1. part' = part
    OBVIOUS
  <2> QED BY <1>1, <1>7, <1>8, <2>1 DEF ListInv
<1>10. ended' # "reading" => list' = <<>>
  BY <1>0, <1>2, <1>5, <1>6
<1> QED BY <1>9, <1>10

\* The daemon loads the components before the first that is none.
LEMMA ReadComponents ==
  ASSUME ConfigurationInv, ended = "reading", step <= Len(Reads), UNCHANGED <<part, file>>, ReadMember
  PROVE  ComponentsInv'
<1> DEFINE listed == Content(file["Components"])
<1> SUFFICES ASSUME part = "DaemonController", Kind(file["Components"]) = "array",
                    step' >= 5, step' = 5 => ended' # "reading"
             PROVE  /\ nodes' = SubSeq(listed, 1, Len(nodes'))
                    /\ \A e \in ToSet(nodes') : Is(e, "component")
                    /\ nodes' = listed \/ ~Is(listed[Len(nodes') + 1], "component")
  BY DEF ComponentsInv
<1>1. /\ part \in Parts /\ step \in Nat /\ Len(Reads) = 5 /\ 5 \in DOMAIN Reads
      /\ Reads[5] = [how |-> "components", member |-> "Components", type |-> "component"]
  <2>1. part \in Parts /\ step \in Nat
    BY ReadsAre DEF ConfigurationInv, ReadingInv
  <2>2. /\ Len(Reads) = 5
        /\ Reads[5] = [how |-> "components", member |-> "Components", type |-> "component"]
    BY <2>1, PlacesOfPart
  <2> QED BY <2>1, <2>2, ReadsAre
<1>2. step = 5
  <2>1. \/ step' = step + 1 /\ ended' = "reading"
        \/ step' = step /\ ended' # "reading"
    BY GoesOnOrThrows DEF GoesOn, Throws, ConfigurationInv
  <2> QED BY <1>1, <2>1
<1>3. Read = Reads[5] /\ value = file["Components"]
  BY <1>1, <1>2 DEF Read, value
<1>4. listed \in Seq(ToSet(listed))
  <2>1. IsValue(Found(5)) /\ Found(5) = file["Components"]
    BY <1>1, Written DEF Found, ConfigurationInv
  <2> QED BY <2>1 DEF IsValue
<1>5. /\ Len(listed) \in Nat /\ DOMAIN listed = 1..Len(listed)
      /\ SubSeq(listed, 1, Len(listed)) = listed
      /\ \A i \in DOMAIN listed : listed[i] \in ToSet(listed)
  BY <1>4, OwnSequence
<1>6. GetComponents
  BY <1>1, <1>3 DEF ReadMember, GetMemberAs, GetPossibleMemberAs, GetObject, GetPattern,
              GetMemberAsVector
<1>7. CASE \A i \in DOMAIN listed : Is(listed[i], "component")
  <2>1. nodes' = listed
    BY <1>3, <1>6, <1>7 DEF GetComponents, Is
  <2> QED BY <1>5, <1>7, <2>1 DEF ToSet
<1>8. CASE ~ \A i \in DOMAIN listed : Is(listed[i], "component")
  <2>1. PICK at \in DOMAIN listed :
          /\ ~Is(listed[at], "component")
          /\ \A i \in 1..(at - 1) : Is(listed[i], "component")
          /\ nodes' = SubSeq(listed, 1, at - 1)
    BY <1>3, <1>6, <1>8 DEF GetComponents, Is
  <2> DEFINE S == ToSet(listed)
             u == SubSeq(listed, 1, at - 1)
  <2>2. at \in 1..Len(listed)
    BY <1>5, <2>1
  <2>3. \A i \in 1..(at - 1) : listed[i] \in S
    BY <1>5, <2>2
  <2>4. u \in Seq(S) /\ Len(u) = at - 1 /\ \A i \in 1..(at - 1) : u[i] = listed[i]
    <3> HIDE DEF listed, S
    <3>1. at - 1 \in Int /\ 1 \in Int
      BY <1>5, <2>2
    <3>2. /\ u \in Seq(S)
          /\ Len(u) = IF 1 <= at - 1 THEN at - 1 - 1 + 1 ELSE 0
          /\ \A i \in 1..(at - 1 - 1 + 1) : u[i] = listed[1 + i - 1]
      BY <2>3, <3>1, SubSeqProperties
    <3> QED BY <1>5, <2>2, <3>2
  <2>5. \A e \in ToSet(nodes') : Is(e, "component")
    <3>1. nodes' = u
      BY <2>1
    <3> HIDE DEF u, S
    <3>2. DOMAIN u = 1..(at - 1)
      BY <1>5, <2>2, <2>4
    <3> QED BY <2>1, <2>4, <3>1, <3>2 DEF ToSet
  <2>6. Len(nodes') = at - 1 /\ Len(nodes') + 1 = at
    BY <1>5, <2>1, <2>2, <2>4
  <2> QED BY <2>1, <2>5, <2>6
<1> QED BY <1>7, <1>8

\* One more element is taken from a list and put behind another.
LEMMA OneMore ==
  ASSUME NEW S, NEW n \in Seq(S), NEW l \in Seq(S), l # <<>>
  PROVE  /\ Append(n, Head(l)) \in Seq(S) /\ Tail(l) \in Seq(S)
         /\ Append(n, Head(l)) \o Tail(l) = n \o l
         /\ ToSet(Append(n, Head(l))) \union ToSet(Tail(l)) = ToSet(n) \union ToSet(l)
         /\ Contains(n, Head(l)) => ToSet(n) \union ToSet(Tail(l)) = ToSet(n) \union ToSet(l)
         /\ IsInjective(n) /\ ~Contains(n, Head(l)) => IsInjective(Append(n, Head(l)))
<1> DEFINE h == Head(l)
           t == Tail(l)
           a == Append(n, h)
<1>1. /\ h \in S /\ t \in Seq(S) /\ Len(t) = Len(l) - 1 /\ \A i \in 1..Len(t) : t[i] = l[i + 1]
  BY HeadTailProperties
<1>2. h = l[1] /\ Len(l) \in Nat /\ Len(l) >= 1 /\ Len(t) \in Nat /\ Len(n) \in Nat
  BY <1>1, EmptySeq
<1> HIDE DEF h, t
<1>3. /\ a \in Seq(S) /\ Len(a) = Len(n) + 1
      /\ \A i \in 1..Len(n) : a[i] = n[i]
      /\ a[Len(n) + 1] = h
  BY <1>1, AppendProperties
<1> HIDE DEF a
<1>4. DOMAIN a = 1..(Len(n) + 1) /\ DOMAIN n = 1..Len(n) /\ DOMAIN l = 1..Len(l) /\ DOMAIN t = 1..Len(t)
  BY <1>1, <1>3
<1>5. a \o t = n \o l
  <2>1. /\ a \o t \in Seq(S) /\ Len(a \o t) = Len(a) + Len(t)
        /\ \A i \in 1..Len(a) : (a \o t)[i] = a[i]
        /\ \A i \in 1..Len(t) : (a \o t)[Len(a) + i] = t[i]
    <3>1. a \in Seq(S) /\ t \in Seq(S)
      BY <1>1, <1>3
    <3> QED BY <3>1, ConcatProperties
  <2>2. /\ n \o l \in Seq(S) /\ Len(n \o l) = Len(n) + Len(l)
        /\ \A i \in 1..Len(n) : (n \o l)[i] = n[i]
        /\ \A i \in 1..Len(l) : (n \o l)[Len(n) + i] = l[i]
    BY ConcatProperties
  <2> DEFINE u == a \o t
             v == n \o l
  <2>3. u \in Seq(S) /\ v \in Seq(S) /\ Len(u) = Len(v)
    BY <1>1, <1>2, <1>3, <2>1, <2>2
  <2>4. ASSUME NEW i \in 1..Len(u) PROVE u[i] = v[i]
    <3>0. i \in Nat /\ 1 <= i /\ i <= Len(n) + 1 + Len(t)
      BY <1>2, <1>3, <2>1
    <3>1. CASE i <= Len(n)
      <4>1. i \in 1..Len(n) /\ i \in 1..Len(a)
        BY <1>2, <1>3, <3>0, <3>1
      <4> QED BY <1>3, <2>1, <2>2, <4>1
    <3>2. CASE i = Len(n) + 1
      <4>1. i \in 1..Len(a) /\ 1 \in 1..Len(l)
        BY <1>2, <1>3, <3>2
      <4> QED BY <1>2, <1>3, <2>1, <2>2, <3>2, <4>1
    <3>3. CASE i > Len(n) + 1
      <4> DEFINE j == i - (Len(n) + 1)
      <4>1. /\ j \in 1..Len(t) /\ j + 1 \in 1..Len(l)
            /\ i = Len(a) + j /\ i = Len(n) + (j + 1)
        BY <1>1, <1>2, <1>3, <3>0, <3>3
      <4> HIDE DEF j
      <4>2. u[i] = t[j] /\ v[i] = l[j + 1]
        BY <2>1, <2>2, <4>1
      <4> QED BY <1>1, <4>1, <4>2
    <3>4. i <= Len(n) \/ i = Len(n) + 1 \/ i > Len(n) + 1
      BY <1>2, <3>0
    <3> QED BY <3>1, <3>2, <3>3, <3>4
  <2> HIDE DEF u, v
  <2>5. u = v
    BY <2>3, <2>4, SeqEqual
  <2> QED BY <2>5 DEF u, v
<1>6. \A e : e \in ToSet(a) <=> e \in ToSet(n) \/ e = h
  <2> TAKE e
  <2>1. e \in ToSet(a) => e \in ToSet(n) \/ e = h
    BY <1>2, <1>3, <1>4 DEF ToSet
  <2>2. e \in ToSet(n) => e \in ToSet(a)
    <3>1. \A i \in 1..Len(n) : i \in DOMAIN a
      BY <1>2, <1>4
    <3> QED BY <1>3, <1>4, <3>1 DEF ToSet
  <2>3. h \in ToSet(a)
    <3>1. Len(n) + 1 \in DOMAIN a
      BY <1>2, <1>4
    <3> QED BY <1>3, <3>1 DEF ToSet
  <2> QED BY <2>1, <2>2, <2>3
<1>7. \A e : e \in ToSet(l) <=> e = h \/ e \in ToSet(t)
  <2> TAKE e
  <2>1. ASSUME NEW i \in DOMAIN l PROVE l[i] = h \/ l[i] \in ToSet(t)
    <3>1. CASE i = 1
      BY <1>2, <3>1
    <3>2. CASE i # 1
      <4>1. i - 1 \in DOMAIN t /\ t[i - 1] = l[i]
        BY <1>1, <1>2, <1>4, <3>2
      <4> QED BY <4>1 DEF ToSet
    <3> QED BY <3>1, <3>2
  <2>2. ASSUME NEW i \in DOMAIN t PROVE t[i] \in ToSet(l)
    <3>1. i + 1 \in DOMAIN l /\ t[i] = l[i + 1]
      BY <1>1, <1>2, <1>4
    <3> QED BY <3>1 DEF ToSet
  <2>3. h \in ToSet(l)
    <3>1. 1 \in DOMAIN l
      BY <1>2, <1>4
    <3> QED BY <1>2, <3>1 DEF ToSet
  <2>4. e \in ToSet(l) => e = h \/ e \in ToSet(t)
    <3> SUFFICES ASSUME e \in ToSet(l) PROVE e = h \/ e \in ToSet(t)
      OBVIOUS
    <3>1. PICK i \in DOMAIN l : e = l[i]
      BY DEF ToSet
    <3> QED BY <2>1, <3>1
  <2>5. e \in ToSet(t) => e \in ToSet(l)
    <3> SUFFICES ASSUME e \in ToSet(t) PROVE e \in ToSet(l)
      OBVIOUS
    <3>1. PICK i \in DOMAIN t : e = t[i]
      BY DEF ToSet
    <3> QED BY <2>2, <3>1
  <2> QED BY <2>3, <2>4, <2>5
<1>8. Contains(n, h) <=> h \in ToSet(n)
  BY <1>4 DEF Contains, ToSet
<1>9. ToSet(a) \union ToSet(t) = ToSet(n) \union ToSet(l)
  BY <1>6, <1>7
<1>10. Contains(n, h) => ToSet(n) \union ToSet(t) = ToSet(n) \union ToSet(l)
  BY <1>7, <1>8
<1>11. IsInjective(n) /\ ~Contains(n, h) => IsInjective(a)
  <2> SUFFICES ASSUME IsInjective(n), ~Contains(n, h),
                      NEW i \in DOMAIN a, NEW j \in DOMAIN a, a[i] = a[j]
               PROVE  i = j
    BY DEF IsInjective
  <2>1. \A k \in 1..Len(n) : n[k] # h
    BY DEF Contains
  <2>2. CASE i \in 1..Len(n) /\ j \in 1..Len(n)
    BY <1>3, <1>4, <2>2 DEF IsInjective
  <2>3. CASE i \notin 1..Len(n) \/ j \notin 1..Len(n)
    BY <1>2, <1>3, <1>4, <2>1, <2>3
  <2> QED BY <2>2, <2>3
<1> QED BY <1>1, <1>3, <1>5, <1>9, <1>10, <1>11 DEF h, t, a

\* A node that is served moves from the list to the nodes.
LEMMA ServeKeeps ==
  ASSUME ConfigurationInv, UNCHANGED <<part, file>>, Serve
  PROVE  ConfigurationInv'
<1>0. part \in Parts
  BY DEF ConfigurationInv, ReadingInv
<1>1. /\ Reads' = Reads /\ Unwanted' = Unwanted /\ EnoughAt' = EnoughAt
      /\ \A i : /\ IsGiven(i)' = IsGiven(i) /\ Found(i)' = Found(i)
                /\ IsListOfNodes(i)' = IsListOfNodes(i)
                /\ TimeoutBelowZero(i)' = TimeoutBelowZero(i)
  BY SameFile
<1>2. /\ step' = step /\ settings' = settings /\ ended' = ended
      /\ list # <<>> /\ list' = Tail(list)
      /\ nodes' = IF part # "PulseMeters" /\ Contains(nodes, Head(list)) THEN nodes
                  ELSE Append(nodes, Head(list))
  BY DEF Serve
<1>3. ended = "reading"
  BY <1>2 DEF ConfigurationInv, EndedInv
<1>4. ReadingInv'
  BY <1>1, <1>2 DEF ConfigurationInv, ReadingInv
<1>5. SettingsInv'
  <2>1. \A i : Has(i)' = Has(i)
    BY <1>1, <1>2 DEF Has, Default, Value
  <2> QED BY <1>1, <1>2, <1>3, <2>1 DEF ConfigurationInv, SettingsInv, MembersOf
<1>6. EndedInv'
  BY <1>2, <1>3 DEF EndedInv
<1>7. ListInv'
  <2>1. ASSUME NEW i \in DOMAIN Reads, IsListOfNodes(i)
        PROVE  LET listed == Content(Found(i))
               IN  /\ i < step
                   /\ nodes' \in Seq(ToSet(listed)) /\ list' \in Seq(ToSet(listed))
                   /\ part = "PulseMeters" => nodes' \o list' = listed
                   /\ part # "PulseMeters" =>
                        ToSet(nodes') \union ToSet(list') = ToSet(listed) /\ IsInjective(nodes')
    <3> DEFINE S == ToSet(Content(Found(i)))
    <3>1. /\ i < step /\ nodes \in Seq(S) /\ list \in Seq(S)
          /\ part = "PulseMeters" => nodes \o list = Content(Found(i))
          /\ part # "PulseMeters" => ToSet(nodes) \union ToSet(list) = S /\ IsInjective(nodes)
      BY <1>2, <2>1 DEF ConfigurationInv, ListInv
    <3> HIDE DEF S
    <3>2. /\ Append(nodes, Head(list)) \in Seq(S) /\ Tail(list) \in Seq(S)
          /\ Append(nodes, Head(list)) \o Tail(list) = nodes \o list
          /\ ToSet(Append(nodes, Head(list))) \union ToSet(Tail(list)) = ToSet(nodes) \union ToSet(list)
          /\ Contains(nodes, Head(list)) =>
               ToSet(nodes) \union ToSet(Tail(list)) = ToSet(nodes) \union ToSet(list)
          /\ IsInjective(nodes) /\ ~Contains(nodes, Head(list)) =>
               IsInjective(Append(nodes, Head(list)))
      BY <1>2, <3>1, OneMore
    <3>3. CASE part = "PulseMeters"
      BY <1>2, <3>1, <3>2, <3>3 DEF S
    <3>4. CASE part # "PulseMeters" /\ Contains(nodes, Head(list))
      BY <1>2, <3>1, <3>2, <3>4 DEF S
    <3>5. CASE part # "PulseMeters" /\ ~Contains(nodes, Head(list))
      BY <1>2, <3>1, <3>2, <3>5 DEF S
    <3> QED BY <3>3, <3>4, <3>5
  <2>2. \E i \in DOMAIN Reads : IsListOfNodes(i)
    BY <1>2 DEF ConfigurationInv, ListInv
  <2>3. part' = part
    OBVIOUS
  <2> QED BY <1>1, <1>2, <2>1, <2>2, <2>3 DEF ListInv
<1>8. ComponentsInv'
  <2>1. part # "DaemonController"
    <3>1. \E i \in DOMAIN Reads : IsListOfNodes(i)
      BY <1>2 DEF ConfigurationInv, ListInv
    <3> QED BY <1>0, <3>1, PlacesOfPart
  <2> QED BY <2>1 DEF ComponentsInv
<1> QED BY <1>4, <1>5, <1>6, <1>7, <1>8 DEF ConfigurationInv

-----------------------------------------------------------------------------
\* A part that has read nothing has its defaults.
LEMMA ConfigurationBegins ==
  ConfigurationInit => ConfigurationInv
<1> SUFFICES ASSUME ConfigurationInit PROVE ConfigurationInv
  OBVIOUS
<1>1. /\ part \in Parts /\ file \in Files[part] /\ step = 1 /\ ended = "reading"
      /\ settings = [m \in MembersOf(part) |-> Default] /\ list = <<>> /\ nodes = <<>>
  BY DEF ConfigurationInit
<1>2. /\ Len(Reads) \in Nat /\ DOMAIN Reads = 1..Len(Reads)
      /\ \A i \in DOMAIN Reads : Reads[i].member \in MembersOf(part)
  BY <1>1, ReadsAre DEF NamesOf
<1>3. EnoughAt \in Nat
  BY <1>2 DEF EnoughAt
<1>4. ReadingInv
  BY <1>1, <1>2, <1>3 DEF ReadingInv
<1>5. SettingsInv
  BY <1>1, <1>2 DEF SettingsInv, Has
<1>6. EndedInv
  BY <1>1 DEF EndedInv
<1>7. ListInv
  BY <1>1, <1>2 DEF ListInv
<1>8. ComponentsInv
  BY <1>1 DEF ComponentsInv
<1> QED BY <1>4, <1>5, <1>6, <1>7, <1>8 DEF ConfigurationInv

\* A part ends for the reason that its values give.
LEMMA EndKeeps ==
  ASSUME ConfigurationInv, ended = "reading", UNCHANGED <<part, file>>, list = <<>>,
         Leave \/ RefuseVersion \/ Update
  PROVE  ConfigurationInv'
<1>0. /\ part \in Parts /\ step \in 1..(Len(Reads) + 1) /\ file \in Files[part]
      /\ \A i \in DOMAIN Reads : i < step => i \notin Unwanted
      /\ Len(Reads) \in Nat /\ DOMAIN Reads = 1..Len(Reads)
      /\ \A i \in DOMAIN Reads : Reads[i].member \in MembersOf(part)
  BY ReadsAre DEF ConfigurationInv, ReadingInv, NamesOf
<1>1. /\ Reads' = Reads /\ Unwanted' = Unwanted /\ EnoughAt' = EnoughAt
      /\ \A i : /\ IsGiven(i)' = IsGiven(i) /\ Found(i)' = Found(i)
                /\ IsListOfNodes(i)' = IsListOfNodes(i)
                /\ TimeoutBelowZero(i)' = TimeoutBelowZero(i)
  BY SameFile
<1>2. step' = step /\ list' = list /\ nodes' = nodes /\ ended' \in {"left", "refused", "updated"}
  BY DEF Leave, RefuseVersion, Update, Throw
<1>3. DOMAIN settings = MembersOf(part) /\ \A i \in DOMAIN Reads : settings[Reads[i].member] = Has(i)
  BY DEF ConfigurationInv, SettingsInv
<1>4. \A i : Has(i)' = Has(i)
  BY <1>1, <1>2 DEF Has, Default, Value
<1>5. ReadingInv'
  BY <1>1, <1>2 DEF ConfigurationInv, ReadingInv
<1>6. ListInv'
  BY <1>1, <1>2 DEF ConfigurationInv, ListInv
<1>7. CASE Leave
  <2>1. part \in {"messaging", "service"} /\ step = 3 /\ settings["Enabled"] = Value("bool", FALSE)
        /\ ended' = "left" /\ settings' = settings
    BY <1>7 DEF Leave, IsLeft, Throw
  <2>2. EnoughAt = 2
    <3>1. 2 \in DOMAIN Reads /\ Reads[2] = [how |-> "possible", member |-> "Enabled", type |-> "bool"]
      BY <1>0, <2>1, PlacesOfPart
    <3>2. Has(2) = Value("bool", FALSE)
      <4>1. Reads[2].member = "Enabled" /\ settings[Reads[2].member] = Has(2)
        BY <1>3, <3>1
      <4> QED BY <2>1, <4>1
    <3>3. Found(2) = Value("bool", FALSE)
      BY <3>2 DEF Has, Default, Value
    <3>4. Kind(file["Enabled"]) = "bool" /\ ~Content(file["Enabled"])
      <4>1. file["Enabled"] = <<"bool", FALSE>>
        <5>1. Reads[2].member = "Enabled"
          BY <3>1
        <5>2. Found(2) = file["Enabled"]
          BY <5>1 DEF Found
        <5> QED BY <3>3, <5>2 DEF Value
      <4>2. Kind(file["Enabled"]) = "bool"
        BY <4>1 DEF Kind
      <4>3. Content(file["Enabled"]) = FALSE
        BY <4>1 DEF Content
      <4> QED BY <4>2, <4>3
    <3> QED BY <2>1, <3>4 DEF EnoughAt
  <2>3. SettingsInv'
    BY <1>1, <1>3, <1>4, <2>1 DEF SettingsInv, MembersOf
  <2>4. EndedInv'
    BY <1>1, <1>2, <2>1, <2>2 DEF EndedInv
  <2>5. ComponentsInv'
    BY <2>1 DEF ComponentsInv
  <2> QED BY <1>5, <1>6, <2>3, <2>4, <2>5 DEF ConfigurationInv
<1>8. CASE RefuseVersion
  <2>1. part = "DaemonController" /\ step = 2 /\ settings["Configuration"] # Value("string", "v1.0")
        /\ ended' = "refused" /\ settings' = settings
    BY <1>8 DEF RefuseVersion, IsOtherVersion, Throw
  <2>2. EnoughAt = 1
    <3>1. /\ 1 \in DOMAIN Reads
          /\ Reads[1] = [how |-> "required", member |-> "Configuration", type |-> "string"]
      BY <1>0, <2>1, PlacesOfPart
    <3>2. Kind(Found(1)) = "string"
      <4>1. 1 \notin Unwanted
        BY <1>0, <2>1, <3>1
      <4> QED BY <3>1, <4>1 DEF Unwanted, Found
    <3>3. Has(1) = Found(1)
      BY <2>1, <3>1, <3>2 DEF Has, IsGiven, TimeoutBelowZero, Found
    <3>4. file["Configuration"] # Value("string", "v1.0")
      BY <1>3, <2>1, <3>1, <3>3 DEF Found
    <3> QED BY <2>1, <3>4 DEF EnoughAt
  <2>3. SettingsInv'
    BY <1>1, <1>3, <1>4, <2>1 DEF SettingsInv, MembersOf
  <2>4. EndedInv'
    BY <1>1, <1>2, <2>1, <2>2 DEF EndedInv
  <2>5. ComponentsInv'
    BY <1>2, <2>1 DEF ComponentsInv
  <2> QED BY <1>5, <1>6, <2>3, <2>4, <2>5 DEF ConfigurationInv
<1>9. CASE Update
  <2>1. /\ step = Len(Reads) + 1 /\ ended' = "updated"
        /\ settings' = [m \in DOMAIN settings |-> Made(m, settings[m])]
    BY <1>0, <1>9 DEF Update
  <2>2. SettingsInv'
    <3>1. DOMAIN settings' = MembersOf(part)
      BY <1>3, <2>1
    <3>2. \A i \in DOMAIN Reads : settings'[Reads[i].member] = Made(Reads[i].member, Has(i))
      BY <1>0, <1>3, <2>1
    <3>3. \A m, v : Made(m, v)' = Made(m, v)
      BY DEF Made, Kind, Content, Value, Default
    <3>4. part' = part
      OBVIOUS
    <3> QED BY <1>1, <1>4, <2>1, <3>1, <3>2, <3>4 DEF SettingsInv, MembersOf
  <2>3. EndedInv'
    BY <1>1, <1>2, <2>1 DEF EndedInv
  <2>4. ComponentsInv'
    <3> SUFFICES ASSUME part = "DaemonController" PROVE ComponentsInv'
      BY DEF ComponentsInv
    <3>1. step = 6
      <4>1. Len(Reads) = 5
        BY <1>0, PlacesOfPart
      <4> QED BY <2>1, <4>1
    <3> QED BY <1>2, <3>1 DEF ConfigurationInv, ComponentsInv
  <2> QED BY <1>5, <1>6, <2>2, <2>3, <2>4 DEF ConfigurationInv
<1> QED BY <1>7, <1>8, <1>9

\* Every step preserves the invariant.
LEMMA ConfigurationGoesOn ==
  ConfigurationInv /\ [ConfigurationNext]_configurationVars => ConfigurationInv'
<1> SUFFICES ASSUME ConfigurationInv, [ConfigurationNext]_configurationVars PROVE ConfigurationInv'
  OBVIOUS
<1>1. CASE ConfigurationNext
  <2>1. ended = "reading" /\ UNCHANGED <<part, file>>
    BY <1>1 DEF ConfigurationNext
  <2>2. CASE Serve
    BY <2>1, <2>2, ServeKeeps
  <2>3. CASE list = <<>> /\ (Leave \/ RefuseVersion \/ Update)
    BY <2>1, <2>3, EndKeeps
  <2>4. CASE list = <<>> /\ step <= Len(Reads) /\ ~IsLeft /\ ~IsOtherVersion /\ ReadMember
    <3>1. ReadingInv' /\ SettingsInv' /\ (list' = <<>> => EndedInv')
      BY <2>1, <2>4, ReadSettings
    <3>2. ListInv' /\ (ended' # "reading" => list' = <<>>)
      BY <2>1, <2>4, ReadLists
    <3>3. ComponentsInv'
      BY <2>1, <2>4, ReadComponents
    <3>4. ended' = "reading" => EndedInv'
      BY DEF EndedInv
    <3> QED BY <3>1, <3>2, <3>3, <3>4 DEF ConfigurationInv
  <2> QED BY <1>1, <2>2, <2>3, <2>4 DEF ConfigurationNext
<1>2. CASE UNCHANGED configurationVars
  <2>1. /\ Reads' = Reads /\ Unwanted' = Unwanted /\ EnoughAt' = EnoughAt
        /\ \A i : /\ IsGiven(i)' = IsGiven(i) /\ Found(i)' = Found(i)
                  /\ IsListOfNodes(i)' = IsListOfNodes(i)
                  /\ TimeoutBelowZero(i)' = TimeoutBelowZero(i)
    BY <1>2, SameFile DEF configurationVars
  <2>2. /\ part' = part /\ file' = file /\ settings' = settings /\ step' = step /\ list' = list
        /\ nodes' = nodes /\ ended' = ended
    BY <1>2 DEF configurationVars
  <2>3. \A i : Has(i)' = Has(i)
    BY <2>1, <2>2 DEF Has, Default, Value
  <2>4. ReadingInv'
    BY <2>1, <2>2 DEF ConfigurationInv, ReadingInv
  <2>5. SettingsInv'
    BY <2>1, <2>2, <2>3
       DEF ConfigurationInv, SettingsInv, MembersOf, Made, Kind, Content, Value, Default
  <2>6. EndedInv'
    BY <2>1, <2>2 DEF ConfigurationInv, EndedInv, Kind
  <2>7. ListInv'
    BY <2>1, <2>2 DEF ConfigurationInv, ListInv, Content
  <2>8. ComponentsInv'
    BY <2>2 DEF ConfigurationInv, ComponentsInv, Content, Kind, Is
  <2> QED BY <2>4, <2>5, <2>6, <2>7, <2>8 DEF ConfigurationInv
<1> QED BY <1>1, <1>2

\* The members before the first that could not be used are those that were read.
LEMMA BeforeAre ==
  ASSUME ConfigurationInv, ended # "reading"
  PROVE  /\ Before = {i \in DOMAIN Reads : i < step}
         /\ ended # "updated" => step \in DOMAIN Reads
<1>0. /\ part \in Parts /\ step \in 1..(Len(Reads) + 1) /\ step <= EnoughAt + 1
      /\ \A i \in DOMAIN Reads : i < step => i \notin Unwanted
      /\ ended \in {"updated", "left", "refused", "aborted"}
      /\ Len(Reads) \in Nat /\ DOMAIN Reads = 1..Len(Reads)
  BY ReadsAre DEF ConfigurationInv, ReadingInv
<1>1. EnoughAt \in Nat /\ Unwanted \subseteq DOMAIN Reads
  BY <1>0 DEF EnoughAt, Unwanted
<1>2. \A i \in DOMAIN Reads : i < step => i \in Before
  BY <1>0, <1>1 DEF Before
<1>3. CASE ended = "updated"
  BY <1>0, <1>2, <1>3 DEF Before, ConfigurationInv, EndedInv
<1>4. CASE ended = "left"
  <2>1. part \in {"messaging", "service"} /\ step = 3 /\ EnoughAt = 2
    BY <1>4 DEF ConfigurationInv, EndedInv
  <2>2. 3 \in DOMAIN Reads
    BY <1>0, <2>1, PlacesOfPart
  <2> QED BY <1>0, <1>2, <2>1, <2>2 DEF Before
<1>5. CASE ended \in {"refused", "aborted"}
  <2>1. CASE step \in Unwanted
    BY <1>0, <1>1, <1>2, <2>1 DEF Before
  <2>2. CASE step \notin Unwanted
    <3>1. part = "DaemonController" /\ step = 2 /\ EnoughAt = 1
      BY <1>5, <2>2 DEF ConfigurationInv, EndedInv
    <3>2. 2 \in DOMAIN Reads
      BY <1>0, <3>1, PlacesOfPart
    <3> QED BY <1>0, <1>2, <3>1, <3>2 DEF Before
  <2> QED BY <2>1, <2>2
<1> QED BY <1>0, <1>3, <1>4, <1>5

\* What the part has read is all that it could use.
LEMMA InvIsAsWritten ==
  ConfigurationInv => SettingsAreAsWritten
<1> SUFFICES ASSUME ConfigurationInv, ended # "reading" PROVE SettingsAreAsWritten
  BY DEF SettingsAreAsWritten
<1>0. /\ part \in Parts /\ step \in 1..(Len(Reads) + 1) /\ step <= EnoughAt + 1
      /\ ended \in {"updated", "left", "refused", "aborted"}
      /\ Len(Reads) \in Nat /\ DOMAIN Reads = 1..Len(Reads)
  BY ReadsAre DEF ConfigurationInv, ReadingInv
<1>1. /\ Before = {i \in DOMAIN Reads : i < step}
      /\ ended # "updated" => step \in DOMAIN Reads
  BY BeforeAre
<1>2. list = <<>>
  BY DEF ConfigurationInv, EndedInv
<1>3. ASSUME NEW i \in DOMAIN Reads
      PROVE  LET m == Reads[i].member
                 end(v) == IF ended = "updated" THEN Made(m, v) ELSE v
             IN settings[m] =
                  end(IF i \in Before /\ IsGiven(i) /\ ~(m = "DefaultTimeout" /\ Content(file[m]) < 0)
                      THEN file[m] ELSE Default)
  <2>1. Has(i) = IF i \in Before /\ IsGiven(i) /\ ~(Reads[i].member = "DefaultTimeout"
                                                     /\ Content(file[Reads[i].member]) < 0)
                 THEN file[Reads[i].member] ELSE Default
    BY <1>1 DEF Has, Found, TimeoutBelowZero
  <2> QED BY <2>1 DEF ConfigurationInv, SettingsInv
<1>4. (ended = "updated") <=> (Before = DOMAIN Reads)
  <2>1. ended = "updated" => Before = DOMAIN Reads
    BY <1>0, <1>1 DEF ConfigurationInv, EndedInv
  <2>2. ended # "updated" => step \in DOMAIN Reads /\ step \notin Before
    BY <1>0, <1>1
  <2> QED BY <2>1, <2>2
<1>5. (ended = "left") <=> (part # "DaemonController" /\ Before = 1..2 /\ EnoughAt = 2)
  <2>1. ended = "left" => part # "DaemonController" /\ Before = 1..2 /\ EnoughAt = 2
    <3> SUFFICES ASSUME ended = "left" PROVE part # "DaemonController" /\ Before = 1..2 /\ EnoughAt = 2
      OBVIOUS
    <3>1. part \in {"messaging", "service"} /\ step = 3 /\ EnoughAt = 2
      BY DEF ConfigurationInv, EndedInv
    <3>2. 3 \in DOMAIN Reads
      BY <1>1, <3>1
    <3>3. Before = 1..2
      BY <1>0, <1>1, <3>1, <3>2
    <3> QED BY <3>1, <3>3
  <2>2. ASSUME part # "DaemonController", Before = 1..2, EnoughAt = 2 PROVE ended = "left"
    <3>1. 1 \in Before /\ 2 \in Before /\ 3 \notin Before
      BY <2>2
    <3>2. Len(Reads) >= 2 /\ step > 2
      BY <1>0, <1>1, <3>1
    <3>3. part \in {"messaging", "service"}
      BY <1>0, <2>2, <3>2 DEF EnoughAt
    <3>4. 3 \in DOMAIN Reads
      BY <1>0, <3>3, PlacesOfPart
    <3>5. ended # "updated"
      BY <1>4, <3>1, <3>4
    <3>6. ended \notin {"refused", "aborted"}
      BY <1>0, <2>2, <3>2 DEF ConfigurationInv, EndedInv
    <3> QED BY <1>0, <3>5, <3>6
  <2> QED BY <2>1, <2>2
<1>6. ended = "aborted" =>
        \E i \in Unwanted :
          Reads[i].how = "pattern" /\ Kind(file[Reads[i].member]) \notin {"absent", "string"}
  BY DEF ConfigurationInv, EndedInv, Found
<1>7. ASSUME NEW i \in DOMAIN Reads, i \in Before, Reads[i].how = "vector", Reads[i].type = "int"
      PROVE  LET listed == Content(file[Reads[i].member])
             IN IF part = "PulseMeters" THEN nodes = listed
                ELSE ToSet(nodes) = ToSet(listed) /\ IsInjective(nodes)
  <2> DEFINE listed == Content(Found(i))
  <2>1. i < step /\ IsListOfNodes(i)
    BY <1>1, <1>7 DEF IsListOfNodes
  <2>2. /\ nodes \in Seq(ToSet(listed))
        /\ part = "PulseMeters" => nodes \o <<>> = listed
        /\ part # "PulseMeters" => ToSet(nodes) \union ToSet(<<>>) = ToSet(listed) /\ IsInjective(nodes)
    BY <1>2, <2>1 DEF ConfigurationInv, ListInv
  <2> HIDE DEF listed
  <2>3. nodes \o <<>> = nodes
    BY <2>2, ConcatEmptySeq
  <2>4. ToSet(nodes) \union ToSet(<<>>) = ToSet(nodes)
    BY DEF ToSet
  <2>5. IF part = "PulseMeters" THEN nodes = listed
        ELSE ToSet(nodes) = ToSet(listed) /\ IsInjective(nodes)
    BY <2>2, <2>3, <2>4
  <2> QED BY <2>5 DEF listed, Found
<1>8. ASSUME part = "DaemonController", 4 \in Before, Kind(file["Components"]) = "array"
      PROVE  LET listed == Content(file["Components"])
             IN /\ nodes = SubSeq(listed, 1, Len(nodes)) /\ \A e \in ToSet(nodes) : Is(e, "component")
                /\ nodes = listed \/ ~Is(listed[Len(nodes) + 1], "component")
  <2>1. step >= 5
    BY <1>0, <1>1, <1>8
  <2> QED BY <1>8, <2>1 DEF ConfigurationInv, ComponentsInv
<1> QED BY <1>3, <1>4, <1>5, <1>6, <1>7, <1>8 DEF SettingsAreAsWritten

\* JsonUtils.h and the parts that read their files with it: whatever the file holds, a part
\* has every member before the first that it could not use as it was written, of the others
\* its defaults, serves the nodes that are listed, and is updated, left, refused or aborted
\* for the reason that the file gives.
THEOREM SettingsWritten == ConfigurationSpec => []SettingsAreAsWritten
<1>1. ConfigurationSpec => []ConfigurationInv
  BY ConfigurationBegins, ConfigurationGoesOn, PTL DEF ConfigurationSpec
<1> QED BY <1>1, InvIsAsWritten, PTL
=============================================================================

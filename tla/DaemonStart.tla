---------------------------- MODULE DaemonStart ----------------------------
(***************************************************************************)
(* Startup::run and DaemonController::run: the start of the daemon, its    *)
(* watch dog, and the signal that ends it. The main thread opens the IQRF  *)
(* interface, starts DPA, makes the Scheduler, loads and starts the        *)
(* components (Components), starts the Scheduler, and then waits. The      *)
(* Scheduler's worker pets the watch dog with a periodic task, and so does *)
(* the worker of the transactions when it has finished one.                *)
(*                                                                         *)
(* Time counts in ticks of 500 ms, and is kept as the ticks since or until *)
(* something; a watch dog of one tick is finer than that. Threads are      *)
(* prompt: time passes only when none has anything to do. What the         *)
(* clients' tasks take on the Scheduler's worker is free.                  *)
(***************************************************************************)
EXTENDS Components, FiniteSets

CONSTANTS
    Setups,   \* [configuration, timeout (m_watchDogTimeoutMilis, in ticks)]
    MaxBusy,  \* bound on the ticks of clients' tasks ahead of a pet
    MaxPets,  \* bound on the pets in the Scheduler's queue
    MaxAge    \* bound on the time since the last pet: from there on it stands still

ASSUME DaemonStartAssumption ==
    /\ \A s \in Setups :
         s.configuration \in Configurations /\ s.timeout \in Nat \ {1} /\ 2 * s.timeout < MaxAge
    /\ MaxBusy \in Nat /\ MaxPets \in Nat \ {0} /\ MaxAge \in Nat

VARIABLES
    pc,          \* where the main thread is
    handlers,    \* how many signals SignalHandler is registered for
    timeout,
    attempts,    \* to create the interface
    wakeIn,      \* until wait_for times out
    m_running,   \* exit() was not called
    iface,       \* m_iqrfInterface: "none", "ready"
    age,         \* since m_lastRefreshTime
    runs,        \* whether the Scheduler was started
    petIn, pets, \* its record WatchDogPet: until it is due, and copies in its queue
    busy,        \* until the clients' tasks ahead of the next pet are done
    asked, lost, \* history: a signal came; and run() had still to set m_running
    lag,         \* history: age when the Scheduler started
    longest      \* history: the longest busy

mainVars == <<pc, handlers, timeout, attempts, wakeIn, iface>>
petVars == <<runs, petIn, pets, busy, lag, longest>>
exitVars == <<m_running, asked, lost>>
daemonVars == <<componentVars, mainVars, age, petVars, exitVars>>

DaemonInit ==
    /\ \E s \in Setups : configuration = s.configuration /\ timeout = s.timeout
    /\ ComponentsInit
    /\ pc = "startup" /\ handlers = 0 /\ age = 0 /\ wakeIn = 0
    /\ m_running = FALSE /\ iface = "none" /\ attempts = 1
    /\ runs = FALSE /\ petIn = 0 /\ pets = 0 /\ busy = 0
    /\ asked = FALSE /\ lost = FALSE /\ lag = 0 /\ longest = 0

Largest(a, b) == IF a > b THEN a ELSE b

\* m_watchDogTimeoutMilis / 2, cut to seconds. A period of 0 fires all the time.
PetPeriod == Largest(1, (timeout \div 4) * 2)

MainGoes(here, there) == pc = here /\ pc' = there /\ UNCHANGED handlers
Older(ticks) == age' = IF age + ticks < MaxAge THEN age + ticks ELSE MaxAge

-----------------------------------------------------------------------------
(* Startup::run.                                                           *)

Signals == {"SIGINT", "SIGTERM", "SIGABRT", "SIGQUIT"}

\* The handler is registered for one signal after the other.
RegisterHandler ==
    /\ pc = "startup" /\ handlers < Cardinality(Signals) /\ handlers' = handlers + 1
    /\ UNCHANGED <<componentVars, pc, timeout, attempts, wakeIn, iface, age, petVars, exitVars>>

\* It cannot be, the version was asked for, or no configuration is named.
Return ==
    /\ MainGoes("startup", "returned")
    /\ UNCHANGED <<componentVars, timeout, attempts, wakeIn, iface, age, petVars, exitVars>>

\* With all of them, the controller is run.
RunController ==
    /\ handlers = Cardinality(Signals) /\ MainGoes("startup", "loadConfiguration")
    /\ UNCHANGED <<componentVars, timeout, attempts, wakeIn, iface, age, petVars, exitVars>>

-----------------------------------------------------------------------------
(* run() and start().                                                      *)

\* A signal that was handled before is forgotten.
Run ==
    /\ MainGoes("loadConfiguration", "startIqrfIf")
    /\ m_running' = TRUE /\ lost' = asked /\ age' = 0
    /\ UNCHANGED <<componentVars, timeout, attempts, wakeIn, iface, petVars, asked>>

\* The interface cannot be created: 3 seconds until the next attempt, or the end.
AttemptFails ==
    /\ pc = "startIqrfIf" /\ Older(6)
    /\ \/ attempts < 2 /\ attempts' = attempts + 1 /\ UNCHANGED pc
       \/ attempts = 2 /\ pc' = "startDpa" /\ UNCHANGED attempts
    /\ UNCHANGED <<componentVars, handlers, timeout, wakeIn, iface, petVars, exitVars>>

\* It is created: ready at once, or polled for a second, where each poll pets. It may
\* also not be configured.
StartIqrfIf ==
    /\ MainGoes("startIqrfIf", "startDpa")
    /\ \/ iface' = "ready" /\ (age' = 0 \/ UNCHANGED age)
       \/ UNCHANGED <<iface, age>>
    /\ UNCHANGED <<componentVars, timeout, attempts, wakeIn, petVars, exitVars>>

\* The TR module is read with a transaction, which pets.
StartDpa ==
    /\ MainGoes("startDpa", "startScheduler")
    /\ age' = IF iface = "ready" THEN 0 ELSE age
    /\ UNCHANGED <<componentVars, timeout, attempts, wakeIn, iface, petVars, exitVars>>

\* The record of the watch dog is planned for now; the start is commented out.
StartScheduler ==
    /\ MainGoes("startScheduler", "startServices") /\ petIn' = 0
    /\ UNCHANGED <<componentVars, timeout, attempts, wakeIn, iface, age, runs, pets, busy, lag,
                   longest, exitVars>>

LoadComponents ==
    /\ pc = "startServices" /\ ComponentsNext
    /\ UNCHANGED <<mainVars, age, petVars, exitVars>>

\* All is ready: the Scheduler is started at the end. The configured mode, which start()
\* commands last, is a command of DaemonController.
ServicesStarted ==
    /\ MainGoes("startServices", "test") /\ stage = "started"
    /\ runs' = TRUE /\ lag' = age
    /\ UNCHANGED <<componentVars, timeout, attempts, wakeIn, iface, age, petIn, pets, busy,
                   longest, exitVars>>

\* Mutant: the time of the last pet is not looked at again.
MutantTest ==
    /\ pc = "test"
    /\ pc' = IF m_running THEN "wait" ELSE "exit"
    /\ wakeIn' = timeout
    /\ UNCHANGED <<componentVars, handlers, timeout, attempts, iface, age, petVars, exitVars>>

\* The condition of the loop, with m_stopConditionMutex held.
Test ==
    /\ pc = "test"
    /\ \/ ~m_running /\ pc' = "exit"
       \/ m_running /\ timeout # 0 /\ age >= timeout /\ pc' = "watchDogExit"
       \/ m_running /\ (timeout = 0 \/ age < timeout) /\ pc' = "wait"
    /\ wakeIn' = timeout
    /\ UNCHANGED <<componentVars, handlers, timeout, attempts, iface, age, petVars, exitVars>>

\* wait_for ends by its timeout, by exit(), or by itself.
Wake ==
    /\ MainGoes("wait", "test") /\ wakeIn' = 0
    /\ UNCHANGED <<componentVars, timeout, attempts, iface, age, petVars, exitVars>>

-----------------------------------------------------------------------------
\* Mutant: exit() wakes the main thread only.
MutantExit ==
    /\ handlers > 0 /\ ~asked /\ asked' = TRUE
    /\ UNCHANGED <<componentVars, mainVars, age, petVars, m_running, lost>>

\* SignalHandler, exit(), on a thread that does not hold the mutex.
Exit ==
    /\ handlers > 0 /\ ~asked /\ asked' = TRUE /\ m_running' = FALSE
    /\ UNCHANGED <<componentVars, mainVars, age, petVars, lost>>

\* The handler runs on a thread that holds the mutex it locks, and no thread gets past
\* the mutex any more: on the main thread at its condition, or, while that waits, on the
\* Scheduler's worker or the transactions' in watchDogPet. (A pet during start() that
\* meets a signal is not followed.)
ExitDeadlocks ==
    /\ ~asked /\ asked' = TRUE
    /\ \/ MainGoes("test", "deadlocked")
       \/ (iface = "ready" \/ (pets > 0 /\ busy = 0)) /\ MainGoes("wait", "deadlocked")
    /\ UNCHANGED <<componentVars, timeout, attempts, wakeIn, iface, age, petVars, m_running, lost>>

Serving == pc \in {"test", "wait"}

\* The Scheduler's timer and worker.
FirePet ==
    /\ runs /\ petIn = 0 /\ pets < MaxPets
    /\ pets' = pets + 1 /\ petIn' = PetPeriod
    /\ UNCHANGED <<componentVars, mainVars, age, runs, busy, lag, longest, exitVars>>

WatchDogPet ==
    /\ pets > 0 /\ busy = 0 /\ pc # "deadlocked"
    /\ pets' = pets - 1 /\ age' = 0
    /\ UNCHANGED <<componentVars, mainVars, runs, petIn, busy, lag, longest, exitVars>>

\* A client's task, ahead of the pets that will be fired.
ClientTask(ticks) ==
    /\ runs /\ Serving /\ pets = 0 /\ busy + ticks <= MaxBusy
    /\ busy' = busy + ticks /\ longest' = Largest(longest, busy')
    /\ UNCHANGED <<componentVars, mainVars, age, runs, petIn, pets, lag, exitVars>>

\* executeDpaTransactionFunc has finished a transaction.
TransactionPets ==
    /\ Serving /\ iface = "ready" /\ age' = 0
    /\ UNCHANGED <<componentVars, mainVars, petVars, exitVars>>

Sooner(ticks) == IF ticks > 0 THEN ticks - 1 ELSE 0

\* Nobody has anything to do before the next tick.
Tick ==
    /\ pc = "wait" /\ m_running
    /\ timeout = 0 \/ wakeIn > 0
    /\ petIn > 0 \/ pets = MaxPets
    /\ busy > 0 \/ pets = 0
    /\ Older(1) /\ wakeIn' = Sooner(wakeIn) /\ petIn' = Sooner(petIn) /\ busy' = Sooner(busy)
    /\ UNCHANGED <<componentVars, pc, handlers, timeout, attempts, iface, runs, pets, lag,
                   longest, exitVars>>

Main ==
    \/ RegisterHandler \/ Return \/ RunController
    \/ Run \/ AttemptFails \/ StartIqrfIf \/ StartDpa \/ StartScheduler \/ LoadComponents
    \/ ServicesStarted \/ Test \/ Wake

DaemonNext ==
    \/ Main \/ Exit \/ ExitDeadlocks
    \/ FirePet \/ WatchDogPet \/ TransactionPets \/ Tick
    \/ \E ticks \in 1..MaxBusy : ClientTask(ticks)

DaemonSpec == DaemonInit /\ [][DaemonNext]_daemonVars

\* The main thread goes on; nothing is assumed of the others.
FairDaemonSpec == DaemonSpec /\ WF_daemonVars(Main)

-----------------------------------------------------------------------------
DaemonTypeOK ==
    /\ ComponentsTypeOK
    /\ handlers \in 0..Cardinality(Signals)
    /\ pc \in {"startup", "returned", "loadConfiguration", "startIqrfIf", "startDpa", "startScheduler",
              "startServices", "test", "wait",
              "exit", "watchDogExit", "deadlocked"}
    /\ timeout \in Nat /\ age \in 0..MaxAge /\ wakeIn \in 0..timeout
    /\ m_running \in BOOLEAN /\ iface \in {"none", "ready"} /\ attempts \in 1..2
    /\ runs \in BOOLEAN /\ petIn \in 0..PetPeriod /\ pets \in 0..MaxPets /\ busy \in 0..MaxBusy
    /\ asked \in BOOLEAN /\ lost \in BOOLEAN /\ lag \in 0..MaxAge /\ longest \in 0..MaxBusy

\* The watch dog ends the daemon only if the longest hold-up of the Scheduler's worker,
\* added to half of the timeout or to the age of the last pet at the Scheduler's start,
\* reaches the timeout: never between two pets in time, nor for a stuck transaction.
BitesOnlyWhenHeldUp ==
    pc = "watchDogExit" => longest + Largest(lag, timeout \div 2) >= timeout

\* While the daemon serves, twice the timeout never passes without a pet: the main
\* thread has ended it before, or is about to test it.
BitesInTime == Serving /\ timeout > 0 => age < 2 * timeout \/ pc = "test"

\* No task reaches a service before all components are loaded and started.
TasksMeetStartedServices == pets > 0 \/ busy > 0 => stage = "started"

\* The watch dog ends a daemon that is held up, in time, and no other.
WatchDogIsJust == DaemonTypeOK /\ BitesOnlyWhenHeldUp /\ BitesInTime

\* The loading of the components, the Scheduler running beside it: an instance that
\* is refused costs only what is excused, and messages and tasks meet the services
\* that were registered for them, loaded and started.
ComponentsAgree ==
    RefusedForAReason /\ ExclusiveAccessIsLive /\ MessagesReachService /\ TasksMeetStartedServices

\* A signal that SignalHandler gets ends the daemon, unless it came before run() set
\* m_running, or on a thread that held the mutex which exit() locks.
ExitEndsDaemon ==
    []<>(asked => pc \in {"exit", "watchDogExit", "deadlocked", "returned"} \/ lost)
=============================================================================

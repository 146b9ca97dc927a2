# IQRF Gateway Daemon in TLA+

The daemon (`src/daemon`) connects messaging channels (MQTT, UDP, an OS message
queue) and scheduled tasks to one IQRF coordinator. Client services
(`src/applications`, `src/examples`) run inside it, and `iqrfapp` is a client at
the other end of the message queue. This project models the state of these parts
and what their threads, callbacks and messages do to it. TLC checks the models on
small instances; TLAPS proves what matters most for every value of the constants.

## The system

| part | state | operations | talks to |
|---|---|---|---|
| `TaskQueue<T>` | queue, predicate and condition variable, worker thread | push, stop, destroy, worker loop | owner's processing function |
| `DaemonController` | mode and its mutex, `DpaHandler`, DPA queue, maps of components, watch dog | executeDpaTransaction, doCommand/setMode, start, stop, async handlers, run loop | all |
| `Scheduler` | records by time and by handle, timer thread, TaskQueue, message handlers | parse the table, plan, remove, register, start, stop, timer loop | services' handlers, watch dog |
| `BaseService` | messaging, serializers | handle a message, an async DPA message, start, stop | controller, Scheduler, messaging |
| `UdpMessaging` | UDP channel, out-queue, exclusive channel, forwarding transaction | handle a datagram, set/reset exclusive, forward, start, stop | IQRF interface, IQRF IDE |
| `MqMessaging` | MQ channel, out-queue | send, handle, start, stop | service, `iqrfapp` |
| `MqttMessaging` | MQTT client, connecting thread, in/out queues, connected and stop flags | connect, reconnect, callbacks, start, stop | service, MQTT library |
| serializers | last error | claim, parse, answer | service |
| Startup, loaders, configuration | component map, settings | read, instantiate, signal handler | controller |
| rapidjson (vendored) | document, pools, stacks | parse, build, write | whoever reads or writes JSON |
| pulse meters, FRC example | watched nodes, FRC, handles of records, TaskQueue | start, stop, seek, read | Scheduler, controller |
| protocol bridge | bitmaps of visible meters | a round: status, confirm, read, sleep | Scheduler, controller, messaging |
| thermometer example | period, handle of the record | message, read | Scheduler, messaging |
| `iqrfapp` | flag, last message, timeout | send a command, wait, show | `MqMessaging` |

A message from a messaging's thread or a task from the Scheduler's worker enters
`BaseService::handleMsgFromMessaging`. A DPA request becomes a
`DpaTransactionTask` on that thread's stack; a pointer to it is pushed to the DPA
queue, whose worker runs `executeDpaTransactionFunc`, and the thread waits until
the transaction is finished. A configuration message becomes `doCommand`, which
calls `setMode` on the same thread. So the same few threads use the queue and
replace what the worker is using.

What is hard here: the worker only *tries* to lock the mode's mutex; the mode
switch out of service mode waits for the worker while it holds that mutex;
pointers to stack frames travel through queues; the timer thread lets go of the
table between picking a record and firing it; the shutdown destroys the parts one
by one while threads are inside them; a lost connection joins the thread that
makes connections; two workers share the handle of a record; bytes and bits are
counted by hand. `PROJECT.json` lists each such hazard at its line, with the
properties that would catch it going wrong.

What makes each part correct:

- TaskQueue: every pushed task is processed once, in order, until a stop; a stop
  is final; no notification is lost; the destructor leaves no worker behind.
- DaemonController: a transaction is finished exactly once and always; mode,
  handler and exclusive channel agree; the answer to a command is true.
- Shutdown: it ends; nothing in use is deleted; stopped parts are quiet.
- Start: an instance that is refused costs only itself; a message and a task
  meet a loaded and started service; the watch dog bites only a daemon that is
  held up.
- Scheduler: nothing due is slept over, fired early, or fired after it was
  removed; its two tables agree; a pattern fires in the seconds it stands for.
- Messagings: the connected flag tells of the connection; no thread is left by
  `stop()`; an acknowledgement is true; a request is answered, by its own answer.
- Client services: a node is sought until it is found and then read by the one
  record that can be removed; what a bridge reports is confirmed and read.
- Texts and configuration: what is read is what was written.

## The modules

| module | models | composes |
|---|---|---|
| `TaskQueueAbs` | what a TaskQueue promises: a FIFO executor that can be stopped | |
| `TaskQueue` | `include/TaskQueue.h`, every step of clients, destructor and worker | refines `TaskQueueAbs` |
| `DaemonController` | transactions and mode commands of `DaemonController.cpp` | `TaskQueueAbs` as the DPA queue |
| `DaemonShutdown` | `DaemonController::stop` and the threads it stops | extends `DaemonController` |
| `Components` | `startServices`: how instances are loaded, refused, bound and started | |
| `DaemonStart` | `Startup::run`, `DaemonController::run`, watch dog, `SignalHandler` | extends `Components` |
| `Scheduler` | `Scheduler.cpp`: clients, timer thread, worker | `TaskQueueAbs` as its queue |
| `SchedulePatterns`, `ScheduleRecord` | the table of tasks, `parseItem`, `getNext`, `verifyTimePattern` | |
| `MqttMessaging` | connecting thread, callbacks, out-queue, start and stop | `TaskQueueAbs` as its queue |
| `UdpMessaging` | UDP thread, exclusive access, mirroring, start and stop | |
| `UdpPackets` | the bytes of a packet, their CRC and what damage does to them | |
| `Serializers` | which serializer claims a message and what becomes of it | |
| `MqService` | `MqMessaging` with a `BaseService` | extends `Serializers` |
| `IqrfApp` | `src/applications/iqrfapp` | extends `MqService` |
| `DpaWords`, `DpaTexts` | from a text to a request's bytes and from its end to an answer | |
| `PulseMeters` | `ClientServicePm`, a step for each access of its two workers | `TaskQueueAbs` as its queue |
| `ServiceExample` | the FRC example, a step for each handler, for any configuration | |
| `ProtocolBridge` | a round of `ProtocolBridgeClientService` | extends `MeterRequests` |
| `MeterRequests`, `MeterFrames` | requests and answers of `ProtocolBridge` and `PrfPulseMeter` | `MeterFrames` extends `MeterRequests`, `PacketHeaders` |
| `PacketHeaders` | the header that the service finds in a meter's packet | |
| `Thermometers` | `ThermometerService` of the example | |
| `JsonText`, `JsonNumbers`, `JsonStrings`, `JsonWriter`, `JsonMemory` | what the daemon uses of rapidjson | `JsonStrings` extends `JsonLimits`, its bounds |
| `Configuration` | every configuration file, read member by member with `JsonUtils.h` | |

The theorems are in `TaskQueueProofs` (with `JsonMemory`, `JsonStrings`), `DaemonControllerProofs` (with `DaemonShutdown`),
`SchedulerProofs`, `MessagingsProofs` (`UdpMessaging`, `MqService`, `IqrfApp`),
`ServicesProofs` (`MqttMessaging`, `Thermometers`, `ScheduleRecord`), `BridgesProofs`
(`ProtocolBridge`, `MeterFrames`, `PacketHeaders`), `DaemonStartProofs`
(`Components`, `DaemonStart`, `Configuration`) and `PulseMetersProofs` (with
`ServiceExample`).

The `MC*` modules and `.cfg` files are the instances; the two `MCDaemonController*.cfg`
are of `DaemonController` itself, whose other properties are checked with the main
thread beside it, in `MCDaemonShutdown`. Parts that have nothing to
say to each other share a run: a variable `subject` chooses which of them moves.
Each module also holds the variants that show what its properties are sensitive
to: an operator named `Mutant...`, before the one it would replace, is that
operator with a plausible bug. No specification uses them.

### How state and steps correspond to the code

*TaskQueue.* Variables are the members of the class, the worker's place in its
loop, and each caller's. A critical section is a step, because what it touches is
touched under the same mutex only, except `m_runWorkerThread`, which line 117
reads without it: `TestRun` is a step of its own. The `notify_all` after a
critical section is a step of its own as well. `wait` may wake up by itself.

*DaemonController.* `setMode` is a sequence of steps between `LockMode` and
`UnlockMode`; the worker is a sequence from `TakeTransaction` to
`ReturnToQueue`, with one step per read of `m_mode` and `m_dpaHandler`, since it may
run without the mutex. `m_dpaHandler` is "null", "raw" (constructed, published,
not configured) or "ready". A worker that is inside the handler when it is
deleted, or that finds a null pointer after its test, is `dangling`: the model
lets it go on with any result or take no step any more. `DpaHandler`,
`DpaTransaction` and the channels are in other repositories and are modelled by
what the daemon relies on: a transaction that is executed is finished by a
response, an error or a timeout, or the call throws.

*DaemonShutdown.* The requesters are the Scheduler's worker, which holds
`m_messageHandlersMutex` while it is in a handler, and one thread per messaging.
`stop()` is one step per statement that matters to another thread. The Scheduler's
worker may have a task popped from its queue when that is stopped (`sched` is
"popped"), and lock the handlers' mutex for it afterwards.

*Components, DaemonStart.* Each instance is loaded in a step that registers,
binds or throws where the code does; what an exception costs depends on where it
is caught. The mode that `start()` commands at its end is a command of
DaemonController. Time counts in ticks of 500 ms and passes only when no thread has
anything to do. The tasks of clients ahead of a pet in the Scheduler's queue take
what time they like.

*Scheduler.* `timer()` is `TimerStarts`, then per round `TimerTests` (the outer
loop), `TimerWakes` (the wait), `TimerGetsTime`, and in the inner loop `PickDue`
and `Fire`, `NothingDue` or `LoopEnds`. `timePoint` is the variable of that name,
which is the actual time or the next wake-up. Handles are unique (the code
draws another random handle when one is taken). Of a time pattern the module
knows the distance of its seconds; `ScheduleRecord` knows the pattern.
`stop()` is three steps, as the timer may run between them.

*ScheduleRecord.* An item of a pattern is what its characters say: every, a step
or a list. Its vector is sorted before it is used, so a set stands for it. A round
is `getNext` for the clock's second and, at the wake-up, `verifyTimePattern`; the
fraction of the second stays, as it does in the code: two histories count the
lateness of the wake-ups (`late`) and the seconds by which rounds began behind the
planned one (`passed`). The hour, the
date and the day of the week do not change while a record is watched.

*MqttMessaging.* The connecting thread, the library's thread with the callback it
is in, the out-queue's worker, and the thread that calls `start()` and `stop()`.
`connect()` is `ResetFlags`, `JoinOld`, `SpawnNew` when `connlost` calls it, as
`stop()` may run between; its three atomic stores are one step, since whoever
reads between them could have read before or after. `lib` and `subscription` are
the library's and the broker's state. Two races are part of the model and are
named by it instead of being excluded: `WaitsForItself` (`connlost` joins a
thread that has not yet seen its connection, and waits for a callback that cannot
come), and `overlapped` (a loss handled during `stop()` takes `m_stopAutoConnect`
back and starts a thread that `stop()` does not join). Without them in their
antecedents `Reconnects`, `StopLeavesNoThread` and `StopEnds` are violated, against
the comments of `MqttMessaging.cpp:45` and `IMessaging.h:39`.

*UdpMessaging, UdpPackets.* The UDP thread's test and its use of
`m_exclusiveChannel` are two steps, as `setMode` sets and resets it on another
thread; it sets the channel and then registers the handler of what comes from it. A push to a queue that is not there and the use of a null pointer set
`failed` to the thread that did it, and end the behaviour. In `UdpPackets` a packet is its
bytes, and on its way one bit, its end or its length changes.

*MqService, IqrfApp.* A request and its answer are numbers; the queue of the system
is a sequence that keeps them when either side is away. The main thread's test of
the flag, its wait and the reading of the message are steps.

*DpaTexts, Serializers.* A text is the set of its members, or its words. A number
is its value, any other content the place it comes from, so that an answer says of
each member where it was taken from.

*PulseMeters.* The Scheduler's worker (`TakeTask` to `SeekAgain`) and the worker
of the service's queue (`Found` to `Planned`) both use `m_taskHandle` of a meter, a
step for each access. When they use that of the same meter, which is a data race,
`raced` is set and the behaviour ends: what the build does then is undefined.

*ServiceExample.* The same structure in steps of whole handlers, for what
PulseMeters leaves out: any configuration (a node named twice, the node 0, a
missing pattern), periods of 16 bits, and the sleep of a thermometer.

*ProtocolBridge.* A round is a sequence of steps from the FRC to the sleep, one per
transaction; bitmaps are sets of places, and the indexes of the meters go through
the `uint8_t` that the code keeps them in. A write behind a buffer ends the
behaviour (`smashed`).

*MeterFrames, PacketHeaders.* A value taken from a response is known by the places
of its bytes in `PData` and the number of the response, so that a stale or
misplaced one shows.

*Thermometers.* The messaging's thread (a message in five steps, the last three
under `m_mtx`) and the Scheduler's worker, which holds the mutex through a round.

*Json...* The reader takes token by token with the stack of `GenericDocument`;
what was built is written and parsed again; a string is taken and written byte
by byte. The widths of `JsonNumbers` are scaled
so that short texts meet every limit. `JsonMemory` follows chunks and capacities of
the pool, in which an object, an array and a buffer grow. In *Configuration* the
reading of a member is a step, and so is a node that is put in a service's list or
map; what the files hold is a constant.

## What the runs check

| run | question | result |
|---|---|---|
| `MCTaskQueue` | no lost wake-up, the destructor returns, `TaskQueueAbs` is implemented with its fairness; a JSON text, its numbers and strings, the writer, its memory and the configuration files: what was read is what was written | holds |
| `MCDaemonControllerExclusive` | exclusive access blocks other channels (`IDpaExclusiveAccess.h:25`) | violated |
| `MCDaemonControllerRefused` | a mode command that is answered OK has switched the mode, also without UdpMessaging (`IDaemon.h:65`) | violated |
| `MCDaemonShutdown` | up to the deletion of the handler mode, handler and channel agree and a worker with the mutex is safe; each pending transaction is queued or executed once; OK means switched; every transaction is finished and every command answered; the Scheduler's worker is out of the services and no requester is left when they and the handler are deleted; the shutdown ends unless a transaction was abandoned | holds |
| `MCDaemonShutdownAbandoned` | a transaction is always finished (`IDaemon.h:39`) | violated |
| `MCDaemonShutdownServices` | a stopped service processes no message (`IService.h:40`) | violated |
| `MCScheduler` | the timer sleeps over no record, the tables agree, no second or late pick; what is due is picked, the timer ends | holds |
| `MCSchedulerEarly` | nothing is fired before its time (`IScheduler.h:78`) | violated |
| `MCScheduleRecord` | a record is planned for every second of its pattern, "*" included (`Scheduler.h:50`) | violated |
| `MCDaemonStart` | the loaded components agree with the configuration, the watch dog is just, a signal ends the daemon; a pulse meter is sought or read by one record, and seeking goes on; the FRC example likewise, for odd configurations | holds |
| `MCMessagings` | UDP acknowledgements are true, requests over the message queue are served, `iqrfapp` shows the answer to its own command and ends; texts become the bytes and members that were written; a damaged packet is refused, but for a length that reaches behind what arrived | holds |
| `MCServices` | MQTT: the flag tells of the connection, no thread is left, lost connections are made again, `stop()` ends, but for the two races; thermometers are read as asked; bridges' reports are confirmed and read; requests and answers have their bytes where they belong; the table of tasks is right, and a pattern that is taken as documented fires in its seconds, but for those that lateness has added up to | holds |

The violated ones are the findings of `PROJECT.json`; each quotes the line that
promises the property.

### Bounds

- MCTaskQueue: two clients, two tasks, three pushes. Two clients can notify while
  the worker is anywhere; two different tasks show an overtaking, three pushes
  fill the queue while one is processed. JSON texts of up to 9 tokens hold an array
  and an object in each other; numbers of up to 6 characters in scaled widths meet
  every limit of the reader from both sides; strings of up to 5 tokens hold a pair
  of surrogates and pass the length of a short string, which is 3; six calls make
  pool, array, object and buffer grow. The writer gets integers with limbs at the
  ends of every branch and doubles with all exponents from -323 to 308. Of 13 parts'
  configuration files each member is another way once.
- MCDaemonShutdown: the Scheduler's worker and one messaging, the two ways into a
  service and two requesters, so that one switches the mode while the other's
  transaction is queued, executed or just finished. They come back for ever until
  the main thread stops, which may be never, so nothing is bounded.
- MCDaemonControllerRefused: the same two without UdpMessaging.
- MCDaemonStart: 80 configurations with an instance of each kind that throws,
  shares a name or names what is missing: every table of messagings with services
  that are good themselves, the other way round, and serializers of one name (only
  without watch dog, which they do not touch). One of them with timeouts of 2, 3, 4 and 8 ticks, of which half is no
  whole second, one, one and two; clients' tasks of up to 3 ticks, two pets in the queue; an age
  of 20 ticks is more than twice each timeout, which is all the properties ask for.
  Two pulse meters, one in the queue, two records for each. The example: one or two nodes, one named twice, node 0, a sleep
  period that is too short and one that does not fit in 16 bits.
- MCScheduler: two records, so that one is planned, removed or due while the other
  is being fired; plans for now, for one unit later, at every unit and by a
  pattern of every second unit. `MaxTime` lets the clock advance twice: a record
  fires in the unit after its time point, as the comparison is strict, so a
  record of unit 0 fires in unit 1, one planned there for unit 1 or 2 in unit 2.
  `IdleWait`, the ten seconds, is 2: it ends within the clock's range.
- MCMessagings: three UDP packets and one other message, so that one is in the
  UDP thread, one answered and one to come when the access changes; two requests
  and one unsolicited message: one answer can be late for the next request. User
  timeouts and configured ones of -1 (none) and 0 (for ever), a built-in one of 1.
  Packets number from 65534, so that the number wraps; every bit and length of a
  packet is damaged. Texts with none, one, all but one and all of the optional
  members; three words; a buffer of 3 for 64.
- MCServices: one MQTT message in a queue of one, so that the worker can be between
  its test and its call in every state of the connection; intervals of 2 up to 3
  give 2, 4, 3, which is the doubling, the excess and the limit. Two thermometers,
  periods at the ends of 16 bits and below zero. Up to three meters at the ends of
  bytes, groups and the `uint8_t`. A clock that starts at seconds 0, 31, 59 and 90
  or half a second later and is up to a tick late, over four minutes; two ticks in a
  second, so that two late wake-ups pass over one. Two
  transactions on one object, so that the second meets what the first has left;
  values with different bytes; packets at their least and greatest lengths.
- MCScheduleRecord: one record of "*" in every item, on a clock that is never late.

### Fairness

A thread that can run does (weak fairness of the worker, of the timer, of a
caller in the middle of a call, of the main thread in `stop()`). Strong fairness
is assumed for `LockMode` and for `LockSchedule` and `LockRead` of the
thermometers, where threads compete for a mutex again and again, and for the MQTT
library and the broker, which accept a connection that is asked for again and
again (attempts are refused in between). Nobody has to push, to send, to plan or
to stop, and a spurious wake-up never has to come. A handler function returns and
the external DPA handler finishes each transaction with its timeout, as its
documentation promises. The Scheduler fires the FRC of the pulse meters while its
record is planned, which is what `MCScheduler` checks of it. Undefined behaviour
has no fairness: a thread in freed memory may stop.

The liveness of DaemonController is checked under the fairness of DaemonShutdown and
until the main thread stops the daemon. That no thread waits for ever is said as
`[]<>` of the places where it does not wait; as a thread leaves such a place only by
its own call, this is "every call comes to its end". So a deadlock of the requesters
with the worker, which hold two mutexes and wait for each other's answers, violates
`TransactionFinishes` or `CommandAnswered`, and the runs need no check for deadlock:
the system may stop when the daemon has ended.

## What is proved

All theorems hold for every value of the constants that satisfies the named
assumptions: names are distinct, bounds are natural numbers, flags Boolean;
configurations, tables and periods hold what their JSON schema lets through.
Of the 24 invariants of the passing runs 22 are theorems, and three of the
action properties; of the 23rd, `DocumentsAreTrue`, the parts about the
files, the memory and the strings are theorems.

*TaskQueue.* Types, `NoLostWakeup`, quiet after destruction, a final stop, FIFO
order, and that the queue implements the safety part of `TaskQueueAbs`: initial
states map to initial states, every step to a step or a stutter. The invariant is
needed for the wake-up: while the queue is not empty or was stopped, the predicate
is set, or the worker is awake with the mutex, or somebody has still to notify.

*DaemonController.* `ModeHandlerAgree`, `LockedTransactionIsSafe`,
`PendingIsQueuedOnce` and `AnswerTellsOfSwitch`, with and without UdpMessaging.
`IInv` adds that the mutex is held by the one requester inside `setMode` or by the
worker that locked it (`MutexHeld`), what holds of mode, channel and handler at
each place in `setMode` (`Phase`, `HandlerAt`), and what a worker with the mutex
knows (`WorkerInv`). The proof goes action by action. `DpaQueueIsUsed` says that
requesters and worker use the queue only as the safety part of `TaskQueueAbs` lets
them, so that what is proved of `TaskQueue` is what the controller relies on.
`OneResult` is the promise to a requester: a transaction has a result or is pending
only between request and answer, the result stands until the answer, though three
threads touch it, and the answer to a DPA request is that result.

*DaemonShutdown.* `SchedulerLeavesServices`, `NoRequesterAtDeletion` and that a
stopped queue starts nothing, for any number of messagings. The invariant ties
`m_messageHandlersMutex` to the Scheduler's worker and says how far the main thread
is when what is closed. `StoppedDpaQueueIsUsed`, `PendingOnceInShutdown` and
`OneResultInShutdown` are the controller's theorems with the main thread as one
more actor: a stop neither loses nor doubles a transaction. `AgreeUntilDeletion`
proves `SwitchesAgree` and `LockedStaysSafe`, which name the place up to which the
controller's invariants stand: the deletion of the handler.

*Scheduler.* `WakesInTime`, `StopIsNoticed`, `TablesAgree`, `OneShotFiresOnce` and
`RemovedIsNotPicked`, for any number of records and an unbounded clock.
`WakesInTime` speaks of the timer's wait only; the invariant follows `timePoint`
through the whole round (`Wakeup`), for which it needs that a pattern's distance is
positive (`Records`). `OneShot` follows a record through table, hand and queue, and
`Running` ties `m_runTimerThread` to the calling thread. `RecordsAreKept` says that
a record that was added and not removed is planned or, if it is for one time
point, in the timer's hand or handed on; `TaskQueueIsUsed` that the queue of the
worker is used as `TaskQueueAbs` promises it.

*ScheduleRecord.* `RecordsAreRight` for any table: exactly the texts that
`Scheduler.h` documents become records, but for the three nicknames of the day 0, in
their order, up to the first that does not. And `FiresWhenDue`, an action property,
for any clock, day and lateness. Of a pattern that the code takes as documented
(`TakenAsDocumented`), no second that it stands for lies between a round and the one
it plans, and the record fires in a round exactly if the pattern stands for that
minute and day. Of any pattern, a planned second is passed over before its round
only when the lateness of the wake-ups has added up to a second: all of it is in the
seconds passed and in the fraction (`LatenessIsCounted`). The
invariant says that the planned second is the next one after the last round; it
rests on lemmas about the least element of a set of numbers, found by well-founded
induction, about multiples of a step below sixty, and about minutes and seconds of a
time. To make this provable the vector of an item became a set.

*MqttMessaging.* `FlagTellsConnection`, `StopLeavesNoThread`, that a subscription
that the flag tells of was made on this connection, and that a thread is joined
before it is replaced. The invariant says what the library's thread may assume in
each callback, and that behind the join in `stop()` a thread is there only if
`connlost` has run since. `OutQueueIsUsed`: start, stop, callbacks and the worker
use the queue only as `TaskQueueAbs` lets them.

*MqMessaging and iqrfapp.* `RequestIsServed` and `ShowsOwnAnswer`: as long as no
wait has timed out and nothing has come that nobody asked for, at most one message
on its way answers a request, it is the one that the main thread waits for, and
`Pairing` says in which of five places it is. The attempt to prove the first
corrected it: a service without serializers never answers.

*UdpMessaging.* `AcksAreTrue`, and that the UDP thread fails only in the race that
is named. The out-queue exists while the thread is in a write, every write made was
acknowledged before, and no acknowledgement names a packet that has not arrived.

*Thermometers.* `ReadsAsAsked`, and that what was published is the last whole round.
One record is planned for the period while nobody is in the middle of planning.

*ProtocolBridge.* `ReportsAreServed` for any reports and bridges: the meters that
are confirmed, group by group, are those of the report that fit a `uint8_t`, as
long as the groups come without a gap. `ConfirmInv` relates the place in the
bitmap, the group and what was confirmed; that meters come in their order is why
the confirmation loop needs to advance by one group only. `SmashesOnlyOnGaps`
says that it fails only for a gap, and the lemmas about division by 80 and 8 are
proved from the definition of the quotient.

*MeterFrames, PacketHeaders.* `FramesAreTrue` for any commands, values, lengths of
packets and failures. `FrameInv` knows, besides the parts of the property, which
command and request a method leaves behind (`commandSetAnyPacketMode` names another
command) and that a response is in the structure of its command and in no other. The
lemmas about requests say that two bytes make the value again and that a changed byte
changes the checksum modulo 256; that the members of an answer are apart and without
a gap is proved of each structure from the first and last place of each member.
`HeaderInv` says that the loop has passed no M-field and that `firstBytePos` is the
last `2D` passed. The proof found two definitions of the model whose `CASE` guards
overlapped, so that their value was a choice.

*Start.* `ComponentsAgree` and `WatchDogIsJust`. Of every instance that the loop
has left behind the invariant knows why it is not in its map, and what is loaded
stands before what is still to be reached. The age of the last pet is bounded by
what the pets in the queue wait for, or by the time until the next one.

*Configuration.* `SettingsAreAsWritten`, for any file whose values are of their
kind and any number of nodes in a list. Every read goes on with what it found or
throws at what is not wanted (`GoesOnOrThrows`); the invariant says of each member
whether the part has it or its default, by the place of its read, which needs that
no part reads a member twice and that it has one list of nodes at most. Both are
proved of the concatenations that the reads are. `EndedInv` says why a part reads
no more, `ListInv` that the nodes that are served and those that are left make up
the list. To make this provable the list became a step for each node; before, it
was a fold.

*JsonMemory.* `MemoryTrue`, the part of `DocumentsAreTrue` about memory, for chunks and
capacities of any size and any number of calls: object, array and buffer hold what
was put into them, and a name finds its first member. By the invariant (`MemoryInv`)
the blocks of object and array are in use and apart, and a long string has a cell
outside of both; so the proof rests on what `Malloc`, `Realloc` and the copy between
blocks leave alone (`Keeps`, `Replaces`). To make this provable the recursive
copy became one definition of all cells at once (`Copy`).

*JsonStrings.* `StringTrue`, the part of `DocumentsAreTrue` about strings, for any
string, any `MaxSize` of the short form and any bytes and escapes. The invariant
(`ReadingInv`) says that the bytes that the reader has are the first of the string
and that the text ahead of it, with the beginning of an escape that it has taken,
spells the rest. What is spelled (`Spells`) is told by where the text of each byte
ends, so that one byte can be added behind (`SpellsMore`) and one taken in front
(`SpellsFirst`) without induction; the rest is that each form of `Escaped` is undone
by the reader and each form of `Encode` by `Decoded`. To make this provable the
writer became a step for each byte; before, it was recursive.

*PulseMeters.* `MeterIsSoughtOrRead`, for any number of meters and in every order
of the two workers up to their first race. `MeterInv` says what each worker knows
at each of its places: that the loop over the meters has left none behind without a
reason to stop the FRC (`PassedInv`), and which record of a meter there is between
the removal of the old one and the assignment of the new handle (`RecordInv`).
`TaskQueueIsUsed` says that the service's queue implements `TaskQueueAbs`.

*ServiceExample.* `ThermometersAreRead` for any configuration. The invariant is
that the records and the handles the service knows form a plan (`IsPlan`): each
record has one owner and each known handle one record. That a free handle exists
at all is the pigeonhole principle; which thermometers an FRC queues is a sequence
of a finite set of positions, found by its cardinality. A node named twice keeps
the invariant, since its second thermometer keeps a record that is its own.

Only model-checked: liveness and everything that speaks of fairness (temporal
reasoning about `ENABLED` is outside of the prover's reach), with the liveness part
of `TaskQueueAbs`. What `DocumentsAreTrue` says of JSON texts and numbers
speaks of what a recursive definition computes for texts of any length, which is
induction over data; `TextsAreTrue` compares definitions that are recursive or use operators on
sequences for which the library has no theorems, and `UdpPackets`, which it
includes, needs the bitwise operators of a CRC. No module with a theorem reaches a
`RECURSIVE` operator.

## Where the code does otherwise than it says

Six disagreements have a run of their own (above). The others were met while
modelling. The model does what the code does, and a property that would be
violated names the case in its antecedent.

- *DaemonController, Scheduler.* `doCommand` answers OK though `setMode` refused a
  mode for want of UdpMessaging (`IDaemon.h:65`, a run of its own). A fired one-shot record is kept in
  `m_scheduledTasksByHandle` (`IScheduler.h:78`). A periodic task is first fired at
  its start time, not one period later (`IScheduler.h:89`). Registering a handler
  again leaves the first one (`IScheduler.h:48`, `IDaemon.h:49`).
- *ScheduleRecord.* Seconds of "*" are fired once a minute, in second 0
  (`Scheduler.h:50`, a run of its own). `getNext` keeps the fraction of the second, so
  that lateness adds up until a planned second is passed over. A step above its item's
  maximum is no restriction. The documented `5/*` (`Scheduler.h:53`) throws, as do
  `@yearly`, `@annually` and `@monthly` (`Scheduler.h:57-59`), whose day is 0. A year is
  compared with the years since 1900. A nickname counts only alone. The first bad
  record of a table hides those behind it.
- *Start.* A signal before `m_running` is set is forgotten, and `exit()` on a thread
  that holds `m_stopConditionMutex`, the main thread or a worker in `watchDogPet`, waits
  for itself. The period of the pet
  is cut to whole seconds; a start that takes longer than the timeout ends the
  daemon at once; a stuck DPA worker is not noticed. A service that is refused
  leaves its handler registered; a duplicate UdpMessaging leaves
  `m_dpaExclusiveAccess` dangling; of two services on one messaging the last gets
  the messages. A Scheduler's task between the start of services and that of
  messagings meets a missing out-queue. `spiDev` is copied without its terminator
  when the name fills it. The header names configuration `v0.0`, the code wants `v1.0`.
- *Messagings.* MqMessaging and UdpMessaging delete the channel before the queue
  whose worker sends through it, and after `stop()` a handler may push to a queue
  that is gone. A UDP write is acknowledged before it is tried. The UDP thread may
  use a null pointer when `resetExclusive` comes after its test. A packet's declared
  length is compared with the buffer, not with what arrived. A subscription that
  fails is not tried again.
- *Serializers.* SimpleSerializer before JsonSerializer makes JSON requests refused.
  A negative timeout is taken by one and ignored by the other. Hexadecimal input
  that is too long is narrowed or ignored. The members `nadr` and `hwpid` of a raw
  request are echoed and not used. `temperature`, `led_state`, `frc_data` and
  `val` are answered also without a response. A request that has a "status" of its
  own is answered with two. An asynchronous message becomes an empty text with
  SimpleSerializer. Microseconds of a timestamp are not padded with zeros.
- *PulseMeters and the FRC example.* Two workers share `m_taskHandle` without a
  mutex. `stop()` deletes the queue while the Scheduler's worker may be in a round.
  A meter whose reading failed with another error than a timeout stays synced and is
  never sought. Of a node that is named twice the first thermometer is read, so the
  record of the second is never removed; node 0 is planned and never read; records
  stay after `stop()`. In `PrfPulseMeter` the checksum of a stored counter has the
  same byte four times, it is written high byte first and read low byte first, and
  `cntlen` from the network counts behind the buffer.
- *Protocol bridge.* The index of a meter is a `uint8_t`, so 256 and above wrap. The
  confirmation loop advances by one group where it should by many, and writes
  behind its buffer on a gap. `.at()` of a bridge that is not configured ends the
  daemon. The results of the FRC and of the packets are not tested, so a stale
  packet may be published. `commandSetAnyPacketMode` sets another command. Three
  commands have no case in `parseResponse`. A packet without M-field is published
  with a header from the byte before it, and a header at the end with bytes
  behind it.
- *Thermometer.* An object without the expected members sets the period 0; a
  message that is no object fails an assertion of rapidjson.
- *iqrfapp.* Any message is taken for the answer: after one late answer the pairing
  stays off by one. A request that could not be sent is waited for. Interactive mode
  splits JSON at blanks and does not end with its input. The documented
  `iqrfapp json ...` is refused.
- *Configuration, JSON.* A pattern error reads the value of a non-string, which
  aborts a debug build. Settings before a bad member stay changed. `assertIs<double>`
  refuses an integer. A string is cut at an embedded zero. A low surrogate alone is
  accepted. An exponent that overflows
  gives an infinite number, which the writer refuses in the middle of a message.

## What is not modelled, and the plan

Not modelled: rapidjson's pointers, schemas, regular expressions, encoded streams,
the iterative and in-situ parsers, which the daemon does not call; how times are
formatted; `encodeConfig`; a signal during a pet of `start()`; how long the reading of a
thermometer of the FRC example takes; the channel under UdpMessaging's out-queue, which is
deleted before it; the unlocked `m_lastError` of the serializers; the object
factory; the class `WatchDog`, which nobody uses; the IDE dummy, but for the packets
it sends; logging, build files, docker, scripts. What is in other repositories
(DPA library, channels, MQTT library, broker) is external.

Planned:

1. The conversions of `JsonNumbers` for any width, by recursive
   functions in the place of recursive operators.

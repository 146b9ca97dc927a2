--------------------------- MODULE TaskQueueProofs ---------------------------
(***************************************************************************)
(* Proofs about TaskQueue for every set of clients, every set of tasks and *)
(* every number of pushes.  Below them the memory of a JSON document, for  *)
(* chunks and capacities of any size and any number of calls: what was put *)
(* into an object, an array or a buffer is there.  The invariant says that *)
(* the blocks of object and array are apart and in use, and that a long    *)
(* string has a cell outside of both; it rests on what Malloc, Realloc and *)
(* memcpy leave alone.  At the end the strings of a JSON text, of any      *)
(* length and any size of the short form: what is stored and written reads *)
(* back the same.  The invariant says that what is ahead of the reader is  *)
(* what was written for the bytes that it has not read.                    *)
(***************************************************************************)
EXTENDS TaskQueue, JsonMemory, JsonStrings, SequenceTheorems, WellFoundedInduction, TLAPS

-----------------------------------------------------------------------------
(* The invariant that the safety properties follow from.                   *)

\* The worker holds the mutex exactly in its inner loop, and is processing a
\* task exactly between the pop and the return of the processing function.
WorkerState ==
    /\ locked <=> worker = "loop"
    /\ worker = "process" <=> current # NoTask
    /\ worker = "done" => ~m_runWorkerThread

\* While the worker is on its way to the wait, a cleared flag means that there
\* is nothing to do, and a set flag on a sleeping worker will be notified.
FlagTellsOfWork ==
    /\ worker \in {"test", "wait", "sleep", "woken"} /\ ~m_taskPushed
          => m_taskQueue = <<>> /\ m_runWorkerThread
    /\ worker = "sleep" /\ m_taskPushed => NotifyPending

\* The destructor runs on a stopped queue that no client uses.
OwnerState ==
    /\ owner # "alive" => ~m_runWorkerThread /\ \A c \in Clients : client[c] = "idle"
    /\ owner = "destroyed" => worker = "done"

IInv == TypeOK /\ WorkerState /\ FlagTellsOfWork /\ OwnerState

-----------------------------------------------------------------------------
\* TypeOK is preserved by every step: no step leaves the states listed there.
LEMMA TypeStep == TypeOK /\ [Next]_vars => TypeOK'
<1> SUFFICES ASSUME TypeOK, [Next]_vars PROVE TypeOK'
  OBVIOUS
<1> USE TaskQueueAssumption DEF TypeOK, queueVars, workerVars, history
<1>1. ASSUME NEW c \in Clients, NEW t \in Task, PushToQueue(c, t) PROVE TypeOK'
  BY <1>1 DEF PushToQueue
<1>2. ASSUME NEW c \in Clients, StopQueue(c) PROVE TypeOK'
  BY <1>2 DEF StopQueue, SetStopped
<1>3. ASSUME NEW c \in Clients, Notify(c) PROVE TypeOK'
  BY <1>3 DEF Notify, NotifyAll
<1>4. CASE OwnerNext
  BY <1>4 DEF OwnerNext, Destroy, DestroyNotify, Join, SetStopped, NotifyAll
<1>5. CASE TestRun \/ WaitPushed \/ QueueEmpty \/ LoopStopped \/ ProcessReturns \/ Relock
  BY <1>5 DEF TestRun, WaitPushed, QueueEmpty, LoopStopped, ProcessReturns, Relock
<1>6. CASE PopTask
  <2>1. /\ Head(m_taskQueue) \in Task
        /\ Tail(m_taskQueue) \in Seq(Task)
        /\ Append(started, Head(m_taskQueue)) \in Seq(Task)
    BY <1>6 DEF PopTask
  <2>2. QED
    BY <1>6, <2>1 DEF PopTask
<1>7. CASE SpuriousWakeup
  BY <1>7 DEF SpuriousWakeup
<1>8. CASE UNCHANGED vars
  BY <1>8 DEF vars
<1>9. QED
  BY <1>1, <1>2, <1>3, <1>4, <1>5, <1>6, <1>7, <1>8 DEF Next, ClientNext, WorkerNext

LEMMA TypeInit == Init => TypeOK
<1> SUFFICES ASSUME Init PROVE TypeOK
  OBVIOUS
<1>1. <<>> \in Seq(Task)
  OBVIOUS
<1>2. client \in [Clients -> {"idle", "notify"}]
  BY DEF Init
<1>3. QED
  BY <1>1, <1>2 DEF Init, TypeOK

\* The variables of TaskQueue always have the types the code declares.
THEOREM TypeCorrect == Spec => []TypeOK
BY TypeInit, TypeStep, PTL DEF Spec

-----------------------------------------------------------------------------
\* The invariant holds initially and is preserved by every step.
LEMMA InvInit == Init => IInv
BY TypeInit DEF Init, IInv, WorkerState, FlagTellsOfWork, OwnerState

LEMMA InvStep == IInv /\ [Next]_vars => IInv'
<1> SUFFICES ASSUME IInv, [Next]_vars PROVE IInv'
  OBVIOUS
<1>0. TypeOK'
  BY TypeStep DEF IInv
<1> USE <1>0, TaskQueueAssumption
    DEF IInv, TypeOK, WorkerState, FlagTellsOfWork, OwnerState, NotifyPending,
        queueVars, workerVars, history
<1>1. ASSUME NEW c \in Clients, NEW t \in Task, PushToQueue(c, t) PROVE IInv'
  BY <1>1 DEF PushToQueue
<1>2. ASSUME NEW c \in Clients, StopQueue(c) PROVE IInv'
  BY <1>2 DEF StopQueue, SetStopped
<1>3. ASSUME NEW c \in Clients, Notify(c) PROVE IInv'
  BY <1>3 DEF Notify, NotifyAll
<1>4. CASE Destroy
  BY <1>4 DEF Destroy, SetStopped
<1>5. CASE DestroyNotify
  BY <1>5 DEF DestroyNotify, NotifyAll
<1>6. CASE Join
  BY <1>6 DEF Join
<1>7. CASE TestRun \/ SpuriousWakeup
  BY <1>7 DEF TestRun, SpuriousWakeup
<1>8. CASE WaitPushed
  BY <1>8 DEF WaitPushed
<1>9. CASE PopTask
  <2>1. Head(m_taskQueue) \in Task
    BY <1>9 DEF PopTask
  <2>2. QED
    BY <1>9, <2>1 DEF PopTask
<1>10. CASE QueueEmpty \/ LoopStopped
  BY <1>10 DEF QueueEmpty, LoopStopped
<1>11. CASE ProcessReturns \/ Relock
  BY <1>11 DEF ProcessReturns, Relock
<1>12. CASE UNCHANGED vars
  BY <1>12 DEF vars
<1>13. QED
  BY <1>1, <1>2, <1>3, <1>4, <1>5, <1>6, <1>7, <1>8, <1>9, <1>10, <1>11, <1>12
     DEF Next, ClientNext, OwnerNext, WorkerNext

LEMMA Invariance == Spec => []IInv
BY InvInit, InvStep, PTL DEF Spec

\* No wake-up of the worker is ever lost: pushToQueue, stopQueue and the
\* destructor set the flag under the mutex before they notify.
THEOREM NoWakeupIsLost == Spec => []NoLostWakeup
<1>1. IInv => NoLostWakeup
  BY DEF IInv, FlagTellsOfWork, NoLostWakeup
<1>2. QED
  BY <1>1, Invariance, PTL

\* After the destructor the worker has ended and processes nothing.
THEOREM DestructionIsQuiet == Spec => []DestroyedQueueIsQuiet
<1>1. IInv => DestroyedQueueIsQuiet
  BY DEF IInv, OwnerState, WorkerState, TypeOK, DestroyedQueueIsQuiet
<1>2. QED
  BY <1>1, Invariance, PTL

\* A stopped queue starts no further task.
THEOREM StopIsFinal == Spec => StoppedStartsNothing
<1>1. [Next]_vars => [~m_runWorkerThread => started' = started]_vars
  BY DEF Next, ClientNext, OwnerNext, WorkerNext, PushToQueue, StopQueue, Notify,
         Destroy, DestroyNotify, Join, TestRun, WaitPushed, PopTask, QueueEmpty,
         LoopStopped, ProcessReturns, Relock, SpuriousWakeup, history
<1>2. QED
  BY <1>1, PTL DEF Spec, StoppedStartsNothing

-----------------------------------------------------------------------------
\* Appending at the back, and moving the front over, on concatenated sequences.
LEMMA AppendRight ==
    ASSUME NEW S, NEW s \in Seq(S), NEW q \in Seq(S), NEW t \in S
    PROVE  s \o Append(q, t) = Append(s \o q, t)
OBVIOUS

LEMMA MoveHead ==
    ASSUME NEW S, NEW s \in Seq(S), NEW q \in Seq(S), q # <<>>
    PROVE  Append(s, Head(q)) \o Tail(q) = s \o q
OBVIOUS

\* The tasks are processed in FIFO order, each exactly once.
THEOREM FifoOrder == Spec => []ProcessedInFifoOrder
<1>1. Init => ProcessedInFifoOrder
  BY DEF Init, ProcessedInFifoOrder
<1>2. TypeOK /\ ProcessedInFifoOrder /\ [Next]_vars => ProcessedInFifoOrder'
  <2> SUFFICES ASSUME TypeOK, ProcessedInFifoOrder, [Next]_vars
               PROVE  ProcessedInFifoOrder'
    OBVIOUS
  <2> USE DEF ProcessedInFifoOrder, queueVars, workerVars, history
  <2>1. ASSUME NEW c \in Clients, NEW t \in Task, PushToQueue(c, t)
        PROVE  ProcessedInFifoOrder'
    <3>1. started \o Append(m_taskQueue, t) = Append(started \o m_taskQueue, t)
      BY AppendRight DEF TypeOK
    <3>2. QED
      BY <2>1, <3>1 DEF PushToQueue
  <2>2. CASE PopTask
    BY <2>2, MoveHead DEF PopTask, TypeOK
  <2>3. CASE UNCHANGED <<m_taskQueue, pushed, started>>
    BY <2>3
  <2>4. QED
    BY <2>1, <2>2, <2>3 DEF Next, ClientNext, OwnerNext, WorkerNext, StopQueue,
       SetStopped, Notify, Destroy, DestroyNotify, Join, TestRun, WaitPushed,
       QueueEmpty, LoopStopped, ProcessReturns, Relock, SpuriousWakeup, vars
<1>3. QED
  BY <1>1, <1>2, TypeCorrect, PTL DEF Spec

-----------------------------------------------------------------------------
\* Every step of the queue is a step of the abstract executor or a stutter.
LEMMA StepRefines == IInv /\ [Next]_vars => [Abs!AbsNext]_(Abs!absVars)
<1> SUFFICES ASSUME IInv, [Next]_vars PROVE [Abs!AbsNext]_(Abs!absVars)
  OBVIOUS
<1> USE DEF Abs!AbsNext, Abs!absVars, queueVars, workerVars, history
<1>1. ASSUME NEW c \in Clients, NEW t \in Task, PushToQueue(c, t)
      PROVE  [Abs!AbsNext]_(Abs!absVars)
  BY <1>1 DEF PushToQueue, Abs!Accept
<1>2. ASSUME NEW c \in Clients, StopQueue(c) PROVE [Abs!AbsNext]_(Abs!absVars)
  BY <1>2 DEF StopQueue, SetStopped, Abs!Stop
<1>3. CASE Destroy
  BY <1>3 DEF Destroy, SetStopped, Abs!Stop
<1>4. CASE PopTask
  <2>1. current = NoTask
    BY <1>4 DEF PopTask, IInv, WorkerState
  <2>2. QED
    BY <1>4, <2>1 DEF PopTask, Abs!Take
<1>5. CASE ProcessReturns
  BY <1>5 DEF ProcessReturns, IInv, WorkerState, Abs!Finish
<1>6. CASE UNCHANGED <<m_taskQueue, current, m_runWorkerThread>>
  BY <1>6
<1>7. QED
  BY <1>1, <1>2, <1>3, <1>4, <1>5, <1>6
     DEF Next, ClientNext, OwnerNext, WorkerNext, Notify, DestroyNotify, Join,
         TestRun, WaitPushed, QueueEmpty, LoopStopped, Relock, SpuriousWakeup, vars

\* The queue with its mutex, condition variable and worker loop implements the
\* one-at-a-time FIFO executor that its owners rely on.
THEOREM Refinement == Spec => Abs!AbsSafety
<1>1. Init => Abs!AbsInit
  BY DEF Init, Abs!AbsInit
<1>2. QED
  BY <1>1, StepRefines, Invariance, PTL DEF Spec, Abs!AbsSafety
-----------------------------------------------------------------------------
(* The memory of a JSON document: its chunks, and what allocates of them.      *)

\* A cell holds a name, a number or a pointer.
Contents == Seq(Int)
Chunk == [capacity : Nat, size : Nat, cells : Seq(Contents)]
IsPool(p) ==
    /\ p \in Seq(Chunk)
    /\ \A c \in 1..Len(p) : Len(p[c].cells) = p[c].capacity /\ p[c].size <= p[c].capacity

Pointers == Nat \X Nat
Place(where, i) == <<where[1], where[2] + i>>
Used(p) == {u \in Pointers : u[1] \in 1..Len(p) /\ u[2] \in 1..p[u[1]].size}
At(p, u) == p[u[1]].cells[u[2]]

\* Nothing that was in use moves, is lost or is overwritten.
Keeps(p, q) == Used(p) \subseteq Used(q) /\ \A u \in Used(p) : At(q, u) = At(p, u)

\* The block of n cells at "to" is in use and shares no cell with what was in use, but for the
\* block "where" of so many cells that it replaces, whose cells it begins with.
Replaces(p, where, old, q, to, n) ==
    /\ IsPool(q) /\ Keeps(p, q)
    /\ to \in Pointers /\ to # Nowhere
    /\ CellsOf(to, n) \subseteq Used(q)
    /\ CellsOf(to, n) \intersect Used(p) \subseteq CellsOf(where, old)
    /\ \A i \in 1..old : At(q, Place(to, i)) = At(p, Place(where, i))

LEMMA InCells ==
    ASSUME NEW where \in Pointers, NEW n \in Nat
    PROVE  /\ \A i \in 1..n : Place(where, i) \in CellsOf(where, n)
           /\ \A u \in CellsOf(where, n) : u \in Pointers /\ u[1] = where[1] /\ u[2] - where[2] \in 1..n
           /\ \A u \in Pointers : u[1] = where[1] /\ u[2] - where[2] \in 1..n => u \in CellsOf(where, n)
<1>1. \A u \in Pointers : u[1] = where[1] /\ u[2] - where[2] \in 1..n => u \in CellsOf(where, n)
  <2>1. SUFFICES ASSUME NEW u \in Pointers, u[1] = where[1], u[2] - where[2] \in 1..n PROVE u \in CellsOf(where, n)
    OBVIOUS
  <2>2. u = <<where[1], where[2] + (u[2] - where[2])>>
    BY <2>1 DEF Pointers
  <2> QED BY <2>1, <2>2 DEF CellsOf
<1> QED BY <1>1 DEF Pointers, Place, CellsOf

\* The types of a pool's chunks.
LEMMA InPool ==
    ASSUME NEW p, IsPool(p)
    PROVE  /\ Len(p) \in Nat
           /\ \A c \in 1..Len(p) :
                /\ p[c] \in Chunk /\ p[c].size \in Nat /\ p[c].capacity \in Nat
                /\ p[c].cells \in Seq(Contents) /\ Len(p[c].cells) = p[c].capacity
                /\ p[c].size <= p[c].capacity
<1>1. p \in Seq(Chunk)
  BY DEF IsPool
<1>2. \A c \in 1..Len(p) : p[c] \in Chunk
  BY <1>1
<1>3. \A k \in Chunk : k.size \in Nat /\ k.capacity \in Nat /\ k.cells \in Seq(Contents)
  BY DEF Chunk
<1> QED BY <1>1, <1>2, <1>3 DEF IsPool

\* A new chunk leaves the others as they are.
LEMMA ChunkAdded ==
    ASSUME NEW p, IsPool(p), NEW n \in Nat
    PROVE  LET q == AddChunk(p, n)
           IN  IsPool(q) /\ Keeps(p, q) /\ Len(q) = Len(p) + 1
                 /\ q[Len(q)].size = 0 /\ q[Len(q)].capacity = n /\ Used(q) = Used(p)
<1> DEFINE new == [capacity |-> n, size |-> 0, cells |-> [i \in 1..n |-> Free]]
           q == AddChunk(p, n)
<1>1. new \in Chunk /\ Len(new.cells) = n
  <2>1. [i \in 1..n |-> Free] \in Seq(Contents) /\ Len([i \in 1..n |-> Free]) = n
    BY DEF Free, Contents
  <2> QED BY <2>1 DEF Chunk
<1>2. /\ q \in Seq(Chunk) /\ Len(q) = Len(p) + 1 /\ q[Len(p) + 1] = new
      /\ \A c \in 1..Len(p) : q[c] = p[c]
  <2>1. q = Append(p, new) BY DEF AddChunk
  <2> HIDE DEF q, new
  <2> QED BY <2>1, <1>1 DEF IsPool
<1>3. new.size = 0 /\ new.capacity = n
  OBVIOUS
<1> HIDE DEF q, new
<1>4. IsPool(q)
  BY <1>1, <1>2, <1>3 DEF IsPool
<1>5. Used(q) = Used(p)
  BY <1>2, <1>3 DEF Used, Pointers, IsPool
<1>6. Keeps(p, q)
  BY <1>2, <1>5 DEF Keeps, Used, At, Pointers
<1> QED BY <1>2, <1>3, <1>4, <1>5, <1>6 DEF q

\* A chunk that hands on more of its cells.
LEMMA ChunkGrows ==
    ASSUME NEW k \in Chunk, NEW n \in Nat
    PROVE  LET new == [k EXCEPT !.size = @ + n]
           IN  new \in Chunk /\ new.cells = k.cells /\ new.capacity = k.capacity /\ new.size = k.size + n
BY DEF Chunk

\* The head chunk hands on cells behind those in use.
LEMMA HeadGrows ==
    ASSUME NEW p, IsPool(p), p # <<>>, NEW n \in Nat,
           p[Len(p)].size + n <= p[Len(p)].capacity
    PROVE  LET q == [p EXCEPT ![Len(p)].size = @ + n]
               to == <<Len(p), p[Len(p)].size>>
           IN  /\ IsPool(q) /\ Keeps(p, q) /\ to \in Pointers /\ to # Nowhere
               /\ CellsOf(to, n) \intersect Used(p) = {} /\ Used(q) = Used(p) \union CellsOf(to, n)
<1> DEFINE q == [p EXCEPT ![Len(p)].size = @ + n]
           to == <<Len(p), p[Len(p)].size>>
<1>0. /\ Len(p) \in Nat /\ Len(p) > 0 /\ p[Len(p)] \in Chunk /\ p \in Seq(Chunk)
      /\ p[Len(p)].size \in Nat
  BY InPool DEF IsPool
<1>1. /\ q \in Seq(Chunk) /\ Len(q) = Len(p)
      /\ \A c \in 1..Len(p) : q[c].cells = p[c].cells /\ q[c].capacity = p[c].capacity
                                /\ (c # Len(p) => q[c].size = p[c].size)
      /\ q[Len(p)].size = p[Len(p)].size + n
  <2> DEFINE new == [p[Len(p)] EXCEPT !.size = @ + n]
  <2>1. new \in Chunk /\ new.cells = p[Len(p)].cells /\ new.capacity = p[Len(p)].capacity
          /\ new.size = p[Len(p)].size + n
    BY <1>0, ChunkGrows
  <2>2. q = [p EXCEPT ![Len(p)] = new]
    OBVIOUS
  <2> HIDE DEF new, q
  <2> QED BY <1>0, <2>1, <2>2
<1>2. to \in Pointers /\ to # Nowhere /\ to[1] = Len(p) /\ to[2] = p[Len(p)].size
  BY <1>0 DEF Pointers, Nowhere, Chunk
<1> HIDE DEF q, to
<1>3. IsPool(q)
  BY <1>0, <1>1 DEF IsPool, Chunk
<1>4. \A u \in Pointers : u \in CellsOf(to, n) <=> u[1] = Len(p) /\ u[2] - p[Len(p)].size \in 1..n
  BY <1>2, InCells
<1>5. CellsOf(to, n) \subseteq Pointers
  BY <1>2, InCells
<1>6. \A c \in 1..Len(p) : p[c].size \in Nat
  BY InPool
<1>7. CellsOf(to, n) \intersect Used(p) = {}
  BY <1>0, <1>4, <1>5, <1>6 DEF Used, Pointers
<1>8. Used(q) = Used(p) \union CellsOf(to, n)
  <2>1. ASSUME NEW u \in Pointers PROVE u \in Used(q) <=> u \in Used(p) \/ u \in CellsOf(to, n)
    <3>1. CASE u[1] = Len(p)
      BY <1>0, <1>1, <1>4, <1>6, <3>1 DEF Used, Pointers
    <3>2. CASE u[1] # Len(p)
      BY <1>0, <1>1, <1>4, <1>6, <3>2 DEF Used, Pointers
    <3> QED BY <3>1, <3>2
  <2> QED BY <2>1, <1>5 DEF Used
<1>9. Keeps(p, q)
  BY <1>1, <1>8 DEF Keeps, Used, At, Pointers
<1> QED BY <1>2, <1>3, <1>7, <1>8, <1>9 DEF q, to
\* The cell of a place that is in use.
LEMMA UsedCell ==
    ASSUME NEW p, IsPool(p), NEW u \in Used(p)
    PROVE  /\ u \in Pointers /\ u[1] \in 1..Len(p) /\ u[2] \in 1..Len(p[u[1]].cells)
           /\ At(p, u) \in Contents
<1>1. u \in Pointers /\ u[1] \in 1..Len(p) /\ u[2] \in 1..p[u[1]].size
  BY DEF Used
<1>2. u[2] \in 1..Len(p[u[1]].cells)
  BY <1>1, InPool
<1> QED BY <1>1, <1>2, InPool DEF At

\* Malloc hands out cells that nobody has.
LEMMA MallocIsFresh ==
    ASSUME NEW p, IsPool(p), NEW n \in Nat \ {0}
    PROVE  LET block == Malloc(p, n)
           IN  /\ IsPool(block.chunks) /\ Keeps(p, block.chunks)
               /\ block.to \in Pointers /\ block.to # Nowhere
               /\ CellsOf(block.to, n) \intersect Used(p) = {}
               /\ CellsOf(block.to, n) \subseteq Used(block.chunks)
<1> DEFINE full == p = <<>> \/ p[Len(p)].size + n > p[Len(p)].capacity
           capacity == IF ChunkCapacity > n THEN ChunkCapacity ELSE n
           room == IF full THEN AddChunk(p, capacity) ELSE p
           q == [room EXCEPT ![Len(room)].size = @ + n]
           to == <<Len(room), room[Len(room)].size>>
<1>1. Malloc(p, n) = [to |-> to, chunks |-> q]
  BY DEF Malloc
<1>2. capacity \in Nat /\ capacity >= n
  BY MemoryAssumption
<1> HIDE DEF capacity
<1>3. /\ IsPool(room) /\ room # <<>> /\ Used(room) = Used(p) /\ Keeps(p, room)
      /\ room[Len(room)].size + n <= room[Len(room)].capacity
  <2>1. CASE full
    <3> DEFINE added == AddChunk(p, capacity)
    <3>1. room = added
      BY <2>1
    <3>2. /\ IsPool(added) /\ Keeps(p, added) /\ Len(added) = Len(p) + 1
          /\ added[Len(added)].size = 0 /\ added[Len(added)].capacity = capacity /\ Used(added) = Used(p)
      BY <1>2, ChunkAdded
    <3> HIDE DEF added, room
    <3>3. Len(p) \in Nat /\ added # <<>>
      BY <3>2 DEF IsPool
    <3> QED BY <1>2, <3>1, <3>2, <3>3
  <2>2. CASE ~full
    BY <2>2, InPool DEF Keeps
  <2> QED BY <2>1, <2>2
<1> HIDE DEF room
<1>4. /\ IsPool(q) /\ Keeps(room, q) /\ to \in Pointers /\ to # Nowhere
      /\ CellsOf(to, n) \intersect Used(room) = {} /\ Used(q) = Used(room) \union CellsOf(to, n)
  BY <1>3, HeadGrows
<1> HIDE DEF q, to
<1>5. Keeps(p, q)
  BY <1>3, <1>4 DEF Keeps
<1> QED BY <1>1, <1>3, <1>4, <1>5

\* Store changes one cell.
LEMMA StoreIsLocal ==
    ASSUME NEW p, IsPool(p), NEW where \in Pointers, NEW i \in Nat, Place(where, i) \in Used(p),
           NEW value \in Contents
    PROVE  LET q == Store(p, where, i, value)
           IN  /\ IsPool(q) /\ Used(q) = Used(p) /\ At(q, Place(where, i)) = value
               /\ \A u \in Used(p) : u # Place(where, i) => At(q, u) = At(p, u)
<1> DEFINE c == where[1]
           o == where[2] + i
           new == [p[c].cells EXCEPT ![o] = value]
           chunk == [p[c] EXCEPT !.cells = new]
           q == Store(p, where, i, value)
<1>1. /\ c \in 1..Len(p) /\ p[c] \in Chunk /\ o \in 1..Len(p[c].cells) /\ p \in Seq(Chunk)
      /\ p[c].cells \in Seq(Contents)
  BY UsedCell, InPool DEF Place, IsPool
<1>2. q = [p EXCEPT ![c] = chunk]
  BY DEF Store
<1>3. /\ chunk \in Chunk /\ chunk.size = p[c].size /\ chunk.capacity = p[c].capacity
      /\ Len(chunk.cells) = Len(p[c].cells)
      /\ chunk.cells[o] = value /\ \A k \in 1..Len(p[c].cells) : k # o => chunk.cells[k] = p[c].cells[k]
  <2>1. /\ new \in Seq(Contents) /\ Len(new) = Len(p[c].cells) /\ new[o] = value
        /\ \A k \in 1..Len(p[c].cells) : k # o => new[k] = p[c].cells[k]
    BY <1>1
  <2> HIDE DEF new
  <2> QED BY <1>1, <2>1 DEF Chunk
<1> HIDE DEF chunk, q
<1>4. /\ q \in Seq(Chunk) /\ Len(q) = Len(p) /\ q[c] = chunk
      /\ \A d \in 1..Len(p) : d # c => q[d] = p[d]
  BY <1>1, <1>2, <1>3
<1>5. IsPool(q)
  BY <1>1, <1>3, <1>4 DEF IsPool
<1>6. Used(q) = Used(p)
  BY <1>3, <1>4 DEF Used
<1>7. At(q, Place(where, i)) = value
  BY <1>3, <1>4 DEF At, Place
<1>8. ASSUME NEW u \in Used(p), u # Place(where, i) PROVE At(q, u) = At(p, u)
  <2>1. u \in Pointers /\ u[1] \in 1..Len(p) /\ u[2] \in 1..Len(p[u[1]].cells)
    BY UsedCell
  <2>2. CASE u[1] = c
    <3>1. u[2] # o
      BY <2>1, <2>2, <1>8 DEF Place, Pointers
    <3> QED BY <2>1, <2>2, <3>1, <1>3, <1>4 DEF At
  <2>3. CASE u[1] # c
    BY <2>1, <2>3, <1>4 DEF At
  <2> QED BY <2>2, <2>3
<1> QED BY <1>5, <1>6, <1>7, <1>8 DEF q

\* memcpy changes the cells of the block that it writes.
LEMMA CopyIsLocal ==
    ASSUME NEW p, IsPool(p), NEW from \in Pointers, NEW to \in Pointers, NEW many \in Nat \ {0},
           CellsOf(from, many) \subseteq Used(p), CellsOf(to, many) \subseteq Used(p)
    PROVE  LET q == Copy(p, from, to, many)
           IN  /\ IsPool(q) /\ Used(q) = Used(p)
               /\ \A i \in 1..many : At(q, Place(to, i)) = At(p, Place(from, i))
               /\ \A u \in Used(p) \ CellsOf(to, many) : At(q, u) = At(p, u)
<1> DEFINE c == to[1]
           new == [k \in DOMAIN p[c].cells |->
                      IF k - to[2] \in 1..many THEN Cell(p, from, k - to[2]) ELSE p[c].cells[k]]
           chunk == [p[c] EXCEPT !.cells = new]
           q == Copy(p, from, to, many)
<1>0. \A i \in 1..many : Place(to, i) \in Used(p) /\ Place(from, i) \in Used(p)
  BY InCells
<1>1. /\ c \in 1..Len(p) /\ p[c] \in Chunk /\ p \in Seq(Chunk)
      /\ p[c].cells \in Seq(Contents)
  <2>1. Place(to, 1) \in Used(p)
    BY <1>0
  <2> QED BY <2>1, UsedCell, InPool DEF Place, IsPool
<1>2. q = [p EXCEPT ![c] = chunk]
  BY DEF Copy
<1>3. \A i \in 1..many : Cell(p, from, i) = At(p, Place(from, i)) /\ Cell(p, from, i) \in Contents
  <2>1. SUFFICES ASSUME NEW i \in 1..many
        PROVE Cell(p, from, i) = At(p, Place(from, i)) /\ Cell(p, from, i) \in Contents
    OBVIOUS
  <2>2. Place(from, i) \in Used(p)
    BY <1>0
  <2>3. Cell(p, from, i) = At(p, Place(from, i))
    BY DEF Cell, At, Place
  <2> QED BY <2>2, <2>3, UsedCell
<1>4. \A k \in 1..Len(p[c].cells) :
          /\ k - to[2] \in 1..many => new[k] = Cell(p, from, k - to[2])
          /\ k - to[2] \notin 1..many => new[k] = p[c].cells[k]
  BY <1>1
<1>5. new \in Seq(Contents) /\ Len(new) = Len(p[c].cells)
  <2>1. \A k \in 1..Len(p[c].cells) : new[k] \in Contents
    BY <1>1, <1>3, <1>4
  <2>2. DOMAIN new = 1..Len(p[c].cells) /\ new = [k \in 1..Len(p[c].cells) |-> new[k]]
    BY <1>1
  <2> HIDE DEF new
  <2>3. new \in [1..Len(p[c].cells) -> Contents]
    BY <2>1, <2>2
  <2>4. Len(p[c].cells) \in Nat
    BY <1>1
  <2> QED BY <2>3, <2>4
<1> HIDE DEF new
<1>6. /\ chunk \in Chunk /\ chunk.size = p[c].size /\ chunk.capacity = p[c].capacity
      /\ chunk.cells = new
  BY <1>1, <1>5 DEF Chunk
<1> HIDE DEF chunk, q
<1>7. /\ q \in Seq(Chunk) /\ Len(q) = Len(p) /\ q[c] = chunk
      /\ \A d \in 1..Len(p) : d # c => q[d] = p[d]
  BY <1>1, <1>2, <1>6
<1>8. IsPool(q)
  BY <1>1, <1>5, <1>6, <1>7 DEF IsPool
<1>9. Used(q) = Used(p)
  BY <1>6, <1>7 DEF Used
<1>10. ASSUME NEW i \in 1..many PROVE At(q, Place(to, i)) = At(p, Place(from, i))
  <2>0. to[2] \in Nat
    BY DEF Pointers
  <2>1. Place(to, i) \in Used(p) /\ Place(to, i)[1] = c /\ Place(to, i)[2] = to[2] + i
    BY <1>0 DEF Place
  <2>4. (to[2] + i) - to[2] = i
    BY <2>0
  <2>2. to[2] + i \in 1..Len(p[c].cells)
    BY <2>1, UsedCell
  <2>3. new[to[2] + i] = Cell(p, from, i)
    BY <2>2, <2>4, <1>4
  <2> QED BY <2>1, <2>3, <1>3, <1>6, <1>7 DEF At
<1>11. ASSUME NEW u \in Used(p), u \notin CellsOf(to, many) PROVE At(q, u) = At(p, u)
  <2>1. u \in Pointers /\ u[1] \in 1..Len(p) /\ u[2] \in 1..Len(p[u[1]].cells)
    BY UsedCell
  <2>2. CASE u[1] = c
    <3>1. u[2] - to[2] \notin 1..many
      BY <2>1, <2>2, <1>11, InCells
    <3> QED BY <2>1, <2>2, <3>1, <1>4, <1>6, <1>7 DEF At
  <2>3. CASE u[1] # c
    BY <2>1, <2>3, <1>7 DEF At
  <2> QED BY <2>2, <2>3
<1> QED BY <1>8, <1>9, <1>10, <1>11 DEF q
\* The part of a longer block that is not in the shorter one begins where that ends.
LEMMA LatterPart ==
    ASSUME NEW from \in Int, NEW end \in Int, NEW old \in Int, NEW new \in Int, NEW x \in Int,
           from = end - old, x - from \in 1..new, ~(x - from \in 1..old)
    PROVE  x - end \in 1..(new - old)
OBVIOUS

\* Realloc, of nothing or of a block in use, gives a larger block that begins with the old one.
LEMMA ReallocReplaces ==
    ASSUME NEW p, IsPool(p), NEW where \in Pointers, NEW old \in Nat, NEW new \in Nat, old < new,
           CellsOf(where, old) \subseteq Used(p), where = Nowhere <=> old = 0
    PROVE  LET block == Realloc(p, where, old, new)
           IN  Replaces(p, where, old, block.chunks, block.to, new)
<1> DEFINE head == Len(p)
           last == where = <<head, p[head].size - old>>
           fits == last /\ p[head].size + (new - old) <= p[head].capacity
           moved == Malloc(p, new)
<1>0. /\ IsPool(moved.chunks) /\ Keeps(p, moved.chunks)
      /\ moved.to \in Pointers /\ moved.to # Nowhere
      /\ CellsOf(moved.to, new) \intersect Used(p) = {}
      /\ CellsOf(moved.to, new) \subseteq Used(moved.chunks)
  BY MallocIsFresh
<1>1. CASE where = Nowhere
  <2>1. Realloc(p, where, old, new) = moved /\ old = 0
    BY <1>1 DEF Realloc
  <2> HIDE DEF moved
  <2> QED BY <1>0, <2>1 DEF Replaces
<1>2. CASE where # Nowhere /\ fits
  <2> DEFINE n == new - old
             q == [p EXCEPT ![head].size = @ + n]
             end == <<head, p[head].size>>
  <2>1. Realloc(p, where, old, new) = [to |-> where, chunks |-> q]
    BY <1>2 DEF Realloc
  <2>2. n \in Nat /\ old > 0 /\ 1 \in 1..old
    BY <1>2
  <2>3. p # <<>>
    <3>1. Place(where, 1) \in Used(p)
      BY <2>2, InCells
    <3> QED BY <3>1, UsedCell
  <2>4. /\ IsPool(q) /\ Keeps(p, q) /\ end \in Pointers
        /\ CellsOf(end, n) \intersect Used(p) = {} /\ Used(q) = Used(p) \union CellsOf(end, n)
    BY <1>2, <2>2, <2>3, HeadGrows
  <2> HIDE DEF q
  <2>5. CellsOf(where, new) \subseteq CellsOf(where, old) \union CellsOf(end, n)
    <3>1. SUFFICES ASSUME NEW u \in CellsOf(where, new), u \notin CellsOf(where, old)
          PROVE  u \in CellsOf(end, n)
      OBVIOUS
    <3>2. u \in Pointers /\ u[1] = where[1] /\ u[2] - where[2] \in 1..new
      BY InCells
    <3>3. ~(u[2] - where[2] \in 1..old)
      BY <3>1, <3>2, InCells
    <3>4. where[1] = end[1] /\ where[2] = end[2] - old /\ where[2] \in Nat /\ end[2] \in Nat /\ u[2] \in Nat
      BY <1>2, <2>4, <3>2 DEF Pointers
    <3>5. u[2] - end[2] \in 1..n
      <4>1. where[2] \in Int /\ end[2] \in Int /\ u[2] \in Int
        BY <3>4
      <4>2. where[2] = end[2] - old /\ u[2] - where[2] \in 1..new /\ ~(u[2] - where[2] \in 1..old)
        BY <3>2, <3>3, <3>4
      <4>3. old \in Int /\ new \in Int
        OBVIOUS
      <4> HIDE DEF n, end
      <4>4. u[2] - end[2] \in 1..(new - old)
        BY ONLY <4>1, <4>2, <4>3, LatterPart
      <4> QED BY <4>4 DEF n
    <3> QED BY <2>2, <2>4, <3>2, <3>4, <3>5, InCells
  <2>6. CellsOf(where, new) \subseteq Used(q) /\ CellsOf(where, new) \intersect Used(p) \subseteq CellsOf(where, old)
    BY <2>4, <2>5
  <2>7. \A i \in 1..old : At(q, Place(where, i)) = At(p, Place(where, i))
    BY <2>4, InCells DEF Keeps
  <2>8. where # Nowhere
    BY <1>2
  <2>9. Replaces(p, where, old, q, where, new)
    BY <2>4, <2>6, <2>7, <2>8 DEF Replaces
  <2> QED BY <2>1, <2>9
<1>3. CASE where # Nowhere /\ ~fits
  <2> DEFINE q == Copy(moved.chunks, where, moved.to, old)
  <2>1. Realloc(p, where, old, new) = [to |-> moved.to, chunks |-> q]
    BY <1>3 DEF Realloc
  <2> HIDE DEF moved
  <2>2. old \in Nat \ {0}
    BY <1>3
  <2>3. CellsOf(where, old) \subseteq Used(moved.chunks)
    BY <1>0 DEF Keeps
  <2>4. CellsOf(moved.to, old) \subseteq CellsOf(moved.to, new)
    BY <1>0 DEF CellsOf
  <2>5. CellsOf(moved.to, old) \subseteq Used(moved.chunks) /\ CellsOf(moved.to, old) \intersect Used(p) = {}
    BY <1>0, <2>4
  <2>6. /\ IsPool(q) /\ Used(q) = Used(moved.chunks)
        /\ \A i \in 1..old : At(q, Place(moved.to, i)) = At(moved.chunks, Place(where, i))
        /\ \A u \in Used(moved.chunks) \ CellsOf(moved.to, old) : At(q, u) = At(moved.chunks, u)
    BY <1>0, <2>2, <2>3, <2>5, CopyIsLocal
  <2> HIDE DEF q
  <2>7. Keeps(p, q)
    BY <1>0, <2>5, <2>6 DEF Keeps
  <2>8. \A i \in 1..old : At(q, Place(moved.to, i)) = At(p, Place(where, i))
    BY <1>0, <2>6, InCells DEF Keeps
  <2> QED BY <1>0, <2>1, <2>6, <2>7, <2>8 DEF Replaces
<1> QED BY <1>1, <1>2, <1>3

-----------------------------------------------------------------------------
(* Containers.                                                                *)

\* An object or an array with items of k cells: its block is in use, and large enough.
IsContainer(p, c, k) ==
    /\ c \in [size : Nat, capacity : Nat, at : Pointers]
    /\ c.size <= c.capacity /\ (c.at = Nowhere <=> c.capacity = 0)
    /\ CellsOf(c.at, c.capacity * k) \subseteq Used(p)

\* A container grows by a positive number of items.
LEMMA GrownGrows ==
    ASSUME NEW n \in Nat
    PROVE  Grown(n) \in Nat /\ Grown(n) > n
BY MemoryAssumption DEF Grown

\* With the room that WithRoom finds there is one item more, and no other block is touched.
LEMMA RoomReplaces ==
    ASSUME NEW p, IsPool(p), NEW k \in {1, 2}, NEW c, IsContainer(p, c, k)
    PROVE  LET room == WithRoom(p, c, k)
               d == OneMore(c, room.to)
           IN  /\ Replaces(p, c.at, c.capacity * k, room.chunks, d.at, d.capacity * k)
               /\ IsContainer(room.chunks, d, k)
               /\ d.at = room.to /\ d.size = c.size + 1
<1> DEFINE room == WithRoom(p, c, k)
           d == OneMore(c, room.to)
<1>0. /\ c.size \in Nat /\ c.capacity \in Nat /\ c.at \in Pointers /\ c.size <= c.capacity
      /\ c.at = Nowhere <=> c.capacity = 0
      /\ CellsOf(c.at, c.capacity * k) \subseteq Used(p)
      /\ c.capacity * k \in Nat
  <2>1. /\ c.size \in Nat /\ c.capacity \in Nat /\ c.at \in Pointers /\ c.size <= c.capacity
        /\ c.at = Nowhere <=> c.capacity = 0
        /\ CellsOf(c.at, c.capacity * k) \subseteq Used(p)
    BY DEF IsContainer
  <2> QED BY <2>1
<1>1. CASE c.size < c.capacity
  <2>1. /\ room = [to |-> c.at, chunks |-> p]
        /\ d = [size |-> c.size + 1, at |-> c.at, capacity |-> c.capacity]
    BY <1>1 DEF WithRoom, OneMore
  <2> HIDE DEF room, d
  <2>2. c.at # Nowhere
    BY <1>0, <1>1
  <2>3. \A i \in 1..(c.capacity * k) : At(p, Place(c.at, i)) = At(p, Place(c.at, i))
    OBVIOUS
  <2>4. Replaces(p, c.at, c.capacity * k, p, c.at, c.capacity * k)
    BY <1>0, <2>2, <2>3 DEF Replaces, Keeps
  <2>5. IsContainer(p, d, k)
    BY <1>0, <1>1, <2>1 DEF IsContainer
  <2> QED BY <2>1, <2>4, <2>5 DEF room, d
<1>2. CASE ~(c.size < c.capacity)
  <2> DEFINE g == Grown(c.capacity)
  <2>1. /\ room = Realloc(p, c.at, c.capacity * k, g * k)
        /\ d = [size |-> c.size + 1, at |-> room.to, capacity |-> g]
    BY <1>2 DEF WithRoom, OneMore
  <2>2. g \in Nat /\ g > c.capacity
    BY <1>0, GrownGrows
  <2> HIDE DEF room, d, g
  <2>3. g * k \in Nat /\ c.capacity * k < g * k /\ (c.capacity * k = 0 <=> c.capacity = 0)
    <3>1. CASE k = 1 BY <1>0, <2>2, <3>1
    <3>2. CASE k = 2 BY <1>0, <2>2, <3>2
    <3> QED BY <3>1, <3>2
  <2>4. Replaces(p, c.at, c.capacity * k, room.chunks, room.to, g * k)
    BY <1>0, <2>1, <2>3, ReallocReplaces
  <2>5. room.to \in Pointers /\ room.to # Nowhere /\ CellsOf(room.to, g * k) \subseteq Used(room.chunks)
    BY <2>4 DEF Replaces
  <2>6. IsContainer(room.chunks, d, k)
    BY <1>0, <1>2, <2>1, <2>2, <2>5 DEF IsContainer
  <2> QED BY <2>1, <2>4, <2>6 DEF room, d
<1> QED BY <1>1, <1>2
\* A value is the number n, or points to n in a cell that is in use and not in the blocks.
Holds(p, v, n, blocks) ==
    \/ v = <<n>>
    \/ v \in Pointers /\ Place(v, 1) \in Used(p) \ blocks /\ At(p, Place(v, 1)) = <<n>>

\* A new value, short or long, holds the number of the call in a cell that was not in use.
LEMMA NewValueHolds ==
    ASSUME NEW p, IsPool(p), calls \in Nat, NEW long \in BOOLEAN
    PROVE  LET new == NewValue(p, long)
           IN  /\ IsPool(new.chunks) /\ Keeps(p, new.chunks) /\ new.value \in Contents
               /\ Holds(new.chunks, new.value, calls, Used(p))
<1> DEFINE new == NewValue(p, long)
           block == Malloc(p, 1)
<1>0. <<calls>> \in Contents /\ \A v \in Pointers : v \in Contents
  <2>1. <<calls>> \in Seq(Int)
    OBVIOUS
  <2>2. ASSUME NEW v \in Nat \X Nat PROVE v \in Seq(Int)
    <3>1. v = <<v[1], v[2]>> /\ v[1] \in Int /\ v[2] \in Int
      OBVIOUS
    <3>2. <<v[1], v[2]>> \in Seq(Int)
      BY <3>1
    <3> QED BY <3>1, <3>2
  <2> QED BY <2>1, <2>2 DEF Contents, Pointers
<1>1. CASE ~long
  <2>1. new = [value |-> <<calls>>, chunks |-> p]
    BY <1>1 DEF NewValue
  <2> HIDE DEF new
  <2>2. Keeps(p, p)
    BY DEF Keeps
  <2> QED BY <1>0, <2>1, <2>2 DEF Holds, new
<1>2. CASE long
  <2> DEFINE q == Store(block.chunks, block.to, 1, <<calls>>)
  <2>1. new = [value |-> block.to, chunks |-> q]
    BY <1>2 DEF NewValue
  <2>2. /\ IsPool(block.chunks) /\ Keeps(p, block.chunks)
        /\ block.to \in Pointers
        /\ CellsOf(block.to, 1) \intersect Used(p) = {}
        /\ CellsOf(block.to, 1) \subseteq Used(block.chunks)
    BY MallocIsFresh
  <2> HIDE DEF block, new
  <2>3. Place(block.to, 1) \in Used(block.chunks) /\ Place(block.to, 1) \notin Used(p)
    <3>1. Place(block.to, 1) \in CellsOf(block.to, 1)
      BY <2>2, InCells
    <3> QED BY <2>2, <3>1
  <2>4. /\ IsPool(q) /\ Used(q) = Used(block.chunks) /\ At(q, Place(block.to, 1)) = <<calls>>
        /\ \A u \in Used(block.chunks) : u # Place(block.to, 1) => At(q, u) = At(block.chunks, u)
    BY <1>0, <2>2, <2>3, StoreIsLocal
  <2> HIDE DEF q
  <2>5. Keeps(p, q)
    BY <2>2, <2>3, <2>4 DEF Keeps
  <2> QED BY <1>0, <2>1, <2>2, <2>3, <2>4, <2>5 DEF Holds, new
<1> QED BY <1>1, <1>2

\* A value and room for it: what was in use stays as it is, the block of the container takes
\* nothing of it but its old block, and the value is outside of both.
HasRoom(p, c, k, value, room, d) ==
    LET block == CellsOf(d.at, d.capacity * k)
    IN  /\ IsPool(room.chunks) /\ Keeps(p, room.chunks)
        /\ IsContainer(room.chunks, d, k) /\ d.at = room.to /\ d.size = c.size + 1
        /\ block \intersect Used(p) \subseteq CellsOf(c.at, c.capacity * k)
        /\ \A i \in 1..(c.capacity * k) :
              At(room.chunks, Place(d.at, i)) = At(p, Place(c.at, i))
        /\ value \in Contents
        /\ Holds(room.chunks, value, calls, block \union Used(p))

\* A new value finds room in its container.
LEMMA ItemAdded ==
    ASSUME NEW p, IsPool(p), calls \in Nat, NEW long \in BOOLEAN,
           NEW k \in {1, 2}, NEW c, IsContainer(p, c, k)
    PROVE  LET new == NewValue(p, long)
               room == WithRoom(new.chunks, c, k)
           IN  HasRoom(p, c, k, new.value, room, OneMore(c, room.to))
<1> DEFINE new == NewValue(p, long)
           room == WithRoom(new.chunks, c, k)
           d == OneMore(c, room.to)
           block == CellsOf(d.at, d.capacity * k)
           old == CellsOf(c.at, c.capacity * k)
<1>1. /\ IsPool(new.chunks) /\ Keeps(p, new.chunks) /\ new.value \in Contents
      /\ Holds(new.chunks, new.value, calls, Used(p))
  BY NewValueHolds
<1> HIDE DEF new
<1>2. IsContainer(new.chunks, c, k) /\ old \subseteq Used(p)
  BY <1>1 DEF IsContainer, Keeps
<1>3. /\ Replaces(new.chunks, c.at, c.capacity * k, room.chunks, d.at, d.capacity * k)
      /\ IsContainer(room.chunks, d, k) /\ d.at = room.to /\ d.size = c.size + 1
  BY <1>1, <1>2, RoomReplaces
<1> HIDE DEF room, d
<1>4. /\ IsPool(room.chunks) /\ Keeps(new.chunks, room.chunks)
      /\ block \intersect Used(new.chunks) \subseteq old
      /\ \A i \in 1..(c.capacity * k) : At(room.chunks, Place(d.at, i)) = At(new.chunks, Place(c.at, i))
  BY <1>3 DEF Replaces
<1> HIDE DEF block
<1>5. Keeps(p, room.chunks)
  BY <1>1, <1>4 DEF Keeps
<1>6. block \intersect Used(p) \subseteq old
  BY <1>1, <1>4 DEF Keeps
<1>7. ASSUME NEW i \in 1..(c.capacity * k) PROVE At(room.chunks, Place(d.at, i)) = At(p, Place(c.at, i))
  <2>1. Place(c.at, i) \in old
    <3>1. c.at \in Pointers /\ c.capacity * k \in Nat
      <4>1. c.capacity \in Nat /\ c.at \in Pointers BY DEF IsContainer
      <4> QED BY <4>1
    <3> QED BY <3>1, InCells
  <2> QED BY <2>1, <1>1, <1>2, <1>4 DEF Keeps
<1>8. Holds(room.chunks, new.value, calls, block \union Used(p))
  <2>1. CASE new.value = <<calls>>
    BY <2>1 DEF Holds
  <2>2. CASE /\ new.value \in Pointers /\ Place(new.value, 1) \in Used(new.chunks) \ Used(p)
             /\ At(new.chunks, Place(new.value, 1)) = <<calls>>
    BY <2>2, <1>2, <1>4 DEF Holds, Keeps
  <2> QED BY <1>1, <2>1, <2>2 DEF Holds
<1> QED BY <1>1, <1>3, <1>4, <1>5, <1>6, <1>7, <1>8 DEF HasRoom, new, room, d, block

\* The blocks of the containers are others, and take no cell that was in use elsewhere; what
\* was in use elsewhere stays.
MovesOnly(p, q, blocks, others) ==
    /\ Used(p) \subseteq Used(q) /\ others \intersect Used(p) \subseteq blocks
    /\ \A u \in Used(p) \ blocks : At(q, u) = At(p, u)

\* So a value is still held outside of them.
LEMMA StillHeld ==
    ASSUME NEW p, NEW q, NEW blocks, NEW others, MovesOnly(p, q, blocks, others),
           NEW v, NEW n, Holds(p, v, n, blocks)
    PROVE  Holds(q, v, n, others)
BY DEF Holds, MovesOnly
-----------------------------------------------------------------------------
(* The invariant of the document.                                             *)

ObjectBlock == CellsOf(object.at, object.capacity * 2)
ArrayBlock == CellsOf(array.at, array.capacity * 1)

\* The object holds its members, and the array its elements, in cells that serve nothing else.
ObjectInv ==
    /\ IsContainer(chunks, object, 2)
    /\ members \in Seq(Names \X Nat) /\ Len(members) = object.size
    /\ \A i \in 1..object.size :
          /\ At(chunks, Place(object.at, 2 * i - 1)) = members[i][1]
          /\ Holds(chunks, At(chunks, Place(object.at, 2 * i)), members[i][2], ObjectBlock \union ArrayBlock)
ArrayInv ==
    /\ IsContainer(chunks, array, 1)
    /\ elements \in Seq(Nat) /\ Len(elements) = array.size
    /\ \A i \in 1..array.size :
          Holds(chunks, At(chunks, Place(array.at, i)), elements[i], ArrayBlock \union ObjectBlock)
DocumentInv ==
    IsPool(chunks) /\ ObjectInv /\ ArrayInv /\ ObjectBlock \intersect ArrayBlock = {}

\* What the types of a container and its items are.
LEMMA ContainerTypes ==
    ASSUME NEW p, NEW k \in {1, 2}, NEW c, IsContainer(p, c, k)
    PROVE  /\ c.size \in Nat /\ c.capacity \in Nat /\ c.at \in Pointers /\ c.size <= c.capacity
           /\ c.capacity * k \in Nat /\ CellsOf(c.at, c.capacity * k) \subseteq Used(p)
           /\ \A i \in 1..(c.size * k) : Place(c.at, i) \in CellsOf(c.at, c.capacity * k)
<1>1. /\ c.size \in Nat /\ c.capacity \in Nat /\ c.at \in Pointers /\ c.size <= c.capacity
      /\ CellsOf(c.at, c.capacity * k) \subseteq Used(p)
  BY DEF IsContainer
<1>2. c.capacity * k \in Nat /\ c.size * k \in Nat /\ c.size * k <= c.capacity * k
  <2>1. CASE k = 1 BY <1>1, <2>1
  <2>2. CASE k = 2 BY <1>1, <2>2
  <2> QED BY <2>1, <2>2
<1>3. \A i \in 1..(c.size * k) : i \in 1..(c.capacity * k)
  BY <1>2
<1> QED BY <1>1, <1>2, <1>3, InCells

\* A member more: the others stand as they were, wherever the object has moved.
LEMMA MemberAdded ==
    ASSUME DocumentInv, calls \in Nat, NEW name \in Names, NEW long \in BOOLEAN, AddMember(name, long)
    PROVE  DocumentInv'
<1> DEFINE made == NewValue(chunks, long)
           room == WithRoom(made.chunks, object, 2)
           named == Store(room.chunks, room.to, 2 * object.size + 1, name)
           q == Store(named, room.to, 2 * object.size + 2, made.value)
           s == object.size
           d == OneMore(object, room.to)
           P1 == Place(d.at, 2 * s + 1)
           P2 == Place(d.at, 2 * s + 2)
<1>1. /\ chunks' = q /\ object' = d /\ members' = Append(members, <<name, calls>>)
      /\ array' = array /\ elements' = elements
  BY DEF AddMember
<1>2. /\ IsPool(room.chunks) /\ Keeps(chunks, room.chunks)
      /\ IsContainer(room.chunks, d, 2) /\ d.at = room.to /\ d.size = s + 1
      /\ CellsOf(d.at, d.capacity * 2) \intersect Used(chunks) \subseteq ObjectBlock
      /\ \A i \in 1..(object.capacity * 2) :
            At(room.chunks, Place(d.at, i)) = At(chunks, Place(object.at, i))
      /\ made.value \in Contents
      /\ Holds(room.chunks, made.value, calls, CellsOf(d.at, d.capacity * 2) \union Used(chunks))
  <2>1. IsPool(chunks) /\ IsContainer(chunks, object, 2)
    BY DEF DocumentInv, ObjectInv
  <2>2. 2 \in {1, 2}
    OBVIOUS
  <2>3. HasRoom(chunks, object, 2, made.value, room, d)
    BY <2>1, <2>2, ItemAdded
  <2> HIDE DEF made, room, d
  <2> QED BY <2>3 DEF HasRoom, ObjectBlock
<1> HIDE DEF made, room, d
<1>3. /\ s \in Nat /\ object.capacity \in Nat /\ object.at \in Pointers /\ s <= object.capacity
      /\ ObjectBlock \subseteq Used(chunks)
  BY ContainerTypes DEF DocumentInv, ObjectInv, ObjectBlock
<1>4. /\ d.at \in Pointers /\ CellsOf(d.at, d.capacity * 2) \subseteq Used(room.chunks)
      /\ \A i \in 1..(2 * s + 2) : Place(d.at, i) \in CellsOf(d.at, d.capacity * 2)
  <2>1. 2 * s + 2 = d.size * 2
    BY <1>2, <1>3
  <2> QED BY <2>1, <1>2, ContainerTypes
<1>5. \A i, j \in Nat : Place(d.at, i) = Place(d.at, j) => i = j
  BY <1>4 DEF Place, Pointers
<1>6. /\ P1 \in CellsOf(d.at, d.capacity * 2) /\ P2 \in CellsOf(d.at, d.capacity * 2)
      /\ 2 * s + 1 \in Nat /\ 2 * s + 2 \in Nat
  BY <1>3, <1>4
<1>7. name \in Contents
  <2>1. <<-1>> \in Seq(Int) /\ <<-2>> \in Seq(Int)
    OBVIOUS
  <2> QED BY <2>1 DEF Names, Contents
<1>8. /\ IsPool(named) /\ Used(named) = Used(room.chunks) /\ At(named, P1) = name
      /\ \A u \in Used(room.chunks) : u # P1 => At(named, u) = At(room.chunks, u)
  BY <1>2, <1>4, <1>6, <1>7, StoreIsLocal
<1> HIDE DEF named
<1>9. /\ IsPool(q) /\ Used(q) = Used(named) /\ At(q, P2) = made.value
      /\ \A u \in Used(named) : u # P2 => At(q, u) = At(named, u)
  BY <1>2, <1>4, <1>6, <1>8, StoreIsLocal
<1> HIDE DEF q
<1>10. Used(chunks) \subseteq Used(q) /\ Used(q) = Used(room.chunks)
  BY <1>2, <1>8, <1>9 DEF Keeps
<1>11. P1 # P2
  BY <1>3, <1>5, <1>6
<1>12. At(q, P1) = name
  BY <1>4, <1>6, <1>8, <1>9, <1>11
<1>13. \A u \in Used(room.chunks) : u # P1 /\ u # P2 => At(q, u) = At(room.chunks, u)
  BY <1>8, <1>9
<1> HIDE DEF P1, P2
<1>14. \A u \in Used(chunks) \ CellsOf(d.at, d.capacity * 2) : At(q, u) = At(chunks, u)
  BY <1>2, <1>6, <1>13 DEF Keeps
<1>15. ASSUME NEW i \in 1..(2 * s) PROVE At(q, Place(d.at, i)) = At(chunks, Place(object.at, i))
  <2>1. i \in 1..(object.capacity * 2) /\ i \in 1..(2 * s + 2) /\ i \in Nat /\ i # 2 * s + 1 /\ i # 2 * s + 2
    BY <1>3
  <2>2. Place(d.at, i) \in Used(room.chunks) /\ Place(d.at, i) # P1 /\ Place(d.at, i) # P2
    BY <1>4, <1>5, <1>6, <2>1 DEF P1, P2
  <2> QED BY <1>2, <1>13, <2>1, <2>2
<1>16. ArrayBlock \subseteq Used(chunks) /\ ObjectBlock \intersect ArrayBlock = {}
  BY ContainerTypes DEF DocumentInv, ArrayInv, ArrayBlock
<1>17. /\ ObjectBlock' = CellsOf(d.at, d.capacity * 2) /\ ArrayBlock' = ArrayBlock
       /\ ObjectBlock' \intersect ArrayBlock' = {}
  BY <1>1, <1>2, <1>16 DEF ObjectBlock, ArrayBlock
<1>18. \A v, n : Holds(chunks, v, n, ObjectBlock \union ArrayBlock)
                   => Holds(q, v, n, ObjectBlock' \union ArrayBlock')
  <2>1. SUFFICES ASSUME NEW v, NEW n, Holds(chunks, v, n, ObjectBlock \union ArrayBlock)
        PROVE  Holds(q, v, n, ObjectBlock' \union ArrayBlock')
    OBVIOUS
  <2>2. MovesOnly(chunks, q, ObjectBlock \union ArrayBlock, ObjectBlock' \union ArrayBlock')
    BY <1>2, <1>10, <1>14, <1>17 DEF MovesOnly
  <2> QED BY <2>1, <2>2, StillHeld
<1>19. Holds(q, made.value, calls, ObjectBlock' \union ArrayBlock')
  BY <1>2, <1>6, <1>10, <1>13, <1>16, <1>17 DEF Holds
<1>20. ObjectInv'
  <2>1. IsContainer(q, d, 2)
    BY <1>2, <1>10 DEF IsContainer
  <2>2. /\ members' \in Seq(Names \X Nat) /\ Len(members') = s + 1
        /\ members'[s + 1] = <<name, calls>> /\ \A i \in 1..s : members'[i] = members[i]
    <3>1. members \in Seq(Names \X Nat) /\ Len(members) = s /\ <<name, calls>> \in Names \X Nat
      BY DEF DocumentInv, ObjectInv
    <3> QED BY <1>1, <3>1
  <2>3. ASSUME NEW i \in 1..(s + 1)
        PROVE  /\ At(q, Place(d.at, 2 * i - 1)) = members'[i][1]
               /\ Holds(q, At(q, Place(d.at, 2 * i)), members'[i][2], ObjectBlock' \union ArrayBlock')
    <3>1. CASE i = s + 1
      <4>1. Place(d.at, 2 * i - 1) = P1 /\ Place(d.at, 2 * i) = P2
        <5>1. 2 * i - 1 = 2 * s + 1 /\ 2 * i = 2 * s + 2
          BY <1>3, <3>1
        <5> QED BY <5>1 DEF P1, P2
      <4> QED BY <3>1, <4>1, <2>2, <1>9, <1>12, <1>19 DEF P2
    <3>2. CASE i # s + 1
      <4>1. i \in 1..s /\ 2 * i - 1 \in 1..(2 * s) /\ 2 * i \in 1..(2 * s)
        BY <1>3, <3>2
      <4>2. /\ At(q, Place(d.at, 2 * i - 1)) = At(chunks, Place(object.at, 2 * i - 1))
            /\ At(q, Place(d.at, 2 * i)) = At(chunks, Place(object.at, 2 * i))
        BY <1>15, <4>1
      <4>3. /\ At(chunks, Place(object.at, 2 * i - 1)) = members[i][1]
            /\ Holds(chunks, At(chunks, Place(object.at, 2 * i)), members[i][2], ObjectBlock \union ArrayBlock)
        BY <4>1 DEF DocumentInv, ObjectInv
      <4> QED BY <4>1, <4>2, <4>3, <2>2, <1>18
    <3> QED BY <3>1, <3>2
  <2> QED BY <1>1, <1>2, <2>1, <2>2, <2>3 DEF ObjectInv
<1>21. ArrayInv'
  <2>1. IsContainer(q, array, 1)
    BY <1>10 DEF DocumentInv, ArrayInv, IsContainer
  <2>2. ASSUME NEW i \in 1..array.size
        PROVE  Holds(q, At(q, Place(array.at, i)), elements[i], ArrayBlock' \union ObjectBlock')
    <3>1. Place(array.at, i) \in ArrayBlock
      <4>1. /\ \A j \in 1..(array.size * 1) : Place(array.at, j) \in CellsOf(array.at, array.capacity * 1)
            /\ array.size \in Nat
        BY ContainerTypes DEF DocumentInv, ArrayInv
      <4> QED BY <4>1 DEF ArrayBlock
    <3>2. At(q, Place(array.at, i)) = At(chunks, Place(array.at, i))
      BY <3>1, <1>14, <1>16, <1>17
    <3>3. Holds(chunks, At(chunks, Place(array.at, i)), elements[i], ObjectBlock \union ArrayBlock)
      <4>1. ArrayBlock \union ObjectBlock = ObjectBlock \union ArrayBlock
        OBVIOUS
      <4> QED BY <4>1 DEF DocumentInv, ArrayInv
    <3>4. ArrayBlock' \union ObjectBlock' = ObjectBlock' \union ArrayBlock'
      OBVIOUS
    <3> QED BY <3>2, <3>3, <3>4, <1>18
  <2> QED BY <1>1, <2>1, <2>2 DEF DocumentInv, ArrayInv
<1> QED BY <1>1, <1>9, <1>17, <1>20, <1>21 DEF DocumentInv
\* The same for an element more.
LEMMA ElementAdded ==
    ASSUME DocumentInv, calls \in Nat, NEW long \in BOOLEAN, PushBack(long)
    PROVE  DocumentInv'
<1> DEFINE made == NewValue(chunks, long)
           room == WithRoom(made.chunks, array, 1)
           q == Store(room.chunks, room.to, array.size + 1, made.value)
           s == array.size
           d == OneMore(array, room.to)
           P == Place(d.at, s + 1)
<1>1. /\ chunks' = q /\ array' = d /\ elements' = Append(elements, calls)
      /\ object' = object /\ members' = members
  BY DEF PushBack
<1>2. /\ IsPool(room.chunks) /\ Keeps(chunks, room.chunks)
      /\ IsContainer(room.chunks, d, 1) /\ d.at = room.to /\ d.size = s + 1
      /\ CellsOf(d.at, d.capacity * 1) \intersect Used(chunks) \subseteq ArrayBlock
      /\ \A i \in 1..(array.capacity * 1) :
            At(room.chunks, Place(d.at, i)) = At(chunks, Place(array.at, i))
      /\ made.value \in Contents
      /\ Holds(room.chunks, made.value, calls, CellsOf(d.at, d.capacity * 1) \union Used(chunks))
  <2>1. IsPool(chunks) /\ IsContainer(chunks, array, 1)
    BY DEF DocumentInv, ArrayInv
  <2>2. 1 \in {1, 2}
    OBVIOUS
  <2>3. HasRoom(chunks, array, 1, made.value, room, d)
    BY <2>1, <2>2, ItemAdded
  <2> HIDE DEF made, room, d
  <2> QED BY <2>3 DEF HasRoom, ArrayBlock
<1> HIDE DEF made, room, d
<1>3. /\ s \in Nat /\ array.capacity \in Nat /\ s <= array.capacity
      /\ ArrayBlock \subseteq Used(chunks)
  BY ContainerTypes DEF DocumentInv, ArrayInv, ArrayBlock
<1>4. /\ d.at \in Pointers /\ CellsOf(d.at, d.capacity * 1) \subseteq Used(room.chunks)
      /\ \A i \in 1..(s + 1) : Place(d.at, i) \in CellsOf(d.at, d.capacity * 1)
  <2>1. s + 1 = d.size * 1
    BY <1>2, <1>3
  <2> QED BY <2>1, <1>2, ContainerTypes
<1>5. \A i, j \in Nat : Place(d.at, i) = Place(d.at, j) => i = j
  BY <1>4 DEF Place, Pointers
<1>6. P \in CellsOf(d.at, d.capacity * 1) /\ s + 1 \in Nat
  BY <1>3, <1>4
<1>7. /\ IsPool(q) /\ Used(q) = Used(room.chunks) /\ At(q, P) = made.value
      /\ \A u \in Used(room.chunks) : u # P => At(q, u) = At(room.chunks, u)
  BY <1>2, <1>4, <1>6, StoreIsLocal
<1> HIDE DEF q
<1>8. Used(chunks) \subseteq Used(q)
  BY <1>2, <1>7 DEF Keeps
<1> HIDE DEF P
<1>9. \A u \in Used(chunks) \ CellsOf(d.at, d.capacity * 1) : At(q, u) = At(chunks, u)
  BY <1>2, <1>6, <1>7 DEF Keeps
<1>10. ASSUME NEW i \in 1..s PROVE At(q, Place(d.at, i)) = At(chunks, Place(array.at, i))
  <2>1. i \in 1..(array.capacity * 1) /\ i \in 1..(s + 1) /\ i \in Nat /\ i # s + 1
    BY <1>3
  <2>2. Place(d.at, i) \in Used(room.chunks) /\ Place(d.at, i) # P
    BY <1>4, <1>5, <1>6, <2>1 DEF P
  <2> QED BY <1>2, <1>7, <2>1, <2>2
<1>11. ObjectBlock \subseteq Used(chunks) /\ ObjectBlock \intersect ArrayBlock = {}
  BY ContainerTypes DEF DocumentInv, ObjectInv, ObjectBlock
<1>12. /\ ArrayBlock' = CellsOf(d.at, d.capacity * 1) /\ ObjectBlock' = ObjectBlock
       /\ ObjectBlock' \intersect ArrayBlock' = {}
  BY <1>1, <1>2, <1>11 DEF ObjectBlock, ArrayBlock
<1>13. \A v, n : Holds(chunks, v, n, ObjectBlock \union ArrayBlock)
                   => Holds(q, v, n, ObjectBlock' \union ArrayBlock')
  <2>1. SUFFICES ASSUME NEW v, NEW n, Holds(chunks, v, n, ObjectBlock \union ArrayBlock)
        PROVE  Holds(q, v, n, ObjectBlock' \union ArrayBlock')
    OBVIOUS
  <2>2. MovesOnly(chunks, q, ObjectBlock \union ArrayBlock, ObjectBlock' \union ArrayBlock')
    BY <1>2, <1>8, <1>9, <1>12 DEF MovesOnly
  <2> QED BY <2>1, <2>2, StillHeld
<1>14. Holds(q, made.value, calls, ObjectBlock' \union ArrayBlock')
  BY <1>2, <1>6, <1>7, <1>11, <1>12 DEF Holds
<1>15. ArrayInv'
  <2>1. IsContainer(q, d, 1)
    BY <1>2, <1>7 DEF IsContainer
  <2>2. /\ elements' \in Seq(Nat) /\ Len(elements') = s + 1
        /\ elements'[s + 1] = calls /\ \A i \in 1..s : elements'[i] = elements[i]
    <3>1. elements \in Seq(Nat) /\ Len(elements) = s
      BY DEF DocumentInv, ArrayInv
    <3> QED BY <1>1, <3>1
  <2>3. ArrayBlock' \union ObjectBlock' = ObjectBlock' \union ArrayBlock'
    OBVIOUS
  <2>4. ASSUME NEW i \in 1..(s + 1)
        PROVE  Holds(q, At(q, Place(d.at, i)), elements'[i], ObjectBlock' \union ArrayBlock')
    <3>1. CASE i = s + 1
      BY <3>1, <2>2, <1>7, <1>14 DEF P
    <3>2. CASE i # s + 1
      <4>1. i \in 1..s
        BY <1>3, <3>2
      <4>2. At(q, Place(d.at, i)) = At(chunks, Place(array.at, i))
        BY <1>10, <4>1
      <4>3. Holds(chunks, At(chunks, Place(array.at, i)), elements[i], ObjectBlock \union ArrayBlock)
        <5>1. ArrayBlock \union ObjectBlock = ObjectBlock \union ArrayBlock
          OBVIOUS
        <5> QED BY <4>1, <5>1 DEF DocumentInv, ArrayInv
      <4> QED BY <4>1, <4>2, <4>3, <2>2, <1>13
    <3> QED BY <3>1, <3>2
  <2> QED BY <1>1, <1>2, <2>1, <2>2, <2>3, <2>4 DEF ArrayInv
<1>16. ObjectInv'
  <2>1. IsContainer(q, object, 2)
    BY <1>8 DEF DocumentInv, ObjectInv, IsContainer
  <2>2. ASSUME NEW i \in 1..object.size
        PROVE  /\ At(q, Place(object.at, 2 * i - 1)) = members[i][1]
               /\ Holds(q, At(q, Place(object.at, 2 * i)), members[i][2], ObjectBlock' \union ArrayBlock')
    <3>1. Place(object.at, 2 * i - 1) \in ObjectBlock /\ Place(object.at, 2 * i) \in ObjectBlock
      <4>1. /\ \A j \in 1..(object.size * 2) : Place(object.at, j) \in CellsOf(object.at, object.capacity * 2)
            /\ object.size \in Nat
        BY ContainerTypes DEF DocumentInv, ObjectInv
      <4>2. 2 * i - 1 \in 1..(object.size * 2) /\ 2 * i \in 1..(object.size * 2)
        BY <4>1
      <4> QED BY <4>1, <4>2 DEF ObjectBlock
    <3>2. /\ At(q, Place(object.at, 2 * i - 1)) = At(chunks, Place(object.at, 2 * i - 1))
          /\ At(q, Place(object.at, 2 * i)) = At(chunks, Place(object.at, 2 * i))
      BY <3>1, <1>9, <1>11, <1>12
    <3>3. /\ At(chunks, Place(object.at, 2 * i - 1)) = members[i][1]
          /\ Holds(chunks, At(chunks, Place(object.at, 2 * i)), members[i][2], ObjectBlock \union ArrayBlock)
      BY DEF DocumentInv, ObjectInv
    <3> QED BY <3>2, <3>3, <1>13
  <2> QED BY <1>1, <2>1, <2>2 DEF DocumentInv, ObjectInv
<1> QED BY <1>1, <1>7, <1>12, <1>15, <1>16 DEF DocumentInv

\* An object without members keeps its block, and the others what they hold.
LEMMA MembersRemoved ==
    ASSUME DocumentInv, RemoveAllMembers
    PROVE  DocumentInv'
<1>1. /\ object' = [object EXCEPT !.size = 0] /\ members' = <<>>
      /\ chunks' = chunks /\ array' = array /\ elements' = elements
  BY DEF RemoveAllMembers
<1>2. object \in [size : Nat, capacity : Nat, at : Pointers] /\ IsContainer(chunks, object, 2)
  BY DEF DocumentInv, ObjectInv, IsContainer
<1>3. /\ object' \in [size : Nat, capacity : Nat, at : Pointers]
      /\ object'.size = 0 /\ object'.capacity = object.capacity /\ object'.at = object.at
  BY <1>1, <1>2
<1>4. IsContainer(chunks', object', 2)
  BY <1>1, <1>2, <1>3 DEF IsContainer
<1>5. ObjectBlock' = ObjectBlock /\ ArrayBlock' = ArrayBlock
  BY <1>1, <1>3 DEF ObjectBlock, ArrayBlock
<1>6. ObjectInv'
  BY <1>1, <1>3, <1>4 DEF ObjectInv
<1>7. ArrayInv'
  BY <1>1, <1>5 DEF DocumentInv, ArrayInv
<1> QED BY <1>1, <1>5, <1>6, <1>7 DEF DocumentInv
-----------------------------------------------------------------------------
(* The buffer.                                                                *)

\* The cells of the buffer up to its top are what was put.
BufferInv ==
    /\ buffer \in [top : Nat, capacity : Nat, cells : Seq(Int)] /\ text \in Seq(Int)
    /\ Len(buffer.cells) = buffer.capacity /\ buffer.top <= buffer.capacity
    /\ Len(text) = buffer.top /\ \A i \in 1..buffer.top : buffer.cells[i] = text[i]

\* A buffer with room for so many characters more, and the same before its top.
HasSpace(b, r, many) ==
    /\ r \in [top : Nat, capacity : Nat, cells : Seq(Int)] /\ r.top = b.top
    /\ Len(r.cells) = r.capacity /\ r.top + many <= r.capacity
    /\ \A i \in 1..b.top : r.cells[i] = b.cells[i]

\* Reserve finds the space.
LEMMA ReservedHasSpace ==
    ASSUME BufferInv, NEW many \in Nat
    PROVE  HasSpace(buffer, Reserved(buffer, many), many)
<1> DEFINE wider == IF buffer.capacity = 0 THEN BufferCapacity ELSE buffer.capacity + (buffer.capacity + 1) \div 2
           needed == buffer.top + many
           capacity == IF wider < needed THEN needed ELSE wider
           new == [i \in 1..capacity |-> IF i <= buffer.capacity THEN buffer.cells[i] ELSE FreeByte]
           r == [buffer EXCEPT !.capacity = capacity, !.cells = new]
<1>1. /\ buffer \in [top : Nat, capacity : Nat, cells : Seq(Int)] /\ buffer.top <= buffer.capacity
      /\ Len(buffer.cells) = buffer.capacity
      /\ buffer.top \in Nat /\ buffer.capacity \in Nat /\ buffer.cells \in Seq(Int)
  BY DEF BufferInv
<1>2. CASE needed <= buffer.capacity
  <2>1. Reserved(buffer, many) = buffer
    BY <1>2 DEF Reserved
  <2> QED BY <1>1, <1>2, <2>1 DEF HasSpace
<1>3. CASE ~(needed <= buffer.capacity)
  <2>1. Reserved(buffer, many) = r
    BY <1>3 DEF Reserved
  <2>2. capacity \in Nat /\ capacity >= needed /\ capacity > buffer.capacity
    <3>1. wider \in Nat
      BY <1>1, MemoryAssumption
    <3> HIDE DEF wider
    <3> QED BY <1>1, <1>3, <3>1
  <2> HIDE DEF capacity
  <2>3. new \in Seq(Int) /\ Len(new) = capacity /\ \A i \in 1..buffer.top : new[i] = buffer.cells[i]
    <3>1. \A i \in 1..capacity : new[i] \in Int
      BY <1>1, <2>2 DEF FreeByte
    <3>2. new \in [1..capacity -> Int]
      BY <3>1
    <3>3. \A i \in 1..buffer.top : new[i] = buffer.cells[i]
      BY <1>1, <2>2
    <3> HIDE DEF new
    <3> QED BY <2>2, <3>2, <3>3
  <2> HIDE DEF new
  <2>4. /\ r \in [top : Nat, capacity : Nat, cells : Seq(Int)]
        /\ r.top = buffer.top /\ r.capacity = capacity /\ r.cells = new
    BY <1>1, <2>2, <2>3
  <2> HIDE DEF r
  <2> QED BY <1>1, <2>1, <2>2, <2>3, <2>4 DEF HasSpace
<1> QED BY <1>2, <1>3

\* Characters that are put stand behind the others.
LEMMA PutBehind ==
    ASSUME NEW b, NEW r, NEW s \in Seq(Int), HasSpace(b, r, Len(s))
    PROVE  LET w == PutUnsafe(r, s)
           IN  /\ w \in [top : Nat, capacity : Nat, cells : Seq(Int)] /\ w.top = b.top + Len(s)
               /\ Len(w.cells) = w.capacity /\ w.top <= w.capacity
               /\ \A i \in 1..b.top : w.cells[i] = b.cells[i]
               /\ \A i \in 1..Len(s) : w.cells[b.top + i] = s[i]
<1> DEFINE new == [i \in DOMAIN r.cells |-> IF i - r.top \in 1..Len(s) THEN s[i - r.top] ELSE r.cells[i]]
           w == PutUnsafe(r, s)
<1>1. /\ r \in [top : Nat, capacity : Nat, cells : Seq(Int)] /\ r.top = b.top
      /\ Len(r.cells) = r.capacity /\ r.top + Len(s) <= r.capacity
      /\ \A i \in 1..b.top : r.cells[i] = b.cells[i]
      /\ r.top \in Nat /\ r.capacity \in Nat /\ r.cells \in Seq(Int) /\ Len(s) \in Nat
      /\ DOMAIN r.cells = 1..r.capacity
  BY DEF HasSpace
<1>2. w = [r EXCEPT !.top = @ + Len(s), !.cells = new]
  BY DEF PutUnsafe
<1>3. /\ new \in Seq(Int) /\ Len(new) = r.capacity
      /\ \A i \in 1..r.top : new[i] = r.cells[i]
      /\ \A i \in 1..Len(s) : new[r.top + i] = s[i]
  <2>1. ASSUME NEW i \in 1..r.capacity
        PROVE  /\ i - r.top \in 1..Len(s) => new[i] = s[i - r.top]
               /\ i - r.top \notin 1..Len(s) => new[i] = r.cells[i]
    BY <1>1
  <2>2. DOMAIN new = 1..r.capacity /\ new = [i \in 1..r.capacity |-> new[i]]
    BY <1>1
  <2> HIDE DEF new
  <2>3. ASSUME NEW i \in 1..r.capacity PROVE new[i] \in Int
    <3>1. CASE i - r.top \in 1..Len(s)
      <4>1. s[i - r.top] \in Int
        BY <3>1
      <4> QED BY <4>1, <3>1, <2>1
    <3>2. CASE i - r.top \notin 1..Len(s)
      <4>1. r.cells[i] \in Int
        BY <1>1
      <4> QED BY <4>1, <3>2, <2>1
    <3> QED BY <3>1, <3>2
  <2>4. new \in [1..r.capacity -> Int]
    BY <2>2, <2>3
  <2>5. new \in Seq(Int) /\ Len(new) = r.capacity
    <3>1. r.capacity \in Nat
      BY <1>1
    <3> QED BY <2>4, <3>1, SMTT(30)
  <2>6. ASSUME NEW i \in 1..r.top PROVE new[i] = r.cells[i]
    <3>1. i \in 1..r.capacity /\ i - r.top \notin 1..Len(s)
      BY <1>1
    <3> QED BY <2>1, <3>1
  <2>7. ASSUME NEW i \in 1..Len(s) PROVE new[r.top + i] = s[i]
    <3>1. r.top + i \in 1..r.capacity /\ (r.top + i) - r.top = i
      BY <1>1
    <3> QED BY <2>1, <3>1
  <2> QED BY <2>5, <2>6, <2>7
<1> HIDE DEF new, w
<1>4. /\ w \in [top : Nat, capacity : Nat, cells : Seq(Int)]
      /\ w.top = r.top + Len(s) /\ w.capacity = r.capacity /\ w.cells = new
  <2>1. r \in [top : Nat, capacity : Nat, cells : Seq(Int)] /\ r.top + Len(s) \in Nat
    BY <1>1
  <2>2. new \in Seq(Int)
    BY <1>3
  <2> QED BY <2>1, <2>2, <1>2
<1> QED BY <1>1, <1>3, <1>4 DEF w

\* What is put into the reserved space is what the text has more.
LEMMA TextPut ==
    ASSUME BufferInv, NEW s \in Seq(Int), NEW many \in Nat, Len(s) <= many,
           buffer' = PutUnsafe(Reserved(buffer, many), s), text' = text \o s
    PROVE  BufferInv'
<1> DEFINE r == Reserved(buffer, many)
<1>1. HasSpace(buffer, r, Len(s))
  <2>1. HasSpace(buffer, r, many)
    BY ReservedHasSpace
  <2> QED BY <2>1 DEF HasSpace
<1>2. /\ buffer' \in [top : Nat, capacity : Nat, cells : Seq(Int)]
      /\ buffer'.top = buffer.top + Len(s)
      /\ Len(buffer'.cells) = buffer'.capacity /\ buffer'.top <= buffer'.capacity
      /\ \A i \in 1..buffer.top : buffer'.cells[i] = buffer.cells[i]
      /\ \A i \in 1..Len(s) : buffer'.cells[buffer.top + i] = s[i]
  BY <1>1, PutBehind
<1>3. /\ buffer.top \in Nat /\ text \in Seq(Int) /\ Len(text) = buffer.top
      /\ \A i \in 1..buffer.top : buffer.cells[i] = text[i]
  BY DEF BufferInv
<1>4. /\ text' \in Seq(Int) /\ Len(text') = buffer.top + Len(s)
      /\ \A i \in 1..(buffer.top + Len(s)) :
            text'[i] = IF i <= buffer.top THEN text[i] ELSE s[i - buffer.top]
  <2>1. /\ text \o s \in Seq(Int) /\ Len(text \o s) = Len(text) + Len(s)
        /\ \A i \in 1..(Len(text) + Len(s)) :
              (text \o s)[i] = IF i <= Len(text) THEN text[i] ELSE s[i - Len(text)]
    BY <1>3, ConcatProperties, Zenon
  <2> QED BY <1>3, <2>1
<1>5. ASSUME NEW i \in 1..(buffer.top + Len(s)) PROVE buffer'.cells[i] = text'[i]
  <2>1. CASE i <= buffer.top
    <3>1. i \in 1..buffer.top
      BY <1>3, <2>1
    <3> QED BY <1>2, <1>3, <1>4, <2>1, <3>1
  <2>2. CASE ~(i <= buffer.top)
    <3>1. i - buffer.top \in 1..Len(s) /\ buffer.top + (i - buffer.top) = i
      BY <1>3, <2>2
    <3>2. buffer'.cells[buffer.top + (i - buffer.top)] = s[i - buffer.top]
      BY <1>2, <3>1
    <3> QED BY <1>4, <2>2, <3>1, <3>2
  <2> QED BY <2>1, <2>2
<1> QED BY <1>2, <1>4, <1>5 DEF BufferInv

\* The terminator stands where the next character is put.
LEMMA TerminatorPut ==
    ASSUME BufferInv, GetString
    PROVE  BufferInv'
<1> DEFINE r == Reserved(buffer, 1)
           s == <<Terminator>>
           w == PutUnsafe(r, s)
<1>1. /\ w \in [top : Nat, capacity : Nat, cells : Seq(Int)] /\ w.top = buffer.top + 1
      /\ Len(w.cells) = w.capacity /\ w.top <= w.capacity
      /\ \A i \in 1..buffer.top : w.cells[i] = buffer.cells[i]
  <2>1. s \in Seq(Int) /\ Len(s) = 1
    BY DEF Terminator
  <2>2. HasSpace(buffer, r, 1)
    BY ReservedHasSpace
  <2>3. HasSpace(buffer, r, Len(s))
    BY <2>1, <2>2
  <2> HIDE DEF r, s
  <2>4. s \in Seq(Int)
    BY <2>1
  <2>5. /\ w \in [top : Nat, capacity : Nat, cells : Seq(Int)] /\ w.top = buffer.top + Len(s)
        /\ Len(w.cells) = w.capacity /\ w.top <= w.capacity
        /\ \A i \in 1..buffer.top : w.cells[i] = buffer.cells[i]
    BY <2>3, <2>4, PutBehind
  <2> QED BY <2>1, <2>5
<1>2. buffer' = [w EXCEPT !.top = @ - 1] /\ text' = text
  BY DEF GetString, Put
<1> HIDE DEF w
<1>3. buffer.top \in Nat
  BY DEF BufferInv
<1>4. /\ buffer' \in [top : Nat, capacity : Nat, cells : Seq(Int)]
      /\ buffer'.top = buffer.top /\ buffer'.capacity = w.capacity /\ buffer'.cells = w.cells
  BY <1>1, <1>2, <1>3
<1>5. /\ text \in Seq(Int) /\ Len(text) = buffer.top
      /\ \A i \in 1..buffer.top : buffer.cells[i] = text[i]
  BY DEF BufferInv
<1>6. buffer'.top <= buffer'.capacity
  BY <1>1, <1>3, <1>4
<1>7. \A i \in 1..buffer'.top : buffer'.cells[i] = text'[i]
  BY <1>1, <1>2, <1>4, <1>5
<1>8. Len(buffer'.cells) = buffer'.capacity /\ Len(text') = buffer'.top /\ text' \in Seq(Int)
  BY <1>1, <1>2, <1>4, <1>5
<1> QED BY <1>4, <1>6, <1>7, <1>8 DEF BufferInv
-----------------------------------------------------------------------------
(* The memory is true.                                                        *)

MemoryInv == calls \in Nat /\ DocumentInv /\ BufferInv

\* At the start everything is empty.
LEMMA MemoryEmpty == MemoryInit => MemoryInv
<1> SUFFICES ASSUME MemoryInit PROVE MemoryInv
  OBVIOUS
<1>1. /\ chunks = <<>> /\ object = Empty /\ array = Empty /\ members = <<>> /\ elements = <<>>
      /\ buffer = [top |-> 0, capacity |-> 0, cells |-> <<>>] /\ text = <<>> /\ calls = 0
  BY DEF MemoryInit
<1>2. IsPool(chunks)
  BY <1>1 DEF IsPool
<1>3. /\ Empty \in [size : Nat, capacity : Nat, at : Pointers]
      /\ Empty.size = 0 /\ Empty.capacity = 0 /\ Empty.at = Nowhere
  BY DEF Empty, Nowhere, Pointers
<1>4. CellsOf(Empty.at, Empty.capacity * 1) = {} /\ CellsOf(Empty.at, Empty.capacity * 2) = {}
  BY <1>3 DEF CellsOf
<1>5. IsContainer(chunks, Empty, 1) /\ IsContainer(chunks, Empty, 2)
  BY <1>3, <1>4 DEF IsContainer
<1>6. ObjectInv /\ ArrayInv
  BY <1>1, <1>3, <1>5 DEF ObjectInv, ArrayInv
<1>7. ObjectBlock \intersect ArrayBlock = {}
  BY <1>1, <1>4 DEF ObjectBlock, ArrayBlock
<1>8. BufferInv
  BY <1>1 DEF BufferInv
<1> QED BY <1>1, <1>2, <1>6, <1>7, <1>8 DEF MemoryInv, DocumentInv

\* What leaves the document alone keeps its invariant, and so for the buffer.
LEMMA DocumentStays ==
    ASSUME DocumentInv, UNCHANGED <<chunks, object, array, members, elements>>
    PROVE  DocumentInv'
BY DEF DocumentInv, ObjectInv, ArrayInv, ObjectBlock, ArrayBlock

LEMMA BufferStays ==
    ASSUME BufferInv, UNCHANGED <<buffer, text>>
    PROVE  BufferInv'
BY DEF BufferInv

\* Every call keeps the invariant.
LEMMA MemoryStep == MemoryInv /\ [MemoryNext]_memoryVars => MemoryInv'
<1> SUFFICES ASSUME MemoryInv, [MemoryNext]_memoryVars PROVE MemoryInv'
  OBVIOUS
<1>0. calls \in Nat /\ DocumentInv /\ BufferInv
  BY DEF MemoryInv
<1>1. CASE UNCHANGED memoryVars
  BY <1>0, <1>1, DocumentStays, BufferStays DEF memoryVars, MemoryInv
<1>2. CASE MemoryNext
  <2>0. calls' \in Nat
    BY <1>0, <1>2 DEF MemoryNext
  <2>1. CASE RemoveAllMembers
    <3>1. UNCHANGED <<buffer, text>>
      BY <2>1 DEF RemoveAllMembers
    <3> QED BY <1>0, <2>0, <2>1, <3>1, MembersRemoved, BufferStays DEF MemoryInv
  <2>2. ASSUME NEW long \in BOOLEAN, PushBack(long) PROVE MemoryInv'
    <3>1. UNCHANGED <<buffer, text>>
      BY <2>2 DEF PushBack
    <3>2. DocumentInv'
      BY <1>0, <2>2, ElementAdded
    <3> QED BY <1>0, <2>0, <3>1, <3>2, BufferStays DEF MemoryInv
  <2>3. ASSUME NEW long \in BOOLEAN, NEW name \in Names, AddMember(name, long) PROVE MemoryInv'
    <3>1. UNCHANGED <<buffer, text>>
      BY <2>3 DEF AddMember
    <3>2. DocumentInv'
      BY <1>0, <2>3, MemberAdded
    <3> QED BY <1>0, <2>0, <3>1, <3>2, BufferStays DEF MemoryInv
  <2>4. CASE WriteToken
    <3> DEFINE s == <<calls>>
    <3>1. /\ buffer' = PutUnsafe(Reserved(buffer, 1), s) /\ text' = Append(text, calls)
          /\ UNCHANGED <<chunks, object, array, members, elements>>
      BY <2>4 DEF WriteToken, Put
    <3>2. s \in Seq(Int) /\ Len(s) = 1 /\ text' = text \o s
      BY <1>0, <3>1 DEF BufferInv
    <3> HIDE DEF s
    <3>3. BufferInv'
      <4>1. 1 \in Nat /\ Len(s) <= 1
        BY <3>2
      <4> QED BY <1>0, <3>1, <3>2, <4>1, TextPut
    <3> QED BY <1>0, <2>0, <3>1, <3>3, DocumentStays DEF MemoryInv
  <2>5. CASE GetString
    <3>1. UNCHANGED <<chunks, object, array, members, elements>>
      BY <2>5 DEF GetString
    <3> QED BY <1>0, <2>0, <2>5, <3>1, TerminatorPut, DocumentStays DEF MemoryInv
  <2>6. ASSUME NEW length \in 0..2, WriteString(length) PROVE MemoryInv'
    <3> DEFINE s == [i \in 1..length |-> calls]
    <3>1. /\ buffer' = PutUnsafe(Reserved(buffer, 2 + 6 * length), s) /\ text' = text \o s
          /\ UNCHANGED <<chunks, object, array, members, elements>>
      BY <2>6 DEF WriteString
    <3>2. s \in Seq(Int) /\ Len(s) = length
      BY <1>0
    <3> HIDE DEF s
    <3>3. 2 + 6 * length \in Nat /\ Len(s) <= 2 + 6 * length
      BY <3>2
    <3>4. BufferInv'
      BY <1>0, <3>1, <3>2, <3>3, TextPut
    <3> QED BY <1>0, <2>0, <3>1, <3>4, DocumentStays DEF MemoryInv
  <2> QED BY <1>2, <2>1, <2>2, <2>3, <2>4, <2>5, <2>6 DEF MemoryNext
<1> QED BY <1>1, <1>2

\* A set of numbers that is not empty has a least one.
LEMMA FirstOf ==
    ASSUME NEW found \in SUBSET Nat, found # {}
    PROVE  \E i \in found : \A j \in found : i <= j
<1> DEFINE R == OpToRel(<, Nat)
<1>1. IsWellFoundedOn(R, Nat)
  BY NatLessThanWellFounded
<1>2. \A i, j \in found : ~(<<j, i>> \in R) => i <= j
  BY DEF OpToRel
<1> HIDE DEF R
<1>3. \E i \in found : \A j \in found : ~(<<j, i>> \in R)
  BY <1>1, WFMin, Zenon
<1> QED BY <1>2, <1>3, Zenon

\* FindMember finds the first member of the name.
LEMMA FirstIsFound ==
    ASSUME ObjectInv, NEW name \in Names
    PROVE  LET i == FindMember(name)
           IN  /\ i <= Len(members) => members[i][1] = name
               /\ \A j \in 1..Len(members) : j < i => members[j][1] # name
<1> DEFINE found == {i \in 1..object.size : Cell(chunks, object.at, 2 * i - 1) = name}
           i == FindMember(name)
<1>1. object.size \in Nat /\ Len(members) = object.size
  BY ContainerTypes DEF ObjectInv
<1>2. \A j \in 1..object.size : j \in found <=> members[j][1] = name
  BY DEF ObjectInv, Cell, At, Place
<1>3. found \in SUBSET Nat /\ found \subseteq 1..object.size
  BY <1>1
<1>4. i = IF found = {} THEN object.size + 1 ELSE CHOOSE k \in found : \A j \in found : k <= j
  BY DEF FindMember
<1> HIDE DEF found
<1> SUFFICES /\ i <= Len(members) => members[i][1] = name
             /\ \A j \in 1..Len(members) : j < i => members[j][1] # name
  OBVIOUS
<1> HIDE DEF i
<1>5. CASE found = {}
  BY <1>1, <1>2, <1>4, <1>5
<1>6. CASE found # {}
  <2>1. i \in found /\ \A j \in found : i <= j
    <3>1. \E k \in found : \A j \in found : k <= j
      BY <1>3, <1>6, FirstOf
    <3>2. i = CHOOSE k \in found : \A j \in found : k <= j
      BY <1>4, <1>6
    <3> QED BY <3>1, <3>2, Zenon
  <2>2. i \in 1..object.size
    BY <1>3, <2>1
  <2> QED BY <1>1, <1>2, <2>1, <2>2
<1> QED BY <1>5, <1>6

\* What holds a number shows it, and if it is a pointer its cell is apart.
LEMMA HeldIsShown ==
    ASSUME NEW p, NEW v, NEW n, NEW blocks, Holds(p, v, n, blocks)
    PROVE  Shown(p, v) = n /\ (Len(v) = 2 => <<v[1], v[2] + 1>> \notin blocks)
<1>1. CASE v = <<n>>
  <2>1. Len(v) = 1 /\ v[1] = n
    BY <1>1
  <2> QED BY <2>1 DEF Shown
<1>2. CASE v \in Pointers /\ Place(v, 1) \in Used(p) \ blocks /\ At(p, Place(v, 1)) = <<n>>
  <2>1. Len(v) = 2
    <3>1. v = <<v[1], v[2]>>
      BY <1>2 DEF Pointers
    <3> QED BY <3>1
  <2>2. Cell(p, v, 1) = <<n>> /\ <<v[1], v[2] + 1>> \notin blocks
    BY <1>2 DEF Cell, At, Place
  <2> QED BY <2>1, <2>2 DEF Shown
<1> QED BY <1>1, <1>2 DEF Holds

\* The invariant implies what the memory must be.
LEMMA InvImpliesTrue == MemoryInv => MemoryIsTrue
<1> SUFFICES ASSUME MemoryInv PROVE MemoryIsTrue
  OBVIOUS
<1>0. DocumentInv /\ BufferInv /\ ObjectInv /\ ArrayInv /\ IsPool(chunks)
  BY DEF MemoryInv, DocumentInv
<1>1. object.size = Len(members) /\ array.size = Len(elements)
  BY <1>0 DEF ObjectInv, ArrayInv
<1>2. ASSUME NEW i \in 1..object.size
      PROVE  members[i] = <<Cell(chunks, object.at, 2 * i - 1), Shown(chunks, Cell(chunks, object.at, 2 * i))>>
  <2>1. /\ At(chunks, Place(object.at, 2 * i - 1)) = members[i][1]
        /\ Holds(chunks, At(chunks, Place(object.at, 2 * i)), members[i][2], ObjectBlock \union ArrayBlock)
    BY <1>0 DEF ObjectInv
  <2>2. /\ At(chunks, Place(object.at, 2 * i - 1)) = Cell(chunks, object.at, 2 * i - 1)
        /\ At(chunks, Place(object.at, 2 * i)) = Cell(chunks, object.at, 2 * i)
    BY DEF At, Place, Cell
  <2>3. Shown(chunks, Cell(chunks, object.at, 2 * i)) = members[i][2]
    BY <2>1, <2>2, HeldIsShown
  <2>4. members[i] = <<members[i][1], members[i][2]>>
    <3>1. members \in Seq(Names \X Nat) /\ i \in 1..Len(members)
      BY <1>0 DEF ObjectInv
    <3>2. members[i] \in Names \X Nat
      BY <3>1
    <3> QED BY <3>2
  <2> QED BY <2>1, <2>2, <2>3, <2>4
<1>3. ASSUME NEW i \in 1..array.size PROVE elements[i] = Shown(chunks, Cell(chunks, array.at, i))
  <2>1. Holds(chunks, At(chunks, Place(array.at, i)), elements[i], ArrayBlock \union ObjectBlock)
    BY <1>0 DEF ArrayInv
  <2>2. At(chunks, Place(array.at, i)) = Cell(chunks, array.at, i)
    BY DEF At, Place, Cell
  <2> QED BY <2>1, <2>2, HeldIsShown
<1>4. \A name \in Names :
          LET i == FindMember(name)
          IN  /\ i <= Len(members) => members[i][1] = name
              /\ \A j \in 1..Len(members) : j < i => members[j][1] # name
  BY <1>0, FirstIsFound
<1>5. /\ CellsOf(object.at, 2 * object.capacity) = ObjectBlock
      /\ CellsOf(array.at, array.capacity) = ArrayBlock
  <2>1. 2 * object.capacity = object.capacity * 2 /\ array.capacity = array.capacity * 1
    <3>1. object.capacity \in Nat /\ array.capacity \in Nat
      BY <1>0 DEF ObjectInv, ArrayInv, IsContainer
    <3> QED BY <3>1
  <2> QED BY <2>1 DEF ObjectBlock, ArrayBlock
<1>6. CellsOf(object.at, 2 * object.capacity) \intersect CellsOf(array.at, array.capacity) = {}
  BY <1>0, <1>5 DEF DocumentInv
<1>7. ASSUME NEW v \in Long
      PROVE  <<v[1], v[2] + 1>> \notin
                CellsOf(object.at, 2 * object.capacity) \union CellsOf(array.at, array.capacity)
  <2>1. Len(v) = 2 /\ v \in ValuesOf(object, 2, 2) \union ValuesOf(array, 1, 1)
    BY DEF Long
  <2>2. CASE v \in ValuesOf(object, 2, 2)
    <3>1. PICK i \in 1..object.size : v = Cell(chunks, object.at, 2 * (i - 1) + 2)
      BY <2>2 DEF ValuesOf
    <3>2. 2 * (i - 1) + 2 = 2 * i
      OBVIOUS
    <3>3. v = At(chunks, Place(object.at, 2 * i))
      BY <3>1, <3>2 DEF At, Place, Cell
    <3>4. Holds(chunks, v, members[i][2], ObjectBlock \union ArrayBlock)
      BY <1>0, <3>3 DEF ObjectInv
    <3> QED BY <1>5, <2>1, <3>4, HeldIsShown
  <2>3. CASE v \in ValuesOf(array, 1, 1)
    <3>1. PICK i \in 1..array.size : v = Cell(chunks, array.at, 1 * (i - 1) + 1)
      BY <2>3 DEF ValuesOf
    <3>2. 1 * (i - 1) + 1 = i
      OBVIOUS
    <3>3. v = At(chunks, Place(array.at, i))
      BY <3>1, <3>2 DEF At, Place, Cell
    <3>4. Holds(chunks, v, elements[i], ArrayBlock \union ObjectBlock)
      BY <1>0, <3>3 DEF ArrayInv
    <3> QED BY <1>5, <2>1, <3>4, HeldIsShown
  <2> QED BY <2>1, <2>2, <2>3
<1>8. \A c \in DOMAIN chunks : chunks[c].size <= chunks[c].capacity
  BY <1>0 DEF IsPool
<1>9. buffer.top <= buffer.capacity /\ SubSeq(buffer.cells, 1, buffer.top) = text
  <2>1. /\ buffer.top \in Nat /\ buffer.capacity \in Nat /\ buffer.cells \in Seq(Int) /\ text \in Seq(Int)
        /\ Len(buffer.cells) = buffer.capacity /\ buffer.top <= buffer.capacity
        /\ Len(text) = buffer.top /\ \A i \in 1..buffer.top : buffer.cells[i] = text[i]
    BY <1>0 DEF BufferInv
  <2>2. SubSeq(buffer.cells, 1, buffer.top) = [i \in 1..buffer.top |-> text[i]]
    BY <2>1
  <2>3. text = [i \in 1..buffer.top |-> text[i]]
    BY <2>1
  <2> QED BY <2>1, <2>2, <2>3
<1> QED BY <1>1, <1>2, <1>3, <1>4, <1>6, <1>7, <1>8, <1>9 DEF MemoryIsTrue

\* Whatever is called, as often as one likes and with chunks and capacities of any size: the
\* object, the array and the buffer hold what was put into them.
THEOREM MemoryTrue == MemorySpec => []MemoryIsTrue
<1>1. MemoryInit => MemoryInv
  BY MemoryEmpty
<1>2. MemoryInv /\ [MemoryNext]_memoryVars => MemoryInv'
  BY MemoryStep
<1>3. MemoryInv => MemoryIsTrue
  BY InvImpliesTrue
<1> QED BY <1>1, <1>2, <1>3, PTL DEF MemorySpec


-----------------------------------------------------------------------------
(* The strings of a JSON text.                                             *)

Byte == 0..255
\* What an escape may stand for: no first half of a pair.
CodePoint == {c \in Nat : c < 1114112 /\ ~HighHalf(c)}
End == <<Quote, Nul>>

-----------------------------------------------------------------------------
(* The conversions.                                                        *)

\* A quotient by 64 of a quotient by 64, and a quotient by 64 of that.
LEMMA SixBits ==
  ASSUME NEW c \in Nat
  PROVE  /\ c \div 64 \in Nat /\ c % 64 \in 0..63 /\ c = 64 * (c \div 64) + (c % 64)
         /\ c \div 4096 \in Nat /\ c \div 64 = 64 * (c \div 4096) + ((c \div 64) % 64)
         /\ c \div 262144 \in Nat /\ c \div 4096 = 64 * (c \div 262144) + ((c \div 4096) % 64)
         /\ (c \div 64) % 64 \in 0..63 /\ (c \div 4096) % 64 \in 0..63
<1> DEFINE q == c \div 64  m == q \div 64  k == m \div 64
           a == c % 64  b == q % 64  d == m % 64
<1>1. q \in Nat /\ a \in 0..63 /\ c = 64 * q + a
  BY SMT
<1> HIDE DEF q, a
<1>2. m \in Nat /\ b \in 0..63 /\ q = 64 * m + b
  BY <1>1, SMT
<1> HIDE DEF m, b
<1>3. k \in Nat /\ d \in 0..63 /\ m = 64 * k + d
  BY <1>2, SMT
<1> HIDE DEF k, d
<1>4. m = c \div 4096
  <2> DEFINE s == 64 * b + a
  <2>1. c = 4096 * m + s /\ s \in Nat /\ s < 4096
    BY <1>1, <1>2, SMT DEF s
  <2> HIDE DEF s
  <2>2. QED
    BY <2>1, <1>2, SMT
<1>5. k = c \div 262144
  <2> DEFINE s == 4096 * d + (64 * b + a)
  <2>1. c = 262144 * k + s /\ s \in Nat /\ s < 262144
    BY <1>1, <1>2, <1>3, SMT DEF s
  <2> HIDE DEF s
  <2>2. QED
    BY <2>1, <1>3, SMT
<1>6. b = (c \div 64) % 64 /\ d = (c \div 4096) % 64
  BY <1>4 DEF b, d, q
<1>7. QED
  BY <1>1, <1>2, <1>3, <1>4, <1>5, <1>6 DEF q, a

\* UTF-8 is made of bytes, and decoding it gives the code point again.
LEMMA EncodeDecodes ==
  ASSUME NEW c \in CodePoint
  PROVE  Encode(c) \in Seq(Byte) /\ Decoded(Encode(c)) = c
<1>0. c \in Nat /\ c < 1114112
  BY SMT DEF CodePoint
<1> DEFINE a == c % 64  b == (c \div 64) % 64  d == (c \div 4096) % 64
<1>1. /\ a \in 0..63 /\ b \in 0..63 /\ d \in 0..63
      /\ Trail(c, 1) = 128 + a /\ Trail(c, 64) = 128 + b /\ Trail(c, 4096) = 128 + d
  <2>1. c \div 1 = c
    BY <1>0, SMT
  <2>2. QED
    BY SMT, <1>0, <2>1, SixBits DEF Trail
<1> DEFINE q == c \div 64  m == c \div 4096  k == c \div 262144
<1>2. /\ q \in Nat /\ m \in Nat /\ k \in Nat
      /\ c = 64 * q + a /\ q = 64 * m + b /\ m = 64 * k + d
  BY SMT, <1>0, SixBits
<1>3. /\ c <= 127 => Encode(c) = <<c>>
      /\ c > 127 /\ c <= 2047 => Encode(c) = <<192 + q, 128 + a>>
      /\ c > 2047 /\ c <= 65535 => Encode(c) = <<224 + m, 128 + b, 128 + a>>
      /\ c > 65535 => Encode(c) = <<240 + k, 128 + d, 128 + b, 128 + a>>
  BY <1>0, <1>1, SMT DEF Encode
<1> HIDE DEF a, b, d, q, m, k
<1>4. CASE c <= 127
  <2> DEFINE e == <<c>>
  <2>1. Encode(c) = e
    BY SMT, <1>0, <1>3, <1>4
  <2>3. c \in Byte
    BY SMT, <1>0, <1>4 DEF Byte
  <2>4. e \in Seq(Byte)
    BY SMT, <2>3
  <2>5. Decoded(e) = c
    BY SMT, <1>0, <1>1, <1>2 DEF Decoded
  <2> HIDE DEF e
  <2>6. QED
    BY <2>1, <2>4, <2>5
<1>5. CASE c > 127 /\ c <= 2047
  <2> DEFINE e == <<192 + q, 128 + a>>
  <2>1. Encode(c) = e
    BY SMT, <1>0, <1>3, <1>5
  <2>2. q < 32
    BY SMT, <1>0, <1>1, <1>2, <1>5
  <2>3. 192 + q \in Byte /\ 128 + a \in Byte
    BY SMT, <2>2, <1>1, <1>2 DEF Byte
  <2>4. e \in Seq(Byte)
    BY SMT, <2>3
  <2>5. Decoded(e) = c
    BY SMT, <1>0, <1>1, <1>2 DEF Decoded
  <2> HIDE DEF e
  <2>6. QED
    BY <2>1, <2>4, <2>5
<1>6. CASE c > 2047 /\ c <= 65535
  <2> DEFINE e == <<224 + m, 128 + b, 128 + a>>
  <2>1. Encode(c) = e
    BY SMT, <1>0, <1>3, <1>6
  <2>2. m < 16
    BY SMT, <1>0, <1>1, <1>2, <1>6
  <2>3. 224 + m \in Byte /\ 128 + b \in Byte /\ 128 + a \in Byte
    BY SMT, <2>2, <1>1, <1>2 DEF Byte
  <2>4. e \in Seq(Byte)
    BY SMT, <2>3
  <2>5. Decoded(e) = c
    BY SMT, <1>0, <1>1, <1>2 DEF Decoded
  <2> HIDE DEF e
  <2>6. QED
    BY <2>1, <2>4, <2>5
<1>7. CASE c > 65535
  <2> DEFINE e == <<240 + k, 128 + d, 128 + b, 128 + a>>
  <2>1. Encode(c) = e
    BY SMT, <1>0, <1>3, <1>7
  <2>2. k < 5
    BY SMT, <1>0, <1>1, <1>2, <1>7
  <2>3. 240 + k \in Byte /\ 128 + d \in Byte /\ 128 + b \in Byte /\ 128 + a \in Byte
    BY SMT, <2>2, <1>1, <1>2 DEF Byte
  <2>4. e \in Seq(Byte)
    BY SMT, <2>3
  <2>5. Decoded(e) = c
    BY SMT, <1>0, <1>1, <1>2 DEF Decoded
  <2> HIDE DEF e
  <2>6. QED
    BY <2>1, <2>4, <2>5
<1>8. QED
  BY SMT, <1>0, <1>4, <1>5, <1>6, <1>7

\* The UTF-8 of the first code points is one byte.
LEMMA EncodeOne == ASSUME NEW c \in Nat, c <= 127 PROVE Encode(c) = <<c>>
<1> DEFINE one == <<c>>
<1>1. (CASE c <= 127 -> one
         [] c > 127 /\ c <= 2047 -> <<192 + c \div 64, Trail(c, 1)>>
         [] c > 2047 /\ c <= 65535 -> <<224 + c \div 4096, Trail(c, 64), Trail(c, 1)>>
         [] OTHER -> <<240 + c \div 262144, Trail(c, 4096), Trail(c, 64), Trail(c, 1)>>) = one
  BY SMT
<1>2. QED
  BY <1>1 DEF Encode

\* A byte is written as itself, with an escape that is read as it, or by its number.
LEMMA EscapedForms ==
  ASSUME NEW c \in Byte
  PROVE  /\ Escaped(c) \in Seq(Byte) /\ Len(Escaped(c)) \in 1..3
         /\ \/ c \notin {Quote, Backslash} /\ c >= 32 /\ Escaped(c) = <<c>>
            \/ \E e \in Byte : Escaped(c) = <<Backslash, e>> /\ Unescaped(e) = c /\ c # 0
            \/ c < 32 /\ Escaped(c) = <<Backslash, U, c>>
<1>1. CASE c \in {Quote, Backslash, 8, 9, 10, 12, 13}
  <2>1. PICK e \in {Quote, Backslash, 98, 116, 110, 102, 114} :
           Escaped(c) = <<Backslash, e>> /\ Unescaped(e) = c
    BY <1>1 DEF Escaped, Unescaped, Quote, Backslash, Slash
  <2>2. QED
    BY <1>1, <2>1 DEF Byte, Quote, Backslash
<1>2. CASE c < 32 /\ c \notin {8, 9, 10, 12, 13}
  <2>1. Escaped(c) = <<Backslash, U, c>>
    BY <1>2 DEF Escaped, Byte, Quote, Backslash
  <2>2. QED
    BY <1>2, <2>1 DEF Byte, Backslash, U
<1>3. CASE c >= 32 /\ c \notin {Quote, Backslash}
  <2>1. Escaped(c) = <<c>>
    BY <1>3 DEF Escaped, Byte, Quote, Backslash
  <2>2. QED
    BY <1>3, <2>1 DEF Byte
<1>4. \/ c \in {Quote, Backslash, 8, 9, 10, 12, 13}
      \/ c < 32 /\ c \notin {8, 9, 10, 12, 13}
      \/ c >= 32 /\ c \notin {Quote, Backslash}
  BY DEF Byte
<1>5. QED
  BY <1>1, <1>2, <1>3, <1>4, Zenon

-----------------------------------------------------------------------------
(* What the writer has put.                                                *)

\* e cuts the text u into what is written for each byte of s.
Cuts(e, u, s) ==
    /\ e \in [1..Len(s) + 1 -> 0..Len(u)] /\ e[1] = 0 /\ e[Len(s) + 1] = Len(u)
    /\ \A i \in 1..Len(s) + 1 : \A j \in 1..Len(s) + 1 : i <= j => e[i] <= e[j]
    /\ \A i \in 1..Len(s) :
          /\ e[i + 1] = e[i] + Len(Escaped(s[i]))
          /\ \A k \in 1..Len(Escaped(s[i])) : u[e[i] + k] = Escaped(s[i])[k]
Spells(u, s) == \E e : Cuts(e, u, s)

\* Nothing is spelled by nothing.
LEMMA NothingSpelled == Spells(<<>>, <<>>)
<1> DEFINE e == [i \in 1..1 |-> 0]
<1>1. Cuts(e, <<>>, <<>>)
  BY DEF Cuts
<1> HIDE DEF e
<1>2. QED
  BY <1>1 DEF Spells

\* Of nothing nothing is written.
LEMMA SpellsNothing ==
  ASSUME NEW u \in Seq(Byte), Spells(u, <<>>)
  PROVE  u = <<>>
<1>1. PICK e : Cuts(e, u, <<>>)
  BY DEF Spells
<1>2. Len(u) = 0
  BY <1>1 DEF Cuts
<1>3. QED
  BY <1>2, EmptySeq

\* What is written for one more byte.
LEMMA SpellsMore ==
  ASSUME NEW u \in Seq(Byte), NEW s \in Seq(Byte), NEW c \in Byte, Spells(u, s)
  PROVE  Spells(u \o Escaped(c), Append(s, c))
<1>1. PICK e : Cuts(e, u, s)
  BY DEF Spells
<1> DEFINE w == Escaped(c)  v == u \o w  t == Append(s, c)
<1>2. w \in Seq(Byte) /\ Len(w) \in Nat
  BY EscapedForms
<1> HIDE DEF w
<1>3. /\ v \in Seq(Byte) /\ Len(v) = Len(u) + Len(w)
      /\ \A i \in 1..Len(u) : v[i] = u[i]
      /\ \A i \in 1..Len(w) : v[Len(u) + i] = w[i]
  <2>1. \A i \in 1..Len(v) : v[i] = IF i <= Len(u) THEN u[i] ELSE w[i - Len(u)]
    BY <1>2, ConcatProperties, Zenon
  <2>2. v \in Seq(Byte) /\ Len(v) = Len(u) + Len(w)
    BY <1>2, ConcatProperties
  <2> HIDE DEF v
  <2>3. Len(u) \in Nat
    BY LenProperties
  <2>4. \A i \in 1..Len(u) : v[i] = u[i]
    BY <2>1, <2>2, <2>3, <1>2
  <2>5. ASSUME NEW i \in 1..Len(w) PROVE v[Len(u) + i] = w[i]
    <3>1. Len(u) + i \in 1..Len(v) /\ ~(Len(u) + i <= Len(u)) /\ Len(u) + i - Len(u) = i
      BY <2>2, <2>3, <1>2
    <3>2. QED
      BY <3>1, <2>1
  <2>6. QED
    BY <2>2, <2>4, <2>5
<1>4. /\ t \in Seq(Byte) /\ Len(t) = Len(s) + 1 /\ t[Len(s) + 1] = c
      /\ \A i \in 1..Len(s) : t[i] = s[i]
  BY AppendProperties
<1> HIDE DEF v, t
<1> DEFINE f == [i \in 1..Len(t) + 1 |-> IF i <= Len(t) THEN e[i] ELSE Len(v)]
<1>5. Len(s) \in Nat /\ Len(u) \in Nat
  BY LenProperties
<1>6. /\ e \in [1..Len(s) + 1 -> 0..Len(u)] /\ e[1] = 0 /\ e[Len(s) + 1] = Len(u)
      /\ \A i \in 1..Len(s) + 1 : \A j \in 1..Len(s) + 1 : i <= j => e[i] <= e[j]
      /\ \A i \in 1..Len(s) :
            /\ e[i + 1] = e[i] + Len(Escaped(s[i]))
            /\ \A k \in 1..Len(Escaped(s[i])) : u[e[i] + k] = Escaped(s[i])[k]
  BY <1>1 DEF Cuts
<1>7. /\ f \in [1..Len(t) + 1 -> 0..Len(v)] /\ f[1] = 0 /\ f[Len(t) + 1] = Len(v)
      /\ \A i \in 1..Len(s) + 1 : f[i] = e[i]
  BY <1>2, <1>3, <1>4, <1>5, <1>6
<1> HIDE DEF f
<1>8. \A i \in 1..Len(t) + 1 : \A j \in 1..Len(t) + 1 : i <= j => f[i] <= f[j]
  <2> TAKE i \in 1..Len(t) + 1
  <2> TAKE j \in 1..Len(t) + 1
  <2> HAVE i <= j
  <2>1. CASE j <= Len(s) + 1
    <3>1. i \in 1..Len(s) + 1 /\ j \in 1..Len(s) + 1
      BY <2>1, <1>4, <1>5
    <3>2. f[i] = e[i] /\ f[j] = e[j]
      BY <3>1, <1>7
    <3>3. e[i] <= e[j]
      BY <3>1, <1>6
    <3>4. QED
      BY <3>2, <3>3
  <2>2. CASE j > Len(s) + 1
    BY <2>2, <1>3, <1>4, <1>5, <1>7
  <2>3. QED
    BY <2>1, <2>2, <1>4, <1>5
<1>9. ASSUME NEW i \in 1..Len(t)
      PROVE  /\ f[i + 1] = f[i] + Len(Escaped(t[i]))
             /\ \A k \in 1..Len(Escaped(t[i])) : v[f[i] + k] = Escaped(t[i])[k]
  <2>1. CASE i <= Len(s)
    <3>1. t[i] = s[i] /\ f[i] = e[i] /\ f[i + 1] = e[i + 1]
      BY <2>1, <1>4, <1>5, <1>7
    <3>2. /\ e[i + 1] = e[i] + Len(Escaped(s[i]))
          /\ \A k \in 1..Len(Escaped(s[i])) : u[e[i] + k] = Escaped(s[i])[k]
          /\ e[i] \in Nat /\ e[i + 1] <= Len(u)
      <4>1. i \in 1..Len(s) /\ i \in 1..Len(s) + 1 /\ i + 1 \in 1..Len(s) + 1
        BY <2>1, <1>5
      <4>2. e[i] \in 0..Len(u) /\ e[i + 1] \in 0..Len(u)
        BY <4>1, <1>6
      <4>3. QED
        BY <4>1, <4>2, <1>5, <1>6
    <3>3. Len(Escaped(s[i])) \in Nat
      BY <2>1, <1>5, EscapedForms, ElementOfSeq
    <3>4. \A k \in 1..Len(Escaped(s[i])) : e[i] + k \in 1..Len(u)
      BY <3>2, <3>3, <1>5
    <3>5. QED
      BY <3>1, <3>2, <3>4, <1>3
  <2>2. CASE i = Len(s) + 1
    <3>1. t[i] = c /\ f[i] = Len(u) /\ f[i + 1] = Len(v)
      BY <2>2, <1>4, <1>5, <1>6, <1>7
    <3>2. QED
      BY <3>1, <1>3, <1>2 DEF w
  <2>3. QED
    BY <2>1, <2>2, <1>4, <1>5
<1>10. Cuts(f, v, t)
  BY <1>7, <1>8, <1>9 DEF Cuts
<1>11. QED
  BY <1>10 DEF Spells, v, w, t

\* What is written for the first byte comes first, and the rest is written behind it.
LEMMA SpellsFirst ==
  ASSUME NEW u \in Seq(Byte), NEW s \in Seq(Byte), s # <<>>, Spells(u, s)
  PROVE  \E v \in Seq(Byte) : u = Escaped(s[1]) \o v /\ Spells(v, Tail(s))
<1>1. PICK e : Cuts(e, u, s)
  BY DEF Spells
<1>2. Len(s) \in Nat \ {0} /\ Len(u) \in Nat /\ s[1] \in Byte
  BY LenProperties, EmptySeq, ElementOfSeq
<1> DEFINE w == Escaped(s[1])  v == SubSeq(u, Len(w) + 1, Len(u))  t == Tail(s)
<1>3. w \in Seq(Byte) /\ Len(w) \in Nat
  BY <1>2, EscapedForms
<1>4. /\ e \in [1..Len(s) + 1 -> 0..Len(u)] /\ e[1] = 0 /\ e[Len(s) + 1] = Len(u)
      /\ \A i \in 1..Len(s) + 1 : \A j \in 1..Len(s) + 1 : i <= j => e[i] <= e[j]
      /\ \A i \in 1..Len(s) :
            /\ e[i + 1] = e[i] + Len(Escaped(s[i]))
            /\ \A k \in 1..Len(Escaped(s[i])) : u[e[i] + k] = Escaped(s[i])[k]
  BY <1>1 DEF Cuts
<1>5. e[2] = Len(w) /\ Len(w) <= Len(u) /\ \A k \in 1..Len(w) : u[k] = w[k]
  <2>1. e[1 + 1] = e[1] + Len(w) /\ \A k \in 1..Len(w) : u[e[1] + k] = w[k]
    BY <1>2, <1>4
  <2>2. 1 + 1 \in 1..Len(s) + 1
    BY <1>2
  <2>3. QED
    BY <1>2, <1>3, <1>4, <2>1, <2>2
<1> HIDE DEF w
<1>6. /\ v \in Seq(Byte) /\ Len(v) = Len(u) - Len(w)
      /\ \A i \in 1..Len(v) : v[i] = u[Len(w) + i]
  <2>1. /\ v \in Seq(Byte)
        /\ Len(v) = IF Len(w) + 1 <= Len(u) THEN Len(u) - (Len(w) + 1) + 1 ELSE 0
        /\ \A i \in 1..(Len(u) - (Len(w) + 1) + 1) : v[i] = u[Len(w) + 1 + i - 1]
    BY <1>2, <1>3, <1>5, SubSeqProperties
  <2> HIDE DEF v
  <2>2. Len(v) = Len(u) - Len(w)
    BY <2>1, <1>2, <1>3, <1>5
  <2>3. ASSUME NEW i \in 1..Len(v) PROVE v[i] = u[Len(w) + i]
    <3>1. Len(w) + 1 + i - 1 = Len(w) + i /\ i \in 1..(Len(u) - (Len(w) + 1) + 1)
      BY <2>2, <1>2, <1>3, <1>5
    <3>2. QED
      BY <3>1, <2>1
  <2>4. QED
    BY <2>1, <2>2, <2>3
<1>7. t \in Seq(Byte) /\ Len(t) = Len(s) - 1 /\ \A i \in 1..Len(t) : t[i] = s[i + 1]
  BY <1>2, HeadTailProperties
<1> HIDE DEF v, t
<1>8. u = w \o v
  <2>1. /\ w \o v \in Seq(Byte) /\ Len(w \o v) = Len(u)
        /\ \A i \in 1..Len(u) : (w \o v)[i] = IF i <= Len(w) THEN w[i] ELSE v[i - Len(w)]
    <3>1. /\ Len(w \o v) = Len(w) + Len(v) /\ w \o v \in Seq(Byte)
          /\ \A i \in 1..Len(w) + Len(v) : (w \o v)[i] = IF i <= Len(w) THEN w[i] ELSE v[i - Len(w)]
      BY <1>3, <1>6, ConcatProperties, Zenon
    <3>2. QED
      BY <3>1, <1>2, <1>3, <1>6
  <2> DEFINE x == w \o v
  <2> HIDE DEF x
  <2>2. \A i \in 1..Len(u) : x[i] = u[i]
    <3> TAKE i \in 1..Len(u)
    <3>1. x[i] = IF i <= Len(w) THEN w[i] ELSE v[i - Len(w)]
      BY <2>1 DEF x
    <3>2. CASE i <= Len(w)
      <4>1. i \in 1..Len(w)
        BY <1>2, <1>3, <3>2
      <4>2. QED
        BY <3>1, <3>2, <4>1, <1>5
    <3>3. CASE ~(i <= Len(w))
      <4>1. i - Len(w) \in 1..Len(v) /\ Len(w) + (i - Len(w)) = i
        BY <1>2, <1>3, <1>6, <3>3
      <4>2. v[i - Len(w)] = u[Len(w) + (i - Len(w))]
        BY <4>1, <1>6
      <4>3. QED
        BY <3>1, <3>3, <4>1, <4>2
    <3>4. QED
      BY <3>2, <3>3
  <2>3. QED
    BY <2>1, <2>2, SeqEqual DEF x
<1> DEFINE f == [i \in 1..Len(t) + 1 |-> e[i + 1] - Len(w)]
<1>9. /\ f \in [1..Len(t) + 1 -> 0..Len(v)]
      /\ \A i \in 1..Len(t) + 1 : f[i] = e[i + 1] - Len(w) /\ e[i + 1] \in Nat /\ e[i + 1] >= Len(w)
  <2>1. ASSUME NEW i \in 1..Len(t) + 1
        PROVE  e[i + 1] \in 0..Len(u) /\ e[i + 1] >= Len(w)
    <3>1. i + 1 \in 1..Len(s) + 1 /\ 2 \in 1..Len(s) + 1 /\ 2 <= i + 1
      BY <1>2, <1>7
    <3>2. QED
      BY <3>1, <1>4, <1>5
  <2>2. ASSUME NEW i \in 1..Len(t) + 1
        PROVE  e[i + 1] - Len(w) \in 0..Len(v) /\ e[i + 1] \in Nat /\ e[i + 1] >= Len(w)
    BY <2>1, <1>2, <1>3, <1>6
  <2>3. f \in [1..Len(t) + 1 -> 0..Len(v)] /\ \A i \in 1..Len(t) + 1 : f[i] = e[i + 1] - Len(w)
    BY <2>2
  <2>4. QED
    BY <2>2, <2>3
<1> HIDE DEF f
<1>10. f[1] = 0 /\ f[Len(t) + 1] = Len(v)
  <2>1. 1 \in 1..Len(t) + 1 /\ Len(t) + 1 \in 1..Len(t) + 1 /\ 1 + 1 = 2 /\ Len(t) + 1 + 1 = Len(s) + 1
    BY <1>2, <1>7
  <2>2. f[1] = e[2] - Len(w) /\ f[Len(t) + 1] = e[Len(s) + 1] - Len(w)
    BY <2>1, <1>9
  <2>3. QED
    BY <2>2, <1>2, <1>3, <1>4, <1>5, <1>6
<1>11. \A i \in 1..Len(t) + 1 : \A j \in 1..Len(t) + 1 : i <= j => f[i] <= f[j]
  <2> TAKE i \in 1..Len(t) + 1
  <2> TAKE j \in 1..Len(t) + 1
  <2> HAVE i <= j
  <2>1. i + 1 \in 1..Len(s) + 1 /\ j + 1 \in 1..Len(s) + 1 /\ i + 1 <= j + 1
    BY <1>2, <1>7
  <2>2. e[i + 1] <= e[j + 1]
    BY <2>1, <1>4
  <2>3. QED
    BY <2>2, <1>9, <1>3
<1>12. ASSUME NEW i \in 1..Len(t)
       PROVE  /\ f[i + 1] = f[i] + Len(Escaped(t[i]))
              /\ \A k \in 1..Len(Escaped(t[i])) : v[f[i] + k] = Escaped(t[i])[k]
  <2>1. i + 1 \in 1..Len(s) /\ t[i] = s[i + 1] /\ i \in 1..Len(t) + 1 /\ i + 1 \in 1..Len(t) + 1
    BY <1>2, <1>7
  <2> DEFINE n == i + 1  x == Escaped(t[i])
  <2>2. /\ e[n + 1] = e[n] + Len(x)
        /\ \A k \in 1..Len(x) : u[e[n] + k] = x[k]
    BY <2>1, <1>4
  <2>3. f[i] = e[n] - Len(w) /\ f[i + 1] = e[n + 1] - Len(w) /\ e[n] \in Nat /\ e[n] >= Len(w)
    BY <2>1, <1>9
  <2>4. Len(x) \in Nat /\ e[n + 1] <= Len(u)
    <3>1. Len(x) \in Nat
      BY <2>1, <1>7, EscapedForms, ElementOfSeq
    <3>2. n + 1 \in 1..Len(s) + 1
      BY <2>1, <1>2
    <3>3. QED
      BY <3>1, <3>2, <1>4, <1>2
  <2> HIDE DEF x, n
  <2>5. f[i + 1] = f[i] + Len(x)
    BY <2>2, <2>3, <2>4, <1>3
  <2>6. ASSUME NEW k \in 1..Len(x) PROVE v[f[i] + k] = x[k]
    <3>1. /\ k \in Nat /\ k >= 1 /\ e[n] \in Nat /\ e[n] >= Len(w) /\ e[n] + k <= Len(u)
          /\ f[i] = e[n] - Len(w) /\ Len(v) = Len(u) - Len(w)
      BY <2>2, <2>3, <2>4, <1>2, <1>6
    <3>2. f[i] + k \in 1..Len(v)
      BY <3>1, <1>2, <1>3
    <3>3. Len(w) + (f[i] + k) = e[n] + k
      BY <3>1, <1>3
    <3>4. v[f[i] + k] = u[Len(w) + (f[i] + k)]
      BY <3>2, <1>6
    <3>5. u[e[n] + k] = x[k]
      BY <2>2
    <3>6. QED
      BY <3>3, <3>4, <3>5
  <2>7. QED
    BY <2>5, <2>6 DEF x
<1>13. Cuts(f, v, t)
  BY <1>9, <1>10, <1>11, <1>12 DEF Cuts
<1>14. QED
  BY <1>6, <1>8, <1>13 DEF Spells, w, t

-----------------------------------------------------------------------------
(* The value.                                                              *)

\* A value holds the string that it was made of, and a zero behind it.
LEMMA StoredHolds ==
  ASSUME NEW s \in Seq(Byte)
  PROVE  /\ Stored(s) # Null /\ StringLength(Stored(s)) = Len(s)
         /\ \A i \in 1..Len(s) : Stored(s).str[i] = s[i]
         /\ Stored(s).str[Len(s) + 1] = Nul
         /\ DOMAIN Stored(s).str \in {1..MaxSize + 1, 1..Len(s) + 1} /\ Len(s) + 1 \in DOMAIN Stored(s).str
<1>0. MaxSize \in Nat
  BY StringAssumption
<1>1. Len(s) \in Nat
  BY LenProperties
<1>2. CASE Len(s) <= MaxSize
  <2> DEFINE n == Len(s)
             f == [i \in 1..MaxSize + 1 |->
                     CASE i <= n -> s[i] [] i = n + 1 -> Nul
                       [] i > n + 1 /\ i = MaxSize + 1 -> MaxSize - n [] OTHER -> 255]
  <2>1. Stored(s) = Data("short", 0, f)
    <3>1. Stored(s) = IF Len(s) <= MaxSize THEN Data("short", 0, f) ELSE Data("copy", Len(s), Append(s, Nul))
      BY DEF Stored
    <3>2. QED
      BY <3>1, <1>2
  <2>2. /\ \A i \in 1..n : f[i] = s[i]
        /\ f[n + 1] = Nul /\ f[MaxSize + 1] = MaxSize - n /\ DOMAIN f = 1..MaxSize + 1
    BY <1>0, <1>1, <1>2 DEF Nul
  <2> HIDE DEF f
  <2>3. StringLength(Stored(s)) = n
    BY <2>1, <2>2, <1>0, <1>1 DEF StringLength, Data
  <2>4. n + 1 \in 1..MaxSize + 1
    BY <1>0, <1>1, <1>2
  <2>5. QED
    BY <2>1, <2>2, <2>3, <2>4 DEF Data, Null
<1>3. CASE Len(s) > MaxSize
  <2>1. Stored(s) = Data("copy", Len(s), Append(s, Nul))
    BY <1>0, <1>1, <1>3 DEF Stored
  <2>2. /\ \A i \in 1..Len(s) : Append(s, Nul)[i] = s[i]
        /\ Append(s, Nul)[Len(s) + 1] = Nul /\ DOMAIN Append(s, Nul) = 1..Len(s) + 1
    BY <1>1, AppendProperties DEF Nul, Byte
  <2>3. QED
    BY <2>1, <2>2, <1>1 DEF Data, Null, StringLength
<1>4. QED
  BY <1>0, <1>1, <1>2, <1>3

\* Its text is the string, and so is what is read up to a zero, when the string has none.
LEMMA StoredTexts ==
  ASSUME NEW s \in Seq(Byte)
  PROVE  /\ Text(Stored(s)) = s
         /\ (\A i \in DOMAIN s : s[i] # 0) => StdString(Stored(s)) = s
<1>0. MaxSize \in Nat
  BY StringAssumption
<1>1. Len(s) \in Nat /\ DOMAIN s = 1..Len(s)
  BY LenProperties
<1> DEFINE f == Stored(s).str
<1>2. /\ \A i \in 1..Len(s) : f[i] = s[i]
      /\ f[Len(s) + 1] = Nul /\ StringLength(Stored(s)) = Len(s)
      /\ DOMAIN f \in {1..MaxSize + 1, 1..Len(s) + 1} /\ Len(s) + 1 \in DOMAIN f
  BY StoredHolds
<1> HIDE DEF f
<1>3. SubSeq(f, 1, Len(s)) = s
  <2>1. SubSeq(f, 1, Len(s)) = [i \in 1..Len(s) |-> f[i]]
    BY <1>1
  <2>2. s = [i \in 1..Len(s) |-> s[i]]
    BY <1>1
  <2>3. QED
    BY <2>1, <2>2, <1>2
<1>4. ASSUME \A i \in DOMAIN s : s[i] # 0
      PROVE  StdString(Stored(s)) = s
  <2> DEFINE zeros == {i \in DOMAIN f : f[i] = Nul}
             least == CHOOSE i \in zeros : \A j \in zeros : i <= j
  <2>1. \A i \in zeros : i \in Nat /\ i >= Len(s) + 1
    BY <1>0, <1>1, <1>2, <1>4 DEF Nul
  <2>2. Len(s) + 1 \in zeros
    BY <1>2
  <2>3. least = Len(s) + 1
    BY <2>1, <2>2, <1>1
  <2>4. StdString(Stored(s)) = SubSeq(f, 1, least - 1)
    <3>1. StdString(Stored(s)) =
             LET places == {i \in DOMAIN f : f[i] = Nul}
             IN  SubSeq(f, 1, (CHOOSE i \in places : \A j \in places : i <= j) - 1)
      BY DEF StdString, f
    <3>2. QED
      BY <3>1
  <2> HIDE DEF zeros, least
  <2>5. least - 1 = Len(s)
    BY <1>1, <2>3
  <2>6. QED
    BY <2>4, <2>5, <1>3
<1>5. QED
  BY <1>2, <1>3, <1>4 DEF Text, f

-----------------------------------------------------------------------------
(* What is ahead of the reader.                                            *)

\* The text that spells the string s, with the end of a string.
Ahead(t, s) == \E v \in Seq(Byte) : t = v \o End /\ Spells(v, s)

LEMMA EndTypes == End \in Seq(Byte) /\ End = <<Quote>> \o <<Nul>> /\ Len(End) = 2
  BY DEF End, Byte, Quote, Nul

\* A character and the text behind it.
Before(p, r) == <<p>> \o r

\* The first of a text and what follows it.
LEMMA FirstTells ==
  ASSUME NEW p \in Byte, NEW q \in Byte, NEW r \in Seq(Byte), NEW w \in Seq(Byte),
         Before(p, r) = Before(q, w)
  PROVE  p = q /\ r = w
<1>1. <<p>> \in Seq(Byte) /\ <<q>> \in Seq(Byte) /\ Len(<<p>>) = 1 /\ Len(<<q>>) = 1 /\ Len(r) \in Nat /\ Len(w) \in Nat
  BY LenProperties
<1> DEFINE x == <<p>>  y == <<q>>
<1>2. x[1] = p /\ y[1] = q
  OBVIOUS
<1>3. Len(x) = 1 /\ Len(y) = 1 /\ x \in Seq(Byte) /\ y \in Seq(Byte) /\ x \o r = y \o w
  BY <1>1 DEF Before
<1> HIDE DEF x, y
<1>4. (x \o r)[1] = x[1] /\ (y \o w)[1] = y[1]
  <2>1. /\ \A i \in 1..Len(x) + Len(r) : (x \o r)[i] = IF i <= Len(x) THEN x[i] ELSE r[i - Len(x)]
        /\ \A i \in 1..Len(y) + Len(w) : (y \o w)[i] = IF i <= Len(y) THEN y[i] ELSE w[i - Len(y)]
    BY <1>3, ConcatProperties, Zenon
  <2>2. 1 \in 1..Len(x) + Len(r) /\ 1 \in 1..Len(y) + Len(w) /\ 1 <= Len(x) /\ 1 <= Len(y)
    BY <1>1, <1>3
  <2>3. QED
    BY <2>1, <2>2
<1>5. p = q
  BY <1>2, <1>3, <1>4
<1>6. x \o r = x \o w
  BY <1>3, <1>5 DEF x, y
<1>7. QED
  <2>1. \A S : \A s, t, v \in Seq(S) : s \o t = s \o v => t = v
    BY ConcatSimplifications
  <2>2. r = w
    BY <2>1, <1>3, <1>6
  <2>3. QED
    BY <1>5, <2>2

\* Concatenation is associative.
LEMMA Associates ==
  \A a \in Seq(Byte), b \in Seq(Byte), c \in Seq(Byte) : (a \o b) \o c = a \o (b \o c)
<1> TAKE a \in Seq(Byte), b \in Seq(Byte), c \in Seq(Byte)
<1>1. QED
  BY ConcatAssociative, SMTT(30)

\* Two characters are one and another, and three are two and another.
LEMMA TwoFirst ==
  ASSUME NEW p \in Byte, NEW q \in Byte, NEW w \in Seq(Byte)
  PROVE  <<p, q>> \o w = Before(p, Before(q, w))
<1> DEFINE x == <<p>>  y == <<q>>  xy == <<p, q>>
<1>1. x \in Seq(Byte) /\ y \in Seq(Byte) /\ xy = Append(x, q)
  BY SMT
<1> HIDE DEF x, xy
<1>2. xy = x \o y
  BY <1>1, AppendIsConcat DEF y
<1> HIDE DEF y
<1>3. (x \o y) \o w = x \o (y \o w)
  BY <1>1, Associates, SMTT(30)
<1>4. xy \o w = x \o (y \o w)
  BY <1>2, <1>3
<1>5. QED
  BY <1>4 DEF x, y, xy, Before

LEMMA ThreeFirst ==
  ASSUME NEW p \in Byte, NEW q \in Byte, NEW r \in Byte, NEW w \in Seq(Byte)
  PROVE  <<p, q, r>> \o w = Before(p, Before(q, Before(r, w)))
<1> DEFINE z == <<r>>  xy == <<p, q>>  xyz == <<p, q, r>>  v == Before(r, w)
<1>1. z \in Seq(Byte) /\ xy \in Seq(Byte) /\ xyz = Append(xy, r)
  BY SMT
<1> HIDE DEF xy, xyz
<1>2. xyz = xy \o z
  BY <1>1, AppendIsConcat DEF z
<1>3. v = z \o w
  BY DEF Before
<1> HIDE DEF z, v
<1>4. (xy \o z) \o w = xy \o (z \o w)
  BY <1>1, Associates, SMTT(30)
<1>5. v \in Seq(Byte)
  BY <1>1, <1>3, ConcatProperties
<1>6. xy \o v = Before(p, Before(q, v))
  BY <1>5, TwoFirst DEF xy
<1>7. xyz \o w = xy \o v
  BY <1>2, <1>3, <1>4
<1>8. QED
  BY <1>6, <1>7 DEF xyz, v

\* The next of a text that is not empty.
LEMMA NextTaken ==
  ASSUME NEW r \in Seq(Byte), r # <<>>
  PROVE  Head(r) \in Byte /\ Tail(r) \in Seq(Byte) /\ Before(Head(r), Tail(r)) = r
<1>1. Len(r) \in Nat \ {0} /\ Head(r) = r[1]
  BY EmptySeq, HeadTailProperties
<1>2. Head(r) \in Byte /\ Tail(r) \in Seq(Byte) /\ Tail(r) = SubSeq(r, 2, Len(r))
  BY HeadTailProperties, TailIsSubSeq
<1>3. SubSeq(r, 1, Len(r)) = <<r[1]>> \o SubSeq(r, 2, Len(r))
  <2>1. 1 \in 1..Len(r) /\ Len(r) \in 1..Len(r) /\ 1 + 1 = 2
    BY <1>1
  <2>2. SubSeq(r, 1, Len(r)) = <<r[1]>> \o SubSeq(r, 1 + 1, Len(r))
    BY <2>1, SubSeqRecursiveFirst
  <2>3. QED
    BY <2>1, <2>2
<1>4. QED
  BY <1>1, <1>2, <1>3, SubSeqFull DEF Before

\* At the end of the string the end of its text is ahead.
LEMMA AheadLast ==
  ASSUME NEW t, Ahead(t, <<>>)
  PROVE  \E v \in Seq(Byte) : t = Before(Quote, v)
<1>1. PICK v \in Seq(Byte) : t = v \o End /\ Spells(v, <<>>)
  BY DEF Ahead
<1>2. v = <<>>
  BY <1>1, SpellsNothing
<1>3. t = Before(Quote, <<Nul>>)
  BY <1>1, <1>2, EndTypes, ConcatEmptySeq DEF Before
<1>4. <<Nul>> \in Seq(Byte)
  BY DEF Byte, Nul
<1>5. QED
  BY <1>3, <1>4

\* There is always something ahead.
LEMMA AheadSome ==
  ASSUME NEW t, NEW s, Ahead(t, s)
  PROVE  t # <<>> /\ t \in Seq(Byte)
<1>1. PICK v \in Seq(Byte) : t = v \o End
  BY DEF Ahead
<1>2. Len(t) = Len(v) + Len(End) /\ t \in Seq(Byte) /\ Len(v) \in Nat
  BY <1>1, EndTypes, ConcatProperties, LenProperties
<1>3. QED
  BY <1>2, EndTypes, EmptySeq

\* What is ahead begins with what is written for the next byte.
LEMMA AheadFirst ==
  ASSUME NEW t, NEW s \in Seq(Byte), s # <<>>, Ahead(t, s)
  PROVE  \E w \in Seq(Byte) : t = Escaped(s[1]) \o w /\ Ahead(w, Tail(s))
<1>1. PICK v \in Seq(Byte) : t = v \o End /\ Spells(v, s)
  BY DEF Ahead
<1>2. PICK u \in Seq(Byte) : v = Escaped(s[1]) \o u /\ Spells(u, Tail(s))
  BY <1>1, SpellsFirst
<1>3. Escaped(s[1]) \in Seq(Byte)
  <2>1. 1 \in 1..Len(s)
    BY EmptySeq
  <2>2. s[1] \in Byte
    BY <2>1, ElementOfSeq
  <2>3. QED
    BY <2>2, EscapedForms
<1>4. t = Escaped(s[1]) \o (u \o End) /\ u \o End \in Seq(Byte)
  <2> DEFINE x == Escaped(s[1])
  <2>1. x \in Seq(Byte) /\ t = (x \o u) \o End
    BY <1>1, <1>2, <1>3
  <2> HIDE DEF x
  <2>2. (x \o u) \o End = x \o (u \o End)
    BY <2>1, EndTypes, Associates, SMTT(30)
  <2>3. u \o End \in Seq(Byte)
    BY EndTypes, ConcatProperties
  <2>4. QED
    BY <2>1, <2>2, <2>3 DEF x
<1>5. QED
  BY <1>2, <1>4 DEF Ahead

\* What is left of a string behind its first k bytes.
Left(s, k) == SubSeq(s, k + 1, Len(s))

LEMMA LeftTypes ==
  ASSUME NEW s \in Seq(Byte), NEW k \in Nat, k <= Len(s)
  PROVE  /\ Left(s, k) \in Seq(Byte)
         /\ k = Len(s) => Left(s, k) = <<>>
         /\ k < Len(s) => Left(s, k) # <<>> /\ Left(s, k)[1] = s[k + 1] /\ Tail(Left(s, k)) = Left(s, k + 1)
<1>1. Len(s) \in Nat
  BY LenProperties
<1>2. /\ Left(s, k) \in Seq(Byte)
      /\ Len(Left(s, k)) = IF k + 1 <= Len(s) THEN Len(s) - (k + 1) + 1 ELSE 0
  <2>1. \A i \in (k + 1)..Len(s) : s[i] \in Byte
    BY <1>1, ElementOfSeq
  <2>2. QED
    BY <1>1, <2>1, SubSeqProperties DEF Left
<1>3. CASE k = Len(s)
  BY <1>1, <1>2, <1>3, EmptySeq
<1>4. CASE k < Len(s)
  <2>1. k + 1 \in 1..Len(s) /\ Len(s) \in (k + 1)..Len(s)
    BY <1>1, <1>4
  <2>2. Head(Left(s, k)) = s[k + 1] /\ Tail(Left(s, k)) = Left(s, k + 1)
    BY <2>1, HeadTailOfSubSeq DEF Left
  <2>3. Left(s, k) # <<>>
    BY <1>1, <1>2, <1>4, EmptySeq
  <2>4. QED
    BY <1>2, <1>4, <2>2, <2>3, <1>1
<1>5. QED
  BY <1>1, <1>2, <1>3, <1>4

\* One more byte of a string.
LEMMA OneByteMore ==
  ASSUME NEW s \in Seq(Byte), NEW k \in Nat, k < Len(s)
  PROVE  /\ SubSeq(s, 1, k + 1) = SubSeq(s, 1, k) \o <<s[k + 1]>> /\ s[k + 1] \in Byte
         /\ SubSeq(s, 1, k) \in Seq(Byte) /\ Len(SubSeq(s, 1, k)) = k
<1>1. Len(s) \in Nat
  BY LenProperties
<1>2. k + 1 \in 1..Len(s) /\ 1 \in 1..Len(s) /\ k + 1 - 1 = k /\ k + 1 \in 1..Len(s)
  BY <1>1
<1>3. SubSeq(s, 1, k + 1) = SubSeq(s, 1, k + 1 - 1) \o <<s[k + 1]>>
  BY <1>2, SubSeqRecursiveSecond
<1>4. \A i \in 1..k : s[i] \in Byte
  BY <1>1, ElementOfSeq
<1>5. SubSeq(s, 1, k) \in Seq(Byte) /\ Len(SubSeq(s, 1, k)) = IF 1 <= k THEN k - 1 + 1 ELSE 0
  BY <1>4, SubSeqProperties
<1>6. QED
  BY <1>2, <1>3, <1>5, ElementOfSeq

-----------------------------------------------------------------------------
(* A step of the reader.                                                   *)

\* A text that has a first character is not empty.
LEMMA SomeFirst ==
  ASSUME NEW p \in Byte, NEW r \in Seq(Byte)
  PROVE  Before(p, r) \in Seq(Byte) /\ Before(p, r) # <<>>
<1> DEFINE x == <<p>>
<1>1. x \in Seq(Byte) /\ Len(x) = 1 /\ Len(r) \in Nat
  BY LenProperties
<1> HIDE DEF x
<1>2. x \o r \in Seq(Byte) /\ Len(x \o r) = Len(x) + Len(r)
  BY <1>1, ConcatProperties
<1>3. x \o r # <<>>
  BY <1>1, <1>2, EmptySeq
<1>4. QED
  BY <1>2, <1>3 DEF x, Before

\* The ways a byte is written, in front of a text.
LEMMA EscapedBefore ==
  ASSUME NEW c \in Byte, NEW w \in Seq(Byte)
  PROVE  \/ c \notin {Quote, Backslash} /\ c >= 32 /\ Escaped(c) \o w = Before(c, w)
         \/ \E e \in Byte : /\ Escaped(c) \o w = Before(Backslash, Before(e, w))
                            /\ Unescaped(e) = c /\ c # 0
         \/ c < 32 /\ Escaped(c) \o w = Before(Backslash, Before(U, Before(c, w)))
<1>0. Backslash \in Byte /\ U \in Byte
  BY DEF Byte, Backslash, U
<1>1. CASE c \notin {Quote, Backslash} /\ c >= 32 /\ Escaped(c) = <<c>>
  BY <1>1 DEF Before
<1>2. ASSUME NEW e \in Byte, Escaped(c) = <<Backslash, e>>, Unescaped(e) = c, c # 0
      PROVE  Escaped(c) \o w = Before(Backslash, Before(e, w))
  <2>1. <<Backslash, e>> \o w = Before(Backslash, Before(e, w))
    BY <1>0, TwoFirst
  <2>2. QED
    BY <1>2, <2>1, Zenon
<1>3. ASSUME Escaped(c) = <<Backslash, U, c>>
      PROVE  Escaped(c) \o w = Before(Backslash, Before(U, Before(c, w)))
  <2>1. <<Backslash, U, c>> \o w = Before(Backslash, Before(U, Before(c, w)))
    BY <1>0, ThreeFirst
  <2>2. QED
    BY <1>3, <2>1, Zenon
<1>4. \/ c \notin {Quote, Backslash} /\ c >= 32 /\ Escaped(c) = <<c>>
      \/ \E e \in Byte : Escaped(c) = <<Backslash, e>> /\ Unescaped(e) = c /\ c # 0
      \/ c < 32 /\ Escaped(c) = <<Backslash, U, c>>
  BY EscapedForms
<1>5. QED
  BY <1>1, <1>2, <1>3, <1>4, Zenon

\* The bytes b are the first of the string s, and the text spells the rest.
Resumes(b, ahead, s) ==
    Len(b) <= Len(s) /\ b = SubSeq(s, 1, Len(b)) /\ Ahead(ahead, Left(s, Len(b)))

\* The string has ended, or what is written for its next byte comes first.
LEMMA ResumesNext ==
  ASSUME NEW s \in Seq(Byte), NEW b \in Seq(Byte), NEW t, Resumes(b, t, s)
  PROVE  \/ b = s /\ \E v \in Seq(Byte) : t = Before(Quote, v)
         \/ \E c \in Byte, w \in Seq(Byte) :
               t = Escaped(c) \o w /\ w # <<>> /\ Resumes(b \o <<c>>, w, s)
<1> DEFINE k == Len(b)
<1>1. k \in Nat /\ Len(s) \in Nat /\ k <= Len(s) /\ b = SubSeq(s, 1, k) /\ Ahead(t, Left(s, k))
  BY LenProperties DEF Resumes
<1> HIDE DEF k
<1>2. CASE k = Len(s)
  <2>1. b = s
    BY <1>1, <1>2, SubSeqFull
  <2>2. Left(s, k) = <<>>
    BY <1>1, <1>2, LeftTypes
  <2>3. Ahead(t, <<>>)
    BY <1>1, <2>2
  <2>4. \E v \in Seq(Byte) : t = Before(Quote, v)
    BY <2>3, AheadLast
  <2>5. QED
    BY <2>1, <2>4
<1>3. CASE k < Len(s)
  <2> DEFINE left == Left(s, k)
  <2>1. left \in Seq(Byte) /\ left # <<>> /\ left[1] = s[k + 1] /\ Tail(left) = Left(s, k + 1)
    BY <1>1, <1>3, LeftTypes
  <2>2. Ahead(t, left)
    BY <1>1
  <2> HIDE DEF left
  <2>3. PICK w \in Seq(Byte) : t = Escaped(left[1]) \o w /\ Ahead(w, Tail(left))
    BY <2>1, <2>2, AheadFirst
  <2>4. w # <<>>
    BY <2>3, AheadSome
  <2> DEFINE c == s[k + 1]  n == b \o <<c>>
  <2>5. c \in Byte /\ SubSeq(s, 1, k + 1) = SubSeq(s, 1, k) \o <<s[k + 1]>>
    BY <1>1, <1>3, OneByteMore
  <2>6. n = SubSeq(s, 1, k + 1)
    BY <1>1, <2>5
  <2>7. Len(n) = k + 1
    <3> DEFINE m == k + 1
    <3>1. m <= Len(s) /\ m \in Nat /\ 1 <= m /\ m - 1 + 1 = m
      BY <1>1, <1>3
    <3>2. n = SubSeq(s, 1, m)
      BY <2>6
    <3> HIDE DEF m, n
    <3>3. \A i \in 1..m : s[i] \in Byte
      BY <1>1, <3>1, ElementOfSeq
    <3>4. Len(SubSeq(s, 1, m)) = IF 1 <= m THEN m - 1 + 1 ELSE 0
      BY <3>1, <3>3, SubSeqProperties
    <3>5. QED
      BY <3>1, <3>2, <3>4 DEF m
  <2> HIDE DEF n
  <2>8. Resumes(n, w, s)
    <3>1. Len(n) <= Len(s)
      BY <1>1, <1>3, <2>7
    <3>2. n = SubSeq(s, 1, Len(n)) /\ Ahead(w, Left(s, Len(n)))
      BY <2>1, <2>3, <2>6, <2>7
    <3>3. QED
      BY <3>1, <3>2 DEF Resumes
  <2>9. QED
    BY <2>1, <2>3, <2>4, <2>5, <2>8 DEF n
<1>4. k = Len(s) \/ k < Len(s)
  BY <1>1
<1>5. QED
  BY <1>2, <1>3, <1>4, Zenon

\* A character is the closing quote, or a byte of the string, or begins an escape.
LEMMA ReadsByte ==
  ASSUME NEW s \in Seq(Byte), NEW b \in Seq(Byte), NEW p \in Byte, NEW r \in Seq(Byte),
         Resumes(b, Before(p, r), s)
  PROVE  \/ p = Quote /\ b = s
         \/ p \notin {Quote, Backslash} /\ p >= 32 /\ r # <<>> /\ Resumes(b \o <<p>>, r, s)
         \/ p = Backslash /\ r # <<>>
<1>0. Backslash \in Byte /\ U \in Byte /\ Quote \in Byte
  BY DEF Byte, Backslash, U, Quote
<1>1. ASSUME b = s, NEW v \in Seq(Byte), Before(p, r) = Before(Quote, v)
      PROVE  p = Quote /\ b = s
  BY <1>0, <1>1, FirstTells
<1>2. ASSUME NEW c \in Byte, NEW w \in Seq(Byte),
             Before(p, r) = Escaped(c) \o w, w # <<>>, Resumes(b \o <<c>>, w, s)
      PROVE  \/ p \notin {Quote, Backslash} /\ p >= 32 /\ r # <<>> /\ Resumes(b \o <<p>>, r, s)
             \/ p = Backslash /\ r # <<>>
  <2>1. CASE c \notin {Quote, Backslash} /\ c >= 32 /\ Escaped(c) \o w = Before(c, w)
    <3>1. p = c /\ r = w
      BY <1>2, <2>1, FirstTells
    <3>2. QED
      BY <1>2, <2>1, <3>1
  <2>2. ASSUME NEW e \in Byte, Escaped(c) \o w = Before(Backslash, Before(e, w))
        PROVE  p = Backslash /\ r # <<>>
    <3>1. Before(e, w) \in Seq(Byte) /\ Before(e, w) # <<>>
      BY SomeFirst
    <3>2. QED
      BY <1>0, <1>2, <2>2, <3>1, FirstTells
  <2>3. CASE Escaped(c) \o w = Before(Backslash, Before(U, Before(c, w)))
    <3> DEFINE v == Before(U, Before(c, w))
    <3>1. v \in Seq(Byte) /\ v # <<>>
      BY <1>0, SomeFirst
    <3>2. Before(p, r) = Before(Backslash, v)
      BY <1>2, <2>3
    <3> HIDE DEF v
    <3>3. QED
      BY <1>0, <3>1, <3>2, FirstTells
  <2>4. QED
    BY <2>1, <2>2, <2>3, EscapedBefore
<1>3. QED
  BY <1>1, <1>2, ResumesNext

\* Behind a backslash is the letter of a byte's escape, or U.
LEMMA ReadsEscape ==
  ASSUME NEW s \in Seq(Byte), NEW b \in Seq(Byte), NEW p \in Byte, NEW r \in Seq(Byte),
         Resumes(b, Before(Backslash, Before(p, r)), s)
  PROVE  /\ r # <<>>
         /\ \/ Unescaped(p) # 0 /\ Unescaped(p) \in Byte /\ Resumes(b \o <<Unescaped(p)>>, r, s)
            \/ p = U
<1>0. Backslash \in Byte /\ U \in Byte /\ Quote \in Byte /\ Quote # Backslash
  BY DEF Byte, Backslash, U, Quote
<1> DEFINE t == Before(p, r)
<1>1. t \in Seq(Byte)
  BY SomeFirst
<1>2. Resumes(b, Before(Backslash, t), s)
  OBVIOUS
<1> HIDE DEF t
<1>3. ~ \E v \in Seq(Byte) : Before(Backslash, t) = Before(Quote, v)
  BY <1>0, <1>1, FirstTells
<1>4. PICK c \in Byte, w \in Seq(Byte) :
         Before(Backslash, t) = Escaped(c) \o w /\ w # <<>> /\ Resumes(b \o <<c>>, w, s)
  BY <1>2, <1>3, ResumesNext
<1>5. ~(c \notin {Quote, Backslash} /\ c >= 32 /\ Escaped(c) \o w = Before(c, w))
  BY <1>0, <1>1, <1>4, FirstTells
<1>6. ASSUME NEW e \in Byte, Escaped(c) \o w = Before(Backslash, Before(e, w)), Unescaped(e) = c, c # 0
      PROVE  r # <<>> /\ Unescaped(p) = c /\ r = w
  <2>1. Before(e, w) \in Seq(Byte)
    BY SomeFirst
  <2>2. t = Before(e, w)
    BY <1>0, <1>1, <1>4, <1>6, <2>1, FirstTells
  <2>3. p = e /\ r = w
    BY <2>2, FirstTells DEF t
  <2>4. QED
    BY <1>4, <1>6, <2>3
<1>7. ASSUME Escaped(c) \o w = Before(Backslash, Before(U, Before(c, w)))
      PROVE  p = U /\ r # <<>>
  <2> DEFINE v == Before(c, w)
  <2>1. v \in Seq(Byte) /\ v # <<>>
    BY SomeFirst
  <2>2. Before(Backslash, t) = Before(Backslash, Before(U, v))
    BY <1>4, <1>7
  <2> HIDE DEF v
  <2>3. Before(U, v) \in Seq(Byte)
    BY <1>0, <2>1, SomeFirst
  <2>4. t = Before(U, v)
    BY <1>0, <1>1, <2>2, <2>3, FirstTells
  <2>5. p = U /\ r = v
    BY <1>0, <2>1, <2>4, FirstTells DEF t
  <2>6. QED
    BY <2>1, <2>5
<1>8. QED
  BY <1>4, <1>5, <1>6, <1>7, EscapedBefore

\* The number of an escape of the writer is the byte.
LEMMA ReadsHex ==
  ASSUME NEW s \in Seq(Byte), NEW b \in Seq(Byte), NEW p \in Byte, NEW r \in Seq(Byte),
         Resumes(b, Before(Backslash, Before(U, Before(p, r))), s)
  PROVE  r # <<>> /\ p < 32 /\ Resumes(b \o <<p>>, r, s)
<1>0. Backslash \in Byte /\ U \in Byte /\ Quote \in Byte /\ Quote # Backslash
  BY DEF Byte, Backslash, U, Quote
<1> DEFINE t == Before(p, r)  ut == Before(U, t)
<1>1. t \in Seq(Byte)
  BY SomeFirst
<1>2. Resumes(b, Before(Backslash, ut), s)
  OBVIOUS
<1> HIDE DEF t
<1>3. ut \in Seq(Byte)
  BY <1>0, <1>1, SomeFirst
<1> HIDE DEF ut
<1>4. ~ \E v \in Seq(Byte) : Before(Backslash, ut) = Before(Quote, v)
  BY <1>0, <1>3, FirstTells
<1>5. PICK c \in Byte, w \in Seq(Byte) :
         Before(Backslash, ut) = Escaped(c) \o w /\ w # <<>> /\ Resumes(b \o <<c>>, w, s)
  BY <1>2, <1>4, ResumesNext
<1>6. ~(c \notin {Quote, Backslash} /\ c >= 32 /\ Escaped(c) \o w = Before(c, w))
  BY <1>0, <1>3, <1>5, FirstTells
<1>7. ASSUME NEW e \in Byte, Escaped(c) \o w = Before(Backslash, Before(e, w)), Unescaped(e) = c, c # 0
      PROVE  FALSE
  <2>1. Before(e, w) \in Seq(Byte)
    BY SomeFirst
  <2>2. ut = Before(e, w)
    BY <1>0, <1>3, <1>5, <1>7, <2>1, FirstTells
  <2>3. U = e
    BY <1>0, <1>1, <2>2, FirstTells DEF ut
  <2>4. QED
    BY <1>7, <2>3 DEF Unescaped, U, Quote, Slash, Backslash
<1>8. c < 32 /\ Escaped(c) \o w = Before(Backslash, Before(U, Before(c, w)))
  BY <1>6, <1>7, EscapedBefore
<1>9. p = c /\ r = w
  <2> DEFINE v == Before(c, w)
  <2>1. v \in Seq(Byte)
    BY SomeFirst
  <2>2. Before(Backslash, ut) = Before(Backslash, Before(U, v))
    BY <1>5, <1>8
  <2> HIDE DEF v
  <2>3. Before(U, v) \in Seq(Byte)
    BY <1>0, <2>1, SomeFirst
  <2>4. ut = Before(U, v)
    BY <1>0, <1>3, <2>2, <2>3, FirstTells
  <2>5. t = v
    BY <1>0, <1>1, <2>1, <2>4, FirstTells DEF ut
  <2>6. QED
    BY <2>5, FirstTells DEF t, v
<1>10. QED
  BY <1>5, <1>8, <1>9

-----------------------------------------------------------------------------
(* The invariant.                                                          *)

StringTypes ==
    /\ at \in {"string", "escape", "pair", "pairU"} => peek \in Byte
    /\ at \in {"hex", "hex2"} /\ peek # NotHexa => peek \in Nat /\ peek < 65536
    /\ at \in {"pair", "pairU", "hex2"} => codepoint \in Nat /\ codepoint >= 55296 /\ codepoint <= 56319
    /\ rest \in Seq(Byte) /\ bytes \in Seq(Byte) /\ first \in Seq(Byte)
    /\ codes \in Seq(CodePoint)
    /\ at = "closed" => bytes # <<>>
    /\ at # "done" => error = "None"

\* Before a text is written.
FirstInv == ~IsWritten => rest = <<>> /\ scanned = 0 /\ at # "writing"

\* The value holds the string, and what is written of it is never refused.
StoredInv ==
    IsWritten => stored = Stored(first) /\ error = "None" /\ at \notin {"pair", "pairU", "hex2"}

\* So much of the string is written.
WritingInv ==
    at = "writing" =>
        /\ scanned \in Nat /\ scanned <= Len(first) /\ bytes = <<>>
        /\ Spells(rest, SubSeq(first, 1, scanned))

\* What was read is the beginning of the string, and what is ahead spells the rest: the reader
\* has taken the first characters of an escape.
ReadingInv ==
    IsWritten =>
        /\ at = "string" => Resumes(bytes, Before(peek, rest), first)
        /\ at = "escape" => Resumes(bytes, Before(Backslash, Before(peek, rest)), first)
        /\ at = "hex" => peek \in Byte
                         /\ Resumes(bytes, Before(Backslash, Before(U, Before(peek, rest))), first)
        /\ at \in {"closed", "done"} => bytes = Append(first, Nul)

StringInv == StringTypes /\ FirstInv /\ StoredInv /\ WritingInv /\ ReadingInv

\* A text that is being chosen begins without a value.
LEMMA StringBegins == StringInit => StringInv
<1> SUFFICES ASSUME StringInit PROVE StringInv
  OBVIOUS
<1>1. ~IsWritten
  BY DEF StringInit, IsWritten
<1>2. peek \in Byte
  BY StringAssumption DEF StringInit, Byte
<1>3. StringTypes
  BY <1>2 DEF StringInit, StringTypes
<1>4. QED
  BY <1>1, <1>3 DEF StringInit, StringInv, FirstInv, StoredInv, WritingInv, ReadingInv

\* The next character of a text that was written.
LEMMA TakesWritten ==
  ASSUME IsWritten, rest \in Seq(Byte), rest # <<>>, NEW n, Take(n)
  PROVE  at' = n /\ peek' \in Byte /\ rest' \in Seq(Byte) /\ Before(peek', rest') = rest
<1>1. at' = n /\ peek' = Head(rest) /\ rest' = Tail(rest)
  BY DEF Take
<1>2. QED
  BY <1>1, NextTaken

\* The next character of a text that is being chosen.
LEMMA TakesChosen ==
  ASSUME ~IsWritten, NEW n, Take(n)
  PROVE  /\ at' = n /\ rest' = rest
         /\ n \in {"hex", "hex2"} => peek' = NotHexa \/ (peek' \in Nat /\ peek' < 65536)
         /\ n \notin {"hex", "hex2"} => peek' \in Byte
<1>1. /\ at' = n /\ rest' = rest
      /\ peek' \in CASE n \in {"hex", "hex2"} -> Hexas
                     [] n \notin {"hex", "hex2"} /\ count' < MaxString -> Bytes
                     [] OTHER -> {Quote, Nul}
  BY DEF Take
<1>2. CASE n \in {"hex", "hex2"}
  BY <1>1, <1>2, StringAssumption
<1>3. CASE n \notin {"hex", "hex2"}
  <2>1. CASE count' < MaxString
    BY <1>1, <1>3, <2>1, StringAssumption DEF Byte
  <2>2. CASE ~(count' < MaxString)
    BY <1>1, <1>3, <2>2 DEF Byte, Quote, Nul
  <2>3. QED
    BY <2>1, <2>2
<1>4. QED
  BY <1>1, <1>2, <1>3

\* A refused text has no value.
LEMMA FailKeeps ==
  ASSUME StringInv, ~IsWritten, NEW e, Fail(e), UNCHANGED <<scanned, stored, first>>
  PROVE  StringInv'
<1>1. /\ at' = "done" /\ peek' = peek /\ rest' = rest /\ codes' = codes /\ bytes' = bytes
      /\ scanned' = scanned /\ stored' = stored /\ first' = first
  BY DEF Fail
<1>2. ~IsWritten'
  BY <1>1 DEF IsWritten
<1>3. StringTypes'
  BY <1>1 DEF StringInv, StringTypes
<1>4. FirstInv'
  BY <1>1 DEF StringInv, FirstInv
<1>5. QED
  BY <1>1, <1>2, <1>3, <1>4 DEF StringInv, StoredInv, WritingInv, ReadingInv

\* A byte is taken for itself, closes the string or begins an escape.
LEMMA ParseByteKeeps == ASSUME StringInv, ParseByte PROVE StringInv'
<1>1. /\ at = "string" /\ scanned' = scanned /\ stored' = stored /\ first' = first
      /\ peek \in Byte /\ rest \in Seq(Byte) /\ bytes \in Seq(Byte) /\ first \in Seq(Byte)
      /\ codes \in Seq(CodePoint) /\ error = "None"
  BY DEF ParseByte, StringInv, StringTypes
<1>2. /\ peek = Backslash => Take("escape") /\ bytes' = bytes /\ codes' = codes /\ error' = error
      /\ peek = Quote => /\ at' = "closed" /\ bytes' = bytes \o <<Nul>> /\ peek' = peek /\ rest' = rest
                         /\ codes' = codes /\ error' = error
      /\ peek = Nul \/ peek \in 1..31 => \E e : Fail(e)
      /\ peek \notin {Backslash, Quote} /\ peek >= 32 =>
            Take("string") /\ bytes' = bytes \o <<peek>> /\ codes' = codes /\ error' = error
  <2> DEFINE Begins == Take("escape") /\ UNCHANGED <<bytes, codepoint, codes, error>>
             Closes == /\ at' = "closed" /\ PutBytes(<<Nul>>)
                       /\ UNCHANGED <<peek, rest, count, codepoint, codes, error>>
             Misses == Fail("StringMissQuotationMark")
             Refuses == Fail("StringEscapeInvalid")
             Takes == Take("string") /\ PutBytes(<<peek>>) /\ UNCHANGED <<codepoint, codes, error>>
  <2>0. /\ peek \in Nat /\ Backslash = 92 /\ Quote = 34 /\ Nul = 0
        /\ peek \in 1..31 <=> peek >= 1 /\ peek <= 31
    BY <1>1 DEF Byte, Backslash, Quote, Nul
  <2>1. ASSUME peek = Backslash PROVE Begins
    BY <1>1, <2>0, <2>1, SMT DEF ParseByte
  <2>2. ASSUME peek = Quote PROVE Closes
    BY <1>1, <2>0, <2>2, SMT DEF ParseByte
  <2>3. ASSUME peek = Nul PROVE Misses
    BY <1>1, <2>0, <2>3, SMT DEF ParseByte
  <2>4. ASSUME peek \in 1..31 PROVE Refuses
    BY <1>1, <2>0, <2>4, SMT DEF ParseByte
  <2>5. ASSUME peek \notin {Backslash, Quote}, peek >= 32 PROVE Takes
    <3>1. peek # Backslash /\ peek # Quote /\ peek # Nul /\ ~(peek \in 1..31)
      BY <2>0, <2>5
    <3> HIDE DEF Takes
    <3>2. (CASE peek = Backslash -> Begins [] peek = Quote -> Closes [] peek = Nul -> Misses
             [] peek \in 1..31 -> Refuses [] OTHER -> Takes)
      BY <1>1 DEF ParseByte, Takes
    <3> HIDE DEF Begins, Closes, Misses, Refuses
    <3>3. QED
      BY <3>1, <3>2
  <2>6. (Misses => \E e : Fail(e)) /\ (Refuses => \E e : Fail(e))
    OBVIOUS
  <2> HIDE DEF Misses, Refuses
  <2>7. QED
    BY <2>1, <2>2, <2>3, <2>4, <2>5, <2>6 DEF PutBytes
<1>3. IsWritten' = IsWritten
  BY <1>1 DEF IsWritten
<1>4. bytes \o <<Nul>> = Append(bytes, Nul) /\ bytes \o <<Nul>> \in Seq(Byte) /\ bytes \o <<Nul>> # <<>>
  <2>1. Nul \in Byte
    BY DEF Byte, Nul
  <2>2. bytes \o <<Nul>> = Append(bytes, Nul)
    BY <1>1, <2>1, AppendIsConcat
  <2>3. QED
    BY <1>1, <2>1, <2>2, AppendProperties
<1>5. bytes \o <<peek>> \in Seq(Byte)
  <2>1. bytes \o <<peek>> = Append(bytes, peek)
    BY <1>1, AppendIsConcat
  <2>2. QED
    BY <1>1, <2>1, AppendProperties
<1>6. CASE IsWritten
  <2>1. Resumes(bytes, Before(peek, rest), first)
    BY <1>1, <1>6 DEF StringInv, ReadingInv
  <2>2. \/ peek = Quote /\ bytes = first
        \/ peek \notin {Quote, Backslash} /\ peek >= 32 /\ rest # <<>> /\ Resumes(bytes \o <<peek>>, rest, first)
        \/ peek = Backslash /\ rest # <<>>
    BY <1>1, <2>1, ReadsByte
  <2>3. FirstInv'
    BY <1>3, <1>6 DEF FirstInv
  <2>4. stored' = Stored(first')
    BY <1>1, <1>6 DEF StringInv, StoredInv
  <2>5. CASE peek = Quote /\ bytes = first
    <3>1. /\ at' = "closed" /\ bytes' = Append(first, Nul) /\ bytes' \in Seq(Byte) /\ bytes' # <<>>
          /\ rest' = rest /\ codes' = codes /\ error' = error
      BY <1>2, <1>4, <2>5
    <3>2. StringTypes' /\ StoredInv' /\ WritingInv' /\ ReadingInv'
      BY <1>1, <2>4, <3>1 DEF StringTypes, StoredInv, WritingInv, ReadingInv
    <3>3. QED
      BY <2>3, <3>2 DEF StringInv
  <2>6. CASE peek \notin {Quote, Backslash} /\ peek >= 32 /\ rest # <<>> /\ Resumes(bytes \o <<peek>>, rest, first)
    <3>1. Take("string") /\ bytes' = bytes \o <<peek>> /\ codes' = codes /\ error' = error
      BY <1>2, <2>6
    <3>2. at' = "string" /\ peek' \in Byte /\ rest' \in Seq(Byte) /\ Before(peek', rest') = rest
      BY <1>1, <1>6, <2>6, <3>1, TakesWritten
    <3>3. StringTypes' /\ StoredInv' /\ WritingInv'
      BY <1>1, <1>5, <2>4, <3>1, <3>2 DEF StringTypes, StoredInv, WritingInv
    <3>4. ReadingInv'
      BY <1>1, <2>6, <3>1, <3>2 DEF ReadingInv
    <3>5. QED
      BY <2>3, <3>3, <3>4 DEF StringInv
  <2>7. CASE peek = Backslash /\ rest # <<>>
    <3>1. Take("escape") /\ bytes' = bytes /\ codes' = codes /\ error' = error
      BY <1>2, <2>7
    <3>2. at' = "escape" /\ peek' \in Byte /\ rest' \in Seq(Byte) /\ Before(peek', rest') = rest
      BY <1>1, <1>6, <2>7, <3>1, TakesWritten
    <3>3. StringTypes' /\ StoredInv' /\ WritingInv'
      BY <1>1, <2>4, <3>1, <3>2 DEF StringTypes, StoredInv, WritingInv
    <3>4. ReadingInv'
      BY <1>1, <2>1, <2>7, <3>1, <3>2 DEF ReadingInv
    <3>5. QED
      BY <2>3, <3>3, <3>4 DEF StringInv
  <2>8. QED
    BY <2>2, <2>5, <2>6, <2>7
<1>7. CASE ~IsWritten
  <2>1. rest = <<>> /\ scanned = 0
    BY <1>7 DEF StringInv, FirstInv
  <2>2. CASE peek = Nul \/ peek \in 1..31
    BY <1>1, <1>2, <1>7, <2>2, FailKeeps
  <2>3. CASE peek = Quote
    <3>1. /\ at' = "closed" /\ bytes' \in Seq(Byte) /\ bytes' # <<>>
          /\ rest' = rest /\ codes' = codes /\ error' = error
      BY <1>2, <1>4, <2>3
    <3>2. StringTypes' /\ FirstInv' /\ WritingInv'
      BY <1>1, <2>1, <3>1 DEF StringTypes, FirstInv, WritingInv
    <3>3. QED
      BY <1>3, <1>7, <3>2 DEF StringInv, StoredInv, ReadingInv
  <2>4. CASE peek = Backslash
    <3>1. Take("escape") /\ bytes' = bytes /\ codes' = codes /\ error' = error
      BY <1>2, <2>4
    <3>2. at' = "escape" /\ rest' = rest /\ peek' \in Byte
      BY <1>7, <3>1, TakesChosen
    <3>3. StringTypes' /\ FirstInv' /\ WritingInv'
      BY <1>1, <2>1, <3>1, <3>2 DEF StringTypes, FirstInv, WritingInv
    <3>4. QED
      BY <1>3, <1>7, <3>3 DEF StringInv, StoredInv, ReadingInv
  <2>5. CASE peek \notin {Backslash, Quote} /\ peek >= 32
    <3>1. Take("string") /\ bytes' = bytes \o <<peek>> /\ codes' = codes /\ error' = error
      BY <1>2, <2>5
    <3>2. at' = "string" /\ rest' = rest /\ peek' \in Byte
      BY <1>7, <3>1, TakesChosen
    <3>3. StringTypes' /\ FirstInv' /\ WritingInv'
      BY <1>1, <1>5, <2>1, <3>1, <3>2 DEF StringTypes, FirstInv, WritingInv
    <3>4. QED
      BY <1>3, <1>7, <3>3 DEF StringInv, StoredInv, ReadingInv
  <2>6. QED
    BY <1>1, <2>2, <2>3, <2>4, <2>5 DEF Byte, Nul
<1>8. QED
  BY <1>6, <1>7

\* An escape's letter stands for a byte, and U for none.
LEMMA UnescapedTypes == (\A e \in Byte : Unescaped(e) \in Byte) /\ Unescaped(U) = 0
<1>1. ASSUME NEW e \in Byte PROVE Unescaped(e) \in Byte
  BY SMT DEF Unescaped, Byte, Quote, Slash, Backslash
<1>2. Unescaped(U) = 0
  BY SMT DEF Unescaped, U, Quote, Slash, Backslash
<1>3. QED
  BY <1>1, <1>2

\* The letter behind a backslash.
LEMMA ParseEscapeKeeps == ASSUME StringInv, ParseEscape PROVE StringInv'
<1>1. /\ at = "escape" /\ scanned' = scanned /\ stored' = stored /\ first' = first
      /\ peek \in Byte /\ rest \in Seq(Byte) /\ bytes \in Seq(Byte) /\ first \in Seq(Byte)
      /\ codes \in Seq(CodePoint) /\ error = "None"
  BY DEF ParseEscape, StringInv, StringTypes
<1> DEFINE byte == Unescaped(peek)
<1>2. byte \in Byte
  BY <1>1, UnescapedTypes
<1>3. /\ byte # 0 => Take("string") /\ bytes' = bytes \o <<byte>> /\ codes' = codes /\ error' = error
      /\ byte = 0 /\ peek = U => Take("hex") /\ bytes' = bytes /\ codes' = codes /\ error' = error
      /\ byte = 0 /\ peek # U => \E e : Fail(e)
  <2>1. ASSUME byte # 0
        PROVE  Take("string") /\ bytes' = bytes \o <<byte>> /\ codes' = codes /\ error' = error
    BY <1>1, <2>1, UnescapedTypes, Zenon DEF ParseEscape, PutBytes
  <2>2. ASSUME byte = 0, peek = U
        PROVE  Take("hex") /\ bytes' = bytes /\ codes' = codes /\ error' = error
    BY <1>1, <2>2 DEF ParseEscape
  <2>3. ASSUME byte = 0, peek # U
        PROVE  \E e : Fail(e)
    BY <1>1, <2>3 DEF ParseEscape
  <2>4. QED
    BY <2>1, <2>2, <2>3
<1> HIDE DEF byte
<1>4. IsWritten' = IsWritten
  BY <1>1 DEF IsWritten
<1>5. bytes \o <<byte>> \in Seq(Byte)
  <2>1. bytes \o <<byte>> = Append(bytes, byte)
    BY <1>1, <1>2, AppendIsConcat
  <2>2. QED
    BY <1>1, <1>2, <2>1, AppendProperties
<1>6. CASE IsWritten
  <2>1. Resumes(bytes, Before(Backslash, Before(peek, rest)), first)
    BY <1>1, <1>6 DEF StringInv, ReadingInv
  <2>2. /\ rest # <<>>
        /\ (byte # 0 /\ Resumes(bytes \o <<byte>>, rest, first)) \/ peek = U
    BY <1>1, <2>1, ReadsEscape DEF byte
  <2>3. FirstInv'
    BY <1>4, <1>6 DEF FirstInv
  <2>4. stored' = Stored(first')
    BY <1>1, <1>6 DEF StringInv, StoredInv
  <2>5. CASE byte # 0 /\ Resumes(bytes \o <<byte>>, rest, first)
    <3>1. Take("string") /\ bytes' = bytes \o <<byte>> /\ codes' = codes /\ error' = error
      BY <1>3, <2>5
    <3>2. at' = "string" /\ peek' \in Byte /\ rest' \in Seq(Byte) /\ Before(peek', rest') = rest
      BY <1>1, <1>6, <2>2, <3>1, TakesWritten
    <3>3. StringTypes' /\ StoredInv' /\ WritingInv'
      BY <1>1, <1>5, <2>4, <3>1, <3>2 DEF StringTypes, StoredInv, WritingInv
    <3>4. ReadingInv'
      BY <1>1, <2>5, <3>1, <3>2 DEF ReadingInv
    <3>5. QED
      BY <2>3, <3>3, <3>4 DEF StringInv
  <2>6. CASE peek = U
    <3>0. byte = 0
      BY <2>6, UnescapedTypes DEF byte
    <3>1. Take("hex") /\ bytes' = bytes /\ codes' = codes /\ error' = error
      BY <1>3, <2>6, <3>0
    <3>2. at' = "hex" /\ peek' \in Byte /\ rest' \in Seq(Byte) /\ Before(peek', rest') = rest
      BY <1>1, <1>6, <2>2, <3>1, TakesWritten
    <3>3. peek' \in Nat /\ peek' < 65536
      BY <3>2, SMT DEF Byte
    <3>4. StringTypes' /\ StoredInv' /\ WritingInv'
      BY <1>1, <2>4, <3>1, <3>2, <3>3 DEF StringTypes, StoredInv, WritingInv
    <3>5. ReadingInv'
      BY <1>1, <2>1, <2>6, <3>1, <3>2 DEF ReadingInv
    <3>6. QED
      BY <2>3, <3>4, <3>5 DEF StringInv
  <2>7. QED
    BY <2>2, <2>5, <2>6
<1>7. CASE ~IsWritten
  <2>1. rest = <<>> /\ scanned = 0
    BY <1>7 DEF StringInv, FirstInv
  <2>2. CASE byte = 0 /\ peek # U
    BY <1>1, <1>3, <1>7, <2>2, FailKeeps
  <2>3. CASE byte # 0
    <3>1. Take("string") /\ bytes' = bytes \o <<byte>> /\ codes' = codes /\ error' = error
      BY <1>3, <2>3
    <3>2. at' = "string" /\ rest' = rest /\ peek' \in Byte
      BY <1>7, <3>1, TakesChosen
    <3>3. StringTypes' /\ FirstInv' /\ WritingInv'
      BY <1>1, <1>5, <2>1, <3>1, <3>2 DEF StringTypes, FirstInv, WritingInv
    <3>4. QED
      BY <1>4, <1>7, <3>3 DEF StringInv, StoredInv, ReadingInv
  <2>4. CASE byte = 0 /\ peek = U
    <3>1. Take("hex") /\ bytes' = bytes /\ codes' = codes /\ error' = error
      BY <1>3, <2>4
    <3>2. at' = "hex" /\ rest' = rest /\ (peek' = NotHexa \/ (peek' \in Nat /\ peek' < 65536))
      BY <1>7, <3>1, TakesChosen
    <3>3. StringTypes' /\ FirstInv' /\ WritingInv'
      BY <1>1, <2>1, <3>1, <3>2 DEF StringTypes, FirstInv, WritingInv
    <3>4. QED
      BY <1>4, <1>7, <3>3 DEF StringInv, StoredInv, ReadingInv
  <2>5. QED
    BY <2>2, <2>3, <2>4
<1>8. QED
  BY <1>6, <1>7

\* What an escape puts behind the bytes.
LEMMA EncodedKeeps ==
  ASSUME NEW c \in CodePoint, bytes \in Seq(Byte), codes \in Seq(CodePoint), Encoded(c)
  PROVE  bytes' = bytes \o Encode(c) /\ bytes' \in Seq(Byte) /\ codes' \in Seq(CodePoint) /\ error' = error
<1>1. bytes' = bytes \o Encode(c) /\ codes' = Append(codes, c) /\ error' = error
  BY DEF Encoded, PutBytes
<1>2. Encode(c) \in Seq(Byte)
  BY EncodeDecodes
<1>3. QED
  BY <1>1, <1>2, ConcatProperties, AppendProperties

\* The number of an escape: a byte of the writer's, a code point or the first half of a pair.
LEMMA ParseHexKeeps == ASSUME StringInv, ParseHex PROVE StringInv'
<1>1. /\ at = "hex" /\ scanned' = scanned /\ stored' = stored /\ first' = first
      /\ peek # NotHexa => peek \in Nat /\ peek < 65536
      /\ rest \in Seq(Byte) /\ bytes \in Seq(Byte) /\ first \in Seq(Byte)
      /\ codes \in Seq(CodePoint) /\ error = "None"
  BY DEF ParseHex, StringInv, StringTypes
<1>2. HighHalf(peek) /\ peek # NotHexa => peek >= 55296 /\ peek <= 56319
  BY <1>1, SMT DEF HighHalf
<1>3. ~HighHalf(peek) /\ peek # NotHexa => peek \in CodePoint
  BY <1>1, SMT DEF HighHalf, CodePoint
<1>4. /\ peek = NotHexa => \E e : Fail(e)
      /\ HighHalf(peek) /\ peek # NotHexa => codepoint' = peek /\ Take("pair") /\ bytes' = bytes /\ codes' = codes /\ error' = error
      /\ ~HighHalf(peek) /\ peek # NotHexa => Take("string") /\ Encoded(peek)
  <2>1. ASSUME peek = NotHexa PROVE \E e : Fail(e)
    <3>1. ~HighHalf(peek)
      BY <2>1, SMT DEF HighHalf, NotHexa
    <3>2. QED
      BY <1>1, <2>1, <3>1 DEF ParseHex
  <2>2. ASSUME HighHalf(peek), peek # NotHexa
        PROVE  codepoint' = peek /\ Take("pair") /\ bytes' = bytes /\ codes' = codes /\ error' = error
    BY <1>1, <2>2, SMT DEF ParseHex
  <2>3. ASSUME ~HighHalf(peek), peek # NotHexa
        PROVE  Take("string") /\ Encoded(peek)
    BY <1>1, <2>3, SMT DEF ParseHex
  <2>4. QED
    BY <2>1, <2>2, <2>3
<1>5. IsWritten' = IsWritten
  BY <1>1 DEF IsWritten
<1>6. CASE IsWritten
  <2>1. peek \in Byte /\ Resumes(bytes, Before(Backslash, Before(U, Before(peek, rest))), first)
    BY <1>1, <1>6 DEF StringInv, ReadingInv
  <2>2. rest # <<>> /\ peek < 32 /\ Resumes(bytes \o <<peek>>, rest, first)
    BY <1>1, <2>1, ReadsHex
  <2>3. ~HighHalf(peek) /\ peek # NotHexa
    BY <2>1, <2>2, SMT DEF HighHalf, NotHexa, Byte
  <2>4. Take("string") /\ Encoded(peek) /\ peek \in CodePoint
    BY <1>3, <1>4, <2>3
  <2>5. Encode(peek) = <<peek>>
    <3>1. peek \in Nat /\ peek <= 127
      BY <2>1, <2>2, SMT DEF Byte
    <3>2. QED
      BY <3>1, EncodeOne
  <2>6. bytes' = bytes \o <<peek>> /\ bytes' \in Seq(Byte) /\ codes' \in Seq(CodePoint) /\ error' = error
    <3>1. bytes' = bytes \o Encode(peek) /\ bytes' \in Seq(Byte)
      BY <1>1, <2>4, EncodedKeeps
    <3>2. codes' \in Seq(CodePoint) /\ error' = error
      BY <1>1, <2>4, EncodedKeeps
    <3>3. QED
      BY <2>5, <3>1, <3>2
  <2>7. at' = "string" /\ peek' \in Byte /\ rest' \in Seq(Byte) /\ Before(peek', rest') = rest
    BY <1>1, <1>6, <2>2, <2>4, TakesWritten
  <2>8. FirstInv'
    BY <1>5, <1>6 DEF FirstInv
  <2>9. stored' = Stored(first')
    BY <1>1, <1>6 DEF StringInv, StoredInv
  <2>10. StringTypes' /\ StoredInv' /\ WritingInv'
    BY <1>1, <2>6, <2>7, <2>9 DEF StringTypes, StoredInv, WritingInv
  <2>11. ReadingInv'
    BY <1>1, <2>2, <2>6, <2>7 DEF ReadingInv
  <2>12. QED
    BY <2>8, <2>10, <2>11 DEF StringInv
<1>7. CASE ~IsWritten
  <2>1. rest = <<>> /\ scanned = 0
    BY <1>7 DEF StringInv, FirstInv
  <2>2. CASE peek = NotHexa
    BY <1>1, <1>4, <1>7, <2>2, FailKeeps
  <2>3. CASE HighHalf(peek) /\ peek # NotHexa
    <3>1. codepoint' = peek /\ Take("pair") /\ bytes' = bytes /\ codes' = codes /\ error' = error
      BY <1>4, <2>3
    <3>2. at' = "pair" /\ rest' = rest /\ peek' \in Byte
      BY <1>7, <3>1, TakesChosen
    <3>3. codepoint' \in Nat /\ codepoint' >= 55296 /\ codepoint' <= 56319
      BY <1>1, <2>3, <3>1, SMT DEF HighHalf
    <3>4. StringTypes' /\ FirstInv' /\ WritingInv'
      BY <1>1, <2>1, <3>1, <3>2, <3>3 DEF StringTypes, FirstInv, WritingInv
    <3>5. QED
      BY <1>5, <1>7, <3>4 DEF StringInv, StoredInv, ReadingInv
  <2>4. CASE ~HighHalf(peek) /\ peek # NotHexa
    <3>1. Take("string") /\ Encoded(peek) /\ peek \in CodePoint
      BY <1>3, <1>4, <2>4
    <3>2. at' = "string" /\ rest' = rest /\ peek' \in Byte
      BY <1>7, <3>1, TakesChosen
    <3>3. bytes' \in Seq(Byte) /\ codes' \in Seq(CodePoint) /\ error' = error
      BY <1>1, <3>1, EncodedKeeps
    <3>4. StringTypes' /\ FirstInv' /\ WritingInv'
      BY <1>1, <2>1, <3>2, <3>3 DEF StringTypes, FirstInv, WritingInv
    <3>5. QED
      BY <1>5, <1>7, <3>4 DEF StringInv, StoredInv, ReadingInv
  <2>5. QED
    BY <2>2, <2>3, <2>4
<1>8. QED
  BY <1>6, <1>7

\* The second half of a pair, which no text has that was written.
LEMMA ParsePairKeeps == ASSUME StringInv, ParsePair PROVE StringInv'
<1>1. /\ at \in {"pair", "pairU", "hex2"} /\ scanned' = scanned /\ stored' = stored /\ first' = first
      /\ at \in {"pair", "pairU"} => peek \in Byte
      /\ at = "hex2" /\ peek # NotHexa => peek \in Nat /\ peek < 65536
      /\ codepoint \in Nat /\ codepoint >= 55296 /\ codepoint <= 56319
      /\ rest \in Seq(Byte) /\ bytes \in Seq(Byte) /\ first \in Seq(Byte)
      /\ codes \in Seq(CodePoint) /\ error = "None"
  BY DEF ParsePair, StringInv, StringTypes
<1>2. ~IsWritten /\ ~IsWritten' /\ rest = <<>> /\ scanned = 0
  BY <1>1 DEF StringInv, StoredInv, FirstInv, IsWritten
<1>3. \/ \E e : Fail(e)
      \/ /\ \E n \in {"pairU", "hex2"} : Take(n)
         /\ bytes' = bytes /\ codepoint' = codepoint /\ codes' = codes /\ error' = error
      \/ \E c \in CodePoint : Take("string") /\ Encoded(c)
  <2>1. CASE at \in {"pair", "pairU"}
    BY <2>1, SMT DEF ParsePair
  <2>2. CASE at = "hex2"
    <3>1. CASE peek = NotHexa
      BY <2>2, <3>1, SMT DEF ParsePair
    <3>2. CASE peek # NotHexa /\ ~LowHalf(peek)
      BY <2>2, <3>2, SMT DEF ParsePair
    <3>3. CASE peek # NotHexa /\ LowHalf(peek)
      <4> DEFINE c == (codepoint - 55296) * 1024 + (peek - 56320) + 65536
      <4>1. peek \in Nat /\ 56320 <= peek /\ peek <= 57343
        BY <1>1, <2>2, <3>3, SMT DEF LowHalf
      <4>2. c \in Nat /\ 65536 <= c /\ c < 1114112
        BY <1>1, <4>1, SMT
      <4> HIDE DEF c
      <4>3. c \in CodePoint
        BY <4>2, SMT DEF CodePoint, HighHalf
      <4>4. Take("string") /\ Encoded(c)
        BY <2>2, <3>3, SMT DEF ParsePair, c
      <4>5. QED
        BY <4>3, <4>4
    <3>4. QED
      BY <3>1, <3>2, <3>3
  <2>3. QED
    BY <1>1, <2>1, <2>2
<1>4. CASE \E e : Fail(e)
  BY <1>1, <1>2, <1>4, FailKeeps
<1>5. ASSUME NEW n \in {"pairU", "hex2"}, Take(n),
             bytes' = bytes, codepoint' = codepoint, codes' = codes, error' = error
      PROVE  StringInv'
  <2>1. /\ at' = n /\ rest' = rest
        /\ n = "hex2" => peek' = NotHexa \/ (peek' \in Nat /\ peek' < 65536)
        /\ n = "pairU" => peek' \in Byte
    BY <1>2, <1>5, TakesChosen
  <2>2. StringTypes' /\ FirstInv' /\ WritingInv'
    BY <1>1, <1>2, <1>5, <2>1 DEF StringTypes, FirstInv, WritingInv
  <2>3. QED
    BY <1>2, <2>2 DEF StringInv, StoredInv, ReadingInv
<1>6. ASSUME NEW c \in CodePoint, Take("string"), Encoded(c)
      PROVE  StringInv'
  <2>1. at' = "string" /\ rest' = rest /\ peek' \in Byte
    BY <1>2, <1>6, TakesChosen
  <2>2. bytes' \in Seq(Byte) /\ codes' \in Seq(CodePoint) /\ error' = error
    BY <1>1, <1>6, EncodedKeeps
  <2>3. StringTypes' /\ FirstInv' /\ WritingInv'
    BY <1>1, <1>2, <2>1, <2>2 DEF StringTypes, FirstInv, WritingInv
  <2>4. QED
    BY <1>2, <2>3 DEF StringInv, StoredInv, ReadingInv
<1>7. QED
  BY <1>3, <1>4, <1>5, <1>6

\* The writer puts what is written for the next byte.
LEMMA WriteByteKeeps == ASSUME StringInv, WriteByte PROVE StringInv'
<1>1. /\ at = "writing" /\ scanned < StringLength(stored)
      /\ rest' = rest \o Escaped(stored.str[scanned + 1]) /\ scanned' = scanned + 1
      /\ peek' = peek /\ at' = at /\ codepoint' = codepoint /\ codes' = codes /\ bytes' = bytes
      /\ error' = error /\ stored' = stored /\ first' = first
  BY DEF WriteByte
<1>2. /\ rest \in Seq(Byte) /\ bytes \in Seq(Byte) /\ first \in Seq(Byte)
      /\ scanned \in Nat /\ Spells(rest, SubSeq(first, 1, scanned))
      /\ IsWritten /\ stored = Stored(first) /\ error = "None" /\ bytes = <<>>
  BY <1>1 DEF StringInv, StringTypes, FirstInv, StoredInv, WritingInv
<1> DEFINE k == scanned  c == first[k + 1]  s == SubSeq(first, 1, k)
<1>3. k < Len(first) /\ StringLength(stored) = Len(first) /\ stored.str[k + 1] = c /\ Len(first) \in Nat
  <2>1. /\ StringLength(stored) = Len(first) /\ Len(first) \in Nat
        /\ \A i \in 1..Len(first) : stored.str[i] = first[i]
    BY <1>2, StoredHolds, LenProperties
  <2>2. k < Len(first)
    BY <1>1, <2>1
  <2>3. k + 1 \in 1..Len(first)
    BY <1>2, <2>1, <2>2
  <2>4. QED
    BY <2>1, <2>2, <2>3
<1>4. SubSeq(first, 1, k + 1) = s \o <<first[k + 1]>> /\ c \in Byte /\ s \in Seq(Byte)
  BY <1>2, <1>3, OneByteMore
<1> HIDE DEF s, c
<1>5. SubSeq(first, 1, k + 1) = Append(s, c)
  <2>1. Append(s, c) = s \o <<c>>
    BY <1>4, AppendIsConcat
  <2>2. QED
    BY <1>4, <2>1 DEF c
<1>6. rest' = rest \o Escaped(c) /\ rest' \in Seq(Byte)
  <2>1. rest' = rest \o Escaped(c)
    BY <1>1, <1>3
  <2>2. Escaped(c) \in Seq(Byte)
    BY <1>4, EscapedForms
  <2>3. QED
    BY <1>2, <2>1, <2>2, ConcatProperties
<1>7. Spells(rest \o Escaped(c), Append(s, c))
  BY <1>2, <1>4, SpellsMore DEF s
<1>8. Spells(rest', SubSeq(first', 1, scanned'))
  BY <1>1, <1>5, <1>6, <1>7
<1>9. scanned' \in Nat /\ scanned' <= Len(first')
  BY <1>1, <1>2, <1>3
<1>10. IsWritten' /\ at' = "writing"
  BY <1>1, <1>2 DEF IsWritten
<1>11. StringTypes'
  BY <1>1, <1>2, <1>6, <1>10 DEF StringInv, StringTypes
<1>12. FirstInv' /\ StoredInv' /\ WritingInv' /\ ReadingInv'
  BY <1>1, <1>2, <1>8, <1>9, <1>10 DEF FirstInv, StoredInv, WritingInv, ReadingInv
<1>13. QED
  BY <1>11, <1>12 DEF StringInv

\* No byte of a string is behind a reader that begins.
LEMMA ResumesFirst ==
  ASSUME NEW s \in Seq(Byte), NEW t, Ahead(t, s)
  PROVE  Resumes(<<>>, t, s)
<1>1. Len(<<>>) = 0 /\ Len(s) \in Nat /\ <<>> \in Seq(Byte)
  BY LenProperties
<1>2. SubSeq(s, 1, 0) = <<>>
  BY <1>1
<1>3. Left(s, 0) = s
  BY SubSeqFull DEF Left
<1>4. QED
  BY <1>1, <1>2, <1>3 DEF Resumes

\* The writer ends its text, which the reader then begins.
LEMMA WriteEndKeeps == ASSUME StringInv, WriteEnd PROVE StringInv'
<1> DEFINE out == rest \o End
<1>1. /\ at = "writing" /\ scanned = StringLength(stored) /\ at' = "string"
      /\ peek' = Head(out) /\ rest' = Tail(out) /\ scanned' = scanned
      /\ codes' = codes /\ bytes' = bytes /\ error' = error /\ stored' = stored /\ first' = first
  BY DEF WriteEnd, End
<1>2. /\ rest \in Seq(Byte) /\ bytes = <<>> /\ first \in Seq(Byte) /\ codes \in Seq(CodePoint)
      /\ Spells(rest, SubSeq(first, 1, scanned))
      /\ IsWritten /\ stored = Stored(first) /\ error = "None"
  BY <1>1 DEF StringInv, StringTypes, FirstInv, StoredInv, WritingInv
<1>3. Spells(rest, first)
  <2>1. scanned = Len(first)
    BY <1>1, <1>2, StoredHolds
  <2>2. SubSeq(first, 1, Len(first)) = first
    BY <1>2, SubSeqFull
  <2>3. QED
    BY <1>2, <2>1, <2>2
<1>4. Ahead(out, first)
  BY <1>2, <1>3 DEF Ahead
<1> HIDE DEF out
<1>5. peek' \in Byte /\ rest' \in Seq(Byte) /\ Before(peek', rest') = out
  BY <1>1, <1>4, AheadSome, NextTaken
<1>6. Resumes(bytes, out, first)
  BY <1>2, <1>4, ResumesFirst
<1>7. IsWritten'
  BY <1>1, <1>2 DEF IsWritten
<1>8. <<>> \in Seq(Byte)
  OBVIOUS
<1>9. StringTypes'
  BY <1>1, <1>2, <1>5, <1>8 DEF StringTypes
<1>10. FirstInv' /\ StoredInv' /\ WritingInv'
  BY <1>1, <1>2, <1>7 DEF FirstInv, StoredInv, WritingInv
<1>11. ReadingInv'
  BY <1>1, <1>5, <1>6 DEF ReadingInv
<1>12. QED
  BY <1>9, <1>10, <1>11 DEF StringInv

\* The chosen string is stored, and the one that was written is read.
LEMMA CloseKeeps == ASSUME StringInv, Close PROVE StringInv'
<1>1. /\ at = "closed" /\ peek' = peek /\ rest' = rest /\ scanned' = scanned
      /\ codepoint' = codepoint /\ error' = error
      /\ rest \in Seq(Byte) /\ bytes \in Seq(Byte) /\ first \in Seq(Byte)
      /\ codes \in Seq(CodePoint) /\ bytes # <<>> /\ error = "None"
  BY DEF Close, StringInv, StringTypes
<1>2. CASE IsWritten
  <2>1. at' = "done" /\ codes' = codes /\ bytes' = bytes /\ stored' = stored /\ first' = first
    BY <1>2 DEF Close
  <2>2. IsWritten'
    BY <1>2, <2>1 DEF IsWritten
  <2>3. stored = Stored(first) /\ bytes = Append(first, Nul)
    BY <1>1, <1>2 DEF StringInv, StoredInv, ReadingInv
  <2>4. StringTypes'
    BY <1>1, <2>1 DEF StringTypes
  <2>5. FirstInv' /\ StoredInv' /\ WritingInv' /\ ReadingInv'
    BY <1>1, <2>1, <2>2, <2>3 DEF FirstInv, StoredInv, WritingInv, ReadingInv
  <2>6. QED
    BY <2>4, <2>5 DEF StringInv
<1>3. CASE ~IsWritten
  <2> DEFINE s == SubSeq(bytes, 1, Len(bytes) - 1)
  <2>1. first' = s /\ stored' = Stored(s) /\ at' = "writing" /\ bytes' = <<>> /\ codes' = <<>>
    BY <1>3 DEF Close
  <2>2. s \in Seq(Byte)
    <3>1. Len(bytes) \in Nat
      BY <1>1, LenProperties
    <3>2. \A i \in 1..(Len(bytes) - 1) : bytes[i] \in Byte
      BY <1>1, <3>1, ElementOfSeq
    <3>3. QED
      BY <1>1, <3>1, <3>2, SubSeqProperties
  <2> HIDE DEF s
  <2>3. rest = <<>> /\ scanned = 0
    BY <1>3 DEF StringInv, FirstInv
  <2>4. IsWritten'
    BY <2>1, <2>2, StoredHolds DEF IsWritten
  <2>5. SubSeq(s, 1, 0) = <<>> /\ Len(s) \in Nat /\ <<>> \in Seq(Byte) /\ <<>> \in Seq(CodePoint)
    BY <2>2
  <2>6. Spells(rest', SubSeq(first', 1, scanned'))
    BY <1>1, <2>1, <2>3, <2>5, NothingSpelled
  <2>7. StringTypes'
    BY <1>1, <2>1, <2>2, <2>5 DEF StringTypes
  <2>8. WritingInv'
    BY <1>1, <2>1, <2>3, <2>5, <2>6 DEF WritingInv
  <2>9. FirstInv' /\ StoredInv' /\ ReadingInv'
    BY <1>1, <2>1, <2>4 DEF FirstInv, StoredInv, ReadingInv
  <2>10. QED
    BY <2>7, <2>8, <2>9 DEF StringInv
<1>4. QED
  BY <1>2, <1>3

\* The invariant says what a string is.
LEMMA StringSays == StringInv => StringIsTrue
<1> SUFFICES ASSUME StringInv PROVE StringIsTrue
  OBVIOUS
<1>1. /\ rest \in Seq(Byte) /\ bytes \in Seq(Byte) /\ first \in Seq(Byte) /\ codes \in Seq(CodePoint)
      /\ at = "string" => peek \in Byte
  BY DEF StringInv, StringTypes
<1>2. \A i \in DOMAIN codes : Decoded(Encode(codes[i])) = codes[i] /\ ~HighHalf(codes[i])
  <2> TAKE i \in DOMAIN codes
  <2>1. codes[i] \in CodePoint
    BY <1>1, ElementOfSeq
  <2>2. QED
    BY <2>1, EncodeDecodes DEF CodePoint
<1>3. ASSUME IsWritten
      PROVE  /\ error = "None" /\ Text(stored) = first
             /\ (\A i \in DOMAIN first : first[i] # 0) => StdString(stored) = first
             /\ stored.str[Len(first) + 1] = Nul
             /\ at = "string" => peek \notin 1..31
             /\ at = "done" => bytes = Append(first, Nul)
  <2>1. error = "None" /\ stored = Stored(first)
    BY <1>3 DEF StringInv, StoredInv
  <2>2. /\ Text(stored) = first /\ stored.str[Len(first) + 1] = Nul
        /\ (\A i \in DOMAIN first : first[i] # 0) => StdString(stored) = first
    BY <1>1, <2>1, StoredTexts, StoredHolds
  <2>3. at = "done" => bytes = Append(first, Nul)
    BY <1>3 DEF StringInv, ReadingInv
  <2>4. ASSUME at = "string" PROVE peek \notin 1..31
    <3>1. Resumes(bytes, Before(peek, rest), first) /\ peek \in Byte
      BY <1>1, <1>3, <2>4 DEF StringInv, ReadingInv
    <3>2. peek = Quote \/ peek >= 32 \/ peek = Backslash
      BY <1>1, <3>1, ReadsByte
    <3>3. QED
      BY <3>1, <3>2, SMT DEF Byte, Quote, Backslash
  <2>5. QED
    BY <2>1, <2>2, <2>3, <2>4
<1>4. QED
  BY <1>2, <1>3 DEF StringIsTrue

\* A string of any length, of any bytes and escapes, is stored with its length, is read by the
\* daemon up to a zero, and is written so that it reads back the same.
THEOREM StringTrue == StringSpec => []StringIsTrue
<1>1. StringInit => StringInv
  BY StringBegins
<1>2. StringInv /\ [StringNext]_stringVars => StringInv'
  <2> SUFFICES ASSUME StringInv, [StringNext]_stringVars PROVE StringInv'
    OBVIOUS
  <2>1. CASE ParseByte
    BY <2>1, ParseByteKeeps
  <2>2. CASE ParseEscape
    BY <2>2, ParseEscapeKeeps
  <2>3. CASE ParseHex
    BY <2>3, ParseHexKeeps
  <2>4. CASE ParsePair
    BY <2>4, ParsePairKeeps
  <2>5. CASE WriteByte
    BY <2>5, WriteByteKeeps
  <2>6. CASE WriteEnd
    BY <2>6, WriteEndKeeps
  <2>7. CASE Close
    BY <2>7, CloseKeeps
  <2>8. CASE UNCHANGED stringVars
    <3>1. StringTypes' /\ FirstInv' /\ StoredInv' /\ WritingInv' /\ ReadingInv'
      BY <2>8 DEF stringVars, StringInv, StringTypes, FirstInv, StoredInv, WritingInv, ReadingInv, IsWritten
    <3>2. QED
      BY <3>1 DEF StringInv
  <2>9. QED
    BY <2>1, <2>2, <2>3, <2>4, <2>5, <2>6, <2>7, <2>8 DEF StringNext
<1>3. QED
  BY <1>1, <1>2, StringSays, PTL DEF StringSpec
=============================================================================

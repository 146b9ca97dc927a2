------------------------------- MODULE JsonMemory -------------------------------
(* The memory of a JSON document of the daemon: the object and the array that  *)
(* an answer is put together in grow inside the chunks of a                    *)
(* MemoryPoolAllocator, which frees nothing, and the text that is written grows *)
(* in the stack of a StringBuffer.                                             *)
(*                                                                             *)
(* A cell holds one GenericValue; a member is two of them, its name and its    *)
(* value, and a string that is not short one more.                             *)
EXTENDS Integers, Sequences

CONSTANTS
    MaxCalls,           \* bound: calls
    ChunkCapacity,      \* chunk_capacity_ in cells
    DefaultCapacity,    \* kDefaultObjectCapacity and kDefaultArrayCapacity
    BufferCapacity      \* kDefaultCapacity of the StringBuffer

ASSUME MemoryAssumption ==
    /\ MaxCalls \in Nat /\ ChunkCapacity \in Nat
    /\ DefaultCapacity \in Nat \ {0} /\ BufferCapacity \in Nat

VARIABLES
    of,         \* "document" or "buffer", which share nothing: a behaviour calls one of them
    chunks,     \* the chunks, the head of the list last: [capacity, size, cells]
    object,     \* ObjectData and ArrayData: [size, capacity, at]
    array,
    members,    \* history: the names and values of the object
    elements,   \*    and those of the array
    buffer,     \* the stack of the buffer: [top, capacity, cells]
    text,       \* history: what was put
    calls

memoryVars == <<of, chunks, object, array, members, elements, buffer, text, calls>>

Names == {<<-1>>, <<-2>>}
Nowhere == <<0, 0>>
Free == <<>>
FreeByte == -1
Terminator == -2
Empty == [size |-> 0, capacity |-> 0, at |-> Nowhere]

MemoryInit ==
    /\ of \in {"document", "buffer"}
    /\ chunks = <<>> /\ object = Empty /\ array = Empty /\ members = <<>> /\ elements = <<>>
    /\ buffer = [top |-> 0, capacity |-> 0, cells |-> <<>>] /\ text = <<>> /\ calls = 0

-----------------------------------------------------------------------------
(* MemoryPoolAllocator.  A pointer is <<chunk, offset>>; what a call makes of  *)
(* the chunks is [to, chunks].                                                *)

AddChunk(pool, capacity) ==
    Append(pool, [capacity |-> capacity, size |-> 0, cells |-> [i \in 1..capacity |-> Free]])

Malloc(pool, size) ==
    LET full == pool = <<>> \/ pool[Len(pool)].size + size > pool[Len(pool)].capacity
        room == IF full THEN AddChunk(pool, IF ChunkCapacity > size THEN ChunkCapacity ELSE size)
                ELSE pool
    IN  IF size = 0 THEN [to |-> Nowhere, chunks |-> pool]
        ELSE [to |-> <<Len(room), room[Len(room)].size>>,
              chunks |-> [room EXCEPT ![Len(room)].size = @ + size]]

Cell(pool, at, i) == pool[at[1]].cells[at[2] + i]
Store(pool, at, i, value) == [pool EXCEPT ![at[1]].cells[at[2] + i] = value]

\* memcpy of so many cells to a block that does not overlap them.
Copy(pool, from, to, count) ==
    [pool EXCEPT ![to[1]].cells = [k \in DOMAIN @ |->
        IF k - to[2] \in 1..count THEN Cell(pool, from, k - to[2]) ELSE @[k]]]

\* A block that is the last of the head chunk grows where it is; another is copied, not freed.
Realloc(pool, at, old, new) ==
    LET head == Len(pool)
        last == at = <<head, pool[head].size - old>>
        moved == Malloc(pool, new)
    IN  CASE at = Nowhere -> Malloc(pool, new)
          [] at # Nowhere /\ new <= old -> [to |-> at, chunks |-> pool]
          [] at # Nowhere /\ new > old /\ last /\ pool[head].size + (new - old) <= pool[head].capacity ->
                [to |-> at, chunks |-> [pool EXCEPT ![head].size = @ + (new - old)]]
          [] OTHER -> [to |-> moved.to, chunks |-> Copy(moved.chunks, at, moved.to, old)]

-----------------------------------------------------------------------------
(* Objects and arrays.                                                        *)

Grown(capacity) == IF capacity = 0 THEN DefaultCapacity ELSE capacity + (capacity + 1) \div 2

\* Room for one more item of a container, in items of so many cells.
WithRoom(pool, container, cells) ==
    IF container.size < container.capacity THEN [to |-> container.at, chunks |-> pool]
    ELSE Realloc(pool, container.at, container.capacity * cells, Grown(container.capacity) * cells)
OneMore(container, at) ==
    [size |-> container.size + 1, at |-> at,
     capacity |-> IF container.size < container.capacity THEN container.capacity
                  ELSE Grown(container.capacity)]

\* A value is its number, or the cell its number is in when it is a string that is not short.
NewValue(pool, long) ==
    LET block == Malloc(pool, 1)
    IN  IF long THEN [value |-> block.to, chunks |-> Store(block.chunks, block.to, 1, <<calls>>)]
        ELSE [value |-> <<calls>>, chunks |-> pool]
Shown(pool, value) == IF Len(value) = 2 THEN Cell(pool, value, 1)[1] ELSE value[1]

AddMember(name, long) ==
    LET made == NewValue(chunks, long)
        room == WithRoom(made.chunks, object, 2)
        named == Store(room.chunks, room.to, 2 * object.size + 1, name)
    IN  /\ chunks' = Store(named, room.to, 2 * object.size + 2, made.value)
        /\ object' = OneMore(object, room.to)
        /\ members' = Append(members, <<name, calls>>)
        /\ UNCHANGED <<array, elements, buffer, text>>

PushBack(long) ==
    LET made == NewValue(chunks, long)
        room == WithRoom(made.chunks, array, 1)
    IN  /\ chunks' = Store(room.chunks, room.to, array.size + 1, made.value)
        /\ array' = OneMore(array, room.to)
        /\ elements' = Append(elements, calls)
        /\ UNCHANGED <<object, members, buffer, text>>

\* The capacity stays, and so do the cells of the values.
RemoveAllMembers ==
    /\ object' = [object EXCEPT !.size = 0] /\ members' = <<>>
    /\ UNCHANGED <<chunks, array, elements, buffer, text>>

\* FindMember: the place of the first member of that name, or the end.
FindMember(name) ==
    LET found == {i \in 1..object.size : Cell(chunks, object.at, 2 * i - 1) = name}
    IN  IF found = {} THEN object.size + 1 ELSE CHOOSE i \in found : \A j \in found : i <= j

-----------------------------------------------------------------------------
(* The buffer.                                                                *)

\* Expand and Resize of the stack, when count cells more do not fit.
Reserved(b, count) ==
    LET wider == IF b.capacity = 0 THEN BufferCapacity ELSE b.capacity + (b.capacity + 1) \div 2
        needed == b.top + count
        capacity == IF wider < needed THEN needed ELSE wider
    IN  IF needed <= b.capacity THEN b
        ELSE [b EXCEPT !.capacity = capacity, !.cells = [i \in 1..capacity |->
                 IF i <= b.capacity THEN @[i] ELSE FreeByte]]
PutUnsafe(b, s) ==
    [b EXCEPT !.top = @ + Len(s),
              !.cells = [i \in DOMAIN @ |-> IF i - b.top \in 1..Len(s) THEN s[i - b.top] ELSE @[i]]]
Put(b, c) == PutUnsafe(Reserved(b, 1), <<c>>)

\* WriteString: PutReserve for the longest that the string may become, then its characters.
WriteString(length) ==
    LET s == [i \in 1..length |-> calls]
    IN  /\ buffer' = PutUnsafe(Reserved(buffer, 2 + 6 * length), s)
        /\ text' = text \o s
        /\ UNCHANGED <<chunks, object, array, members, elements>>

WriteToken ==
    /\ buffer' = Put(buffer, calls) /\ text' = Append(text, calls)
    /\ UNCHANGED <<chunks, object, array, members, elements>>

\* GetString: a terminator is pushed and popped.
GetString ==
    /\ buffer.top > 0
    /\ buffer' = [Put(buffer, Terminator) EXCEPT !.top = @ - 1]
    /\ UNCHANGED <<chunks, object, array, members, elements, text>>

MemoryNext ==
    /\ calls < MaxCalls /\ calls' = calls + 1 /\ UNCHANGED of
    /\ \/ /\ of = "document"
          /\ \/ RemoveAllMembers
             \/ \E long \in BOOLEAN : PushBack(long) \/ \E name \in Names : AddMember(name, long)
       \/ of = "buffer" /\ (WriteToken \/ GetString \/ \E length \in 0..2 : WriteString(length))

MemorySpec == MemoryInit /\ [][MemoryNext]_memoryVars

-----------------------------------------------------------------------------
(* What the memory must be.                                                   *)

CellsOf(at, size) == {<<at[1], at[2] + i>> : i \in 1..size}
ValuesOf(container, cells, offset) ==
    {Cell(chunks, container.at, cells * (i - 1) + offset) : i \in 1..container.size}
Long == {v \in ValuesOf(object, 2, 2) \union ValuesOf(array, 1, 1) : Len(v) = 2}

\* Whatever order the calls come in: the object and the array have what was added to them, a name
\* finds the first member that has it, no cell serves two, and the buffer has what was put.
MemoryIsTrue ==
    /\ object.size = Len(members) /\ array.size = Len(elements)
    /\ \A i \in 1..object.size :
          members[i] = <<Cell(chunks, object.at, 2 * i - 1),
                         Shown(chunks, Cell(chunks, object.at, 2 * i))>>
    /\ \A i \in 1..array.size : elements[i] = Shown(chunks, Cell(chunks, array.at, i))
    /\ \A name \in Names :
          LET i == FindMember(name)
          IN  /\ i <= Len(members) => members[i][1] = name
              /\ \A j \in 1..Len(members) : j < i => members[j][1] # name
    /\ CellsOf(object.at, 2 * object.capacity) \intersect CellsOf(array.at, array.capacity) = {}
    /\ \A v \in Long :
          <<v[1], v[2] + 1>> \notin CellsOf(object.at, 2 * object.capacity) \union CellsOf(array.at, array.capacity)
    /\ \A c \in DOMAIN chunks : chunks[c].size <= chunks[c].capacity
    /\ buffer.top <= buffer.capacity /\ SubSeq(buffer.cells, 1, buffer.top) = text
=============================================================================

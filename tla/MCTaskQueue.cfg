CONSTANTS
    Clients = {c1, c2}
    Task = {a, b}
    NoTask = NoTask
    MaxPushes = 3
    MaxText = 9
    MaxNumber = 6
    MaxString = 5
    MaxSize = 3
    Bytes <- SomeBytes
    Hexas <- SomeHexas
    Writable <- SomeNumbers
    OneF = 64
    MaxCalls = 6
    ChunkCapacity = 8
    DefaultCapacity = 2
    BufferCapacity = 4
    Parts <- AllParts
    Files <- SomeFiles
SPECIFICATION StandingSpec
CHECK_DEADLOCK FALSE
INVARIANTS
    NoLostWakeup
    DocumentsAreTrue
PROPERTIES
    DestructorReturns
    ImplementsFifo

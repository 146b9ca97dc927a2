CONSTANTS
    NoInstance = NoInstance
    Configurations <- Some
    Setups <- SomeSetups
    MaxBusy = 3
    MaxPets = 2
    MaxAge = 20
    m1 = m1
    m2 = m2
    NoMeter = NoMeter
    Watched <- TwoMeters
    MaxRecords = 2
    MaxPushed = 1
    ExampleConfigurations <- OneOrTwoNodes
    MaxMessages = 1
    MaxFound = 2
SPECIFICATION AnySpec
CHECK_DEADLOCK FALSE
INVARIANTS
    WatchDogIsJust
    ComponentsAgree
    MeterIsSoughtOrRead
    ThermometersAreRead
PROPERTIES
    KeepsSeeking
    ExitEndsDaemon

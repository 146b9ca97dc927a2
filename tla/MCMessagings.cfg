CONSTANTS
    MaxPackets = 3
    MaxOther = 1
    MaxRequests = 2
    MaxUnsolicited = 1
    Timeouts <- UserTimeouts
    Configured <- ConfiguredTimeouts
    BuiltinTimeout = 1
    Inputs <- SomeTexts
    MaxBuffer = 3
    PacIds <- LastIds
    Messages <- LedAndReset
    Now <- NewYearsEve
    Ident <- ShortIdent
    MaxCommands = 2
SPECIFICATION MessagingsSpec
CHECK_DEADLOCK FALSE
INVARIANTS
    AcksAreTrue
    RequestIsServed
    ShowsOwnAnswer
    TextsAreTrue
PROPERTIES
    CommandEnds

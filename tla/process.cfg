SPECIFICATION FairSpec
CONSTANTS
    Binaries <- AllBinaries
    Requests = {h1, h2}
    Sections = 2
    Settings <- SomeSettings
    Unset = Unset
    NoNumber = NoNumber
    DefaultMaxConns = 2
    MaxInt32 = 7
INVARIANTS
    ProcessTypeOK
    CleanStop
PROPERTIES
    EndsWhenToldTo
    EveryRequestEnds
CHECK_DEADLOCK FALSE

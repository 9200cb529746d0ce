SPECIFICATION FairSpec
CONSTANTS
    db1 = db1
    db2 = db2
    pg = pg
    ms = ms
    lite = lite
    blank = blank
    web = web
    None = None
    Garbled = Garbled
    Containers <- AllContainers
    Listed <- Project
    Described <- Boxes
    HostPorts <- TwoPorts
    DockerFaults <- Faults
    Lines <- Typed
    Tables <- Returned
    MaxU64 = 99
    MaxI64 = 49
    NotFinite = NotFinite
    Sessions <- AllSessions
INVARIANTS
    CommandTypeOK
    EarliestPlaceWins
    PromptFillsTheGaps
    DiscoveredPortIsLive
    RefusalsAreTrue
    ConnectionIsResolved
    VerdictIsTheStandards
    PrintedResultIsWhole
    CellsStayApart
    ExitCodeIsTrue
PROPERTIES
    InitKeepsEdits
    UnattendedGoOn
    TimedCommandsEnd

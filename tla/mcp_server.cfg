SPECIFICATION FairSpec
CONSTANTS
    r1 = r1
    r2 = r2
    r3 = r3
    Requests <- ThreeRequests
    Handlers <- EveryKind
    NumQueries = 2
    MaxVersion = 1
INVARIANTS
    TypeOK
    NoTornDocument
    ReadSeesSerialRefresh
PROPERTIES
    OnlySuccessReplaces
    QuietRefreshIsExact
    CacheNeverRegresses
    ImplementsRegister
    EveryRequestAnswered

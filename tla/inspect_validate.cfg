SPECIFICATION Spec
CONSTANTS
    Expr = Expr
    Implicit = Implicit
    Nothing = Nothing
    Keys <- ThreeKeys
    Catalogs <- SomeCatalogs
    Engines <- EveryEngine
    MaxChanges = 2
INVARIANTS
    TypeOK
    UntouchedObjectsAreExact
    EveryFactWasTrue
    QuietReportIsTrue
CHECK_DEADLOCK FALSE

SPECIFICATION Spec
CONSTANTS
    Expr = Expr
    Implicit = Implicit
    Nothing = Nothing
    Keys <- ThreeKeys
    Catalogs <- CompositeKeyCatalogs
    Engines <- EveryEngine
    MaxChanges = 0
INVARIANTS
    UniqueMeansAlone
CHECK_DEADLOCK FALSE

SPECIFICATION Spec
CONSTANTS
    Expr = Expr
    Implicit = Implicit
    Nothing = Nothing
    Keys <- ThreeKeys
    Catalogs <- CoveringIndexCatalogs
    Engines <- OnlySqlserver
    MaxChanges = 0
INVARIANTS
    IndexOrderIsKept
CHECK_DEADLOCK FALSE

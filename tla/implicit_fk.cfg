SPECIFICATION Spec
CONSTANTS
    Expr = Expr
    Implicit = Implicit
    Nothing = Nothing
    Keys <- ThreeKeys
    Catalogs <- ImplicitCatalogs
    Engines <- OnlySqlite
    MaxChanges = 0
INVARIANTS
    NoFalseBrokenForeignKey
CHECK_DEADLOCK FALSE

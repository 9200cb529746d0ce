SPECIFICATION Spec
CONSTANTS
    Absent = Absent
    Partial = Partial
    Catalogs <- TwoKeyCatalogs
    Engines <- OnlySqlite
INVARIANTS
    KeptKeysAreQuiet

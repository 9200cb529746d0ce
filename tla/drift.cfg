SPECIFICATION Spec
CONSTANTS
    Absent = Absent
    Partial = Partial
    Catalogs <- SomeCatalogs
    Engines <- EveryEngine
INVARIANTS
    TypeOK
    ReportRebuildsNew
    NoDriftUnseen
    NamedKeysAreQuiet

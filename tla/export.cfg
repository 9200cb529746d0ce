SPECIFICATION Spec
CONSTANTS
    p1 = p1
    p2 = p2
    v1 = v1
    v2 = v2
    Absent = Absent
    Partial = Partial
    Schemas <- TwoSchemas
    Settings <- AllSettings
INVARIANTS
    TypeOK
    SuccessIsComplete
    FreshSuccessIsExact
    RefusedWritesNothing
PROPERTIES
    EarlierFilesKept

SPECIFICATION Spec
CONSTANTS
    Rank <- BytesRank
    Lowercase <- Lowered
    AuditNames <- Audits
    TimestampTypes <- Times
    Databases <- AllDatabases
    MaxKeys = 3
INVARIANTS
    CyclesAreReported
    ReportIsDeterministic
    ReportMatchesRules
    DocumentsIgnoreOrder
    DocumentsAgree

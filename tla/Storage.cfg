SPECIFICATION MCSpec
CONSTANTS
    Columns <- MCColumns
    Budgets <- MCBudgets
    Contents <- MCContents
    Prices <- MCPrices
    Retention = 1
    BucketSize = 2
    MaxTime = 2
    None = None
    Partial = Partial
CHECK_DEADLOCK FALSE
INVARIANTS
    SchemaReady
    AuthorityMatches
    RowsWhole
    ReportAgrees

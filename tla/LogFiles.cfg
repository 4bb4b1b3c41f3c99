SPECIFICATION Spec
CONSTANTS
    Kind <- MCKind
    ScanBack = 3
    Queries <- MCQueries
    Cleans <- MCCleans
    MaxLines = 3
    MaxAppends = 1
    MaxCleans = 1
CHECK_DEADLOCK FALSE
INVARIANT TypeOK
INVARIANT QueryComplete
INVARIANT TrimKeepsTail
PROPERTY QueryEnds

SPECIFICATION Spec
CONSTANTS
    l1 = l1
    l2 = l2
    Log = {l1, l2}
    MaxEvents = 4
    ChanCap = 2
    DiskBufCap = 2
    MaxHandles = 1
    BufLines = 1
    RetryAfter = 1
    MaxCleans = 1
CHECK_DEADLOCK FALSE
INVARIANT TypeOK
INVARIANT Accounted
INVARIANT OnlyRetriesReorder
PROPERTY StaleHandleDropped

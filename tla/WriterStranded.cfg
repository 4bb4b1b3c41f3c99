SPECIFICATION Spec
CONSTANTS
    l1 = l1
    l2 = l2
    Log = {l1, l2}
    MaxEvents = 3
    ChanCap = 2
    DiskBufCap = 1
    MaxHandles = 1
    BufLines = 1
    RetryAfter = 1
    MaxCleans = 1
CHECK_DEADLOCK FALSE
INVARIANT BufferedIsRetried

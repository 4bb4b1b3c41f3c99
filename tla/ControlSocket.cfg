SPECIFICATION Spec
CONSTANTS
    c1 = c1
    c2 = c2
    e1 = e1
    e2 = e2
    Client = {c1, c2}
    Entry = {e1, e2}
    Refused = {e2}
    Jobs <- MCJobs
    Stores <- MCStores
    Type = {"a", "b"}
    Filter = {"a"}
    BufLen = 1
    MaxEvents = 3
    MaxFaults = 1
CHECK_DEADLOCK FALSE
INVARIANT TypeOK
INVARIANT StoreWhole
INVARIANT StoreMatchesDaemon
INVARIANT NoSilentLoss
PROPERTY EntryKept
PROPERTY CommandEnds

SPECIFICATION Spec
CONSTANTS
    p1 = p1
    p2 = p2
    c1 = c1
    d1 = d1
    d2 = d2
    Path = {p1, p2}
    Cmd = {c1}
    Device = {d1, d2}
    DevOf <- OneDevice
    AncestorDev <- OneDevice
    LogPath = {p2}
    MaxGroups = 2
    MaxRefs = 2
    MaxCopies = 1
    MaxClients = 1
    MaxBatch = 1
    RaceWindow = FALSE
    MayCrash = TRUE
INVARIANT TempMarkHasTarget
PROPERTY RegistrationKept
PROPERTY HandlerReturns
PROPERTY ImplementsRegistrations

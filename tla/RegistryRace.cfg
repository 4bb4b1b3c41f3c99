SPECIFICATION Spec
CONSTANTS
    p1 = p1
    d1 = d1
    d2 = d2
    Path = {p1}
    Cmd = {}
    Device = {d1, d2}
    DevOf <- OneDevice
    AncestorDev <- OneDevice
    LogPath = {}
    MaxGroups = 2
    MaxRefs = 3
    MaxCopies = 2
    MaxClients = 1
    MaxBatch = 2
    RaceWindow = TRUE
    MayCrash = FALSE
PROPERTY RegistrationKept

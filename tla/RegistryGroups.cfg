SPECIFICATION Spec
CONSTANTS
    p1 = p1
    p2 = p2
    d1 = d1
    d2 = d2
    Path = {p1, p2}
    Cmd = {}
    Device = {d1, d2}
    DevOf <- OneDevice
    AncestorDev <- OtherDevice
    LogPath = {}
    MaxGroups = 3
    MaxRefs = 2
    MaxCopies = 1
    MaxClients = 1
    MaxBatch = 2
    RaceWindow = TRUE
    MayCrash = TRUE
SYMMETRY AlikePaths
INVARIANT TypeOK
INVARIANT KeysLive
INVARIANT RefsCovered
INVARIANT GroupMatchesDevice

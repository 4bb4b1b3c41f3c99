SPECIFICATION Spec
CONSTANTS
    k1 = k1
    Key = {k1}
    MaxRestarts = 3
    Window = 2
    MaxTime = 7
CHECK_DEADLOCK FALSE
INVARIANT TypeOK
INVARIANT RestartsCapped
INVARIANT OneReader
INVARIANT HealthAccurate
PROPERTY ReaderSupervised

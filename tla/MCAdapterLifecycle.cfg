SPECIFICATION FairLifecycleSpec
CONSTANTS
    w1 = w1
    p1 = p1
    Daemons = {w1, p1}
    Windows = {w1}
    MAX_ACQUISITION_ATTEMPTS = 3
    MaxCrashes = 2
    NoProc = NoProc
INVARIANTS
    OwnersHoldLock
    CleanExit
    NothingLeftBehind
    ConnectedMeansRegistered
PROPERTIES
    StartAndStopSettle
CHECK_DEADLOCK FALSE

SPECIFICATION FairSpec
CONSTANTS
    Conn = {c1, c2}
    MaxOutbox = 1
    WaitsForTransports = TRUE
INVARIANTS
    LeaversForgotten
    NothingLeftRunning
    AnsweredBeforeClose
    TasksInStep
PROPERTIES
    HandlersGiveWay
    LeaverEnds
    ShutdownEndsUnlessStalled
CHECK_DEADLOCK FALSE

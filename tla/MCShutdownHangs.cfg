SPECIFICATION FairSpec
CONSTANTS
    Conn = {c1}
    MaxOutbox = 1
    WaitsForTransports = TRUE
PROPERTIES
    ShutdownEnds
CHECK_DEADLOCK FALSE

SPECIFICATION Spec
CONSTANTS
    Daemon = {d1, d2, d3}
    Absent = Absent
    Stale = Stale
    Foreign = Foreign
    MaxFiled = 2
SYMMETRY Symmetric
INVARIANTS
    UndisturbedStart
    RaceLeavesOne
    HandedOver
CHECK_DEADLOCK FALSE

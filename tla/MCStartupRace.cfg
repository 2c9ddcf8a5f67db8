SPECIFICATION Spec
CONSTANTS
    Daemon = {d1, d2}
    Absent = Absent
    Stale = Stale
    Foreign = Foreign
    MaxFiled = 0
PROPERTIES
    LiveSocketKept
CHECK_DEADLOCK FALSE

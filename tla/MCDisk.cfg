SPECIFICATION Spec
CONSTANTS
    Conn = {c1, c2}
    Sid = {s1, s2}
    Home = {h1}
    Alias = {al1}
    Topic = {t1}
    None = None
    DmMaxlen = 1
    TopicMaxlen = 2
    DmFilters <- NoFilters
    WireFilters <- OneWatch
    Replays <- NoReplays
    Methods <- DiskMethods
    Faults <- DiskFaults
    MaxMsg = 2
    MaxOutbox = 0
SYMMETRY SymmetricSlots
INVARIANTS
    WireExact
    AckedDurable
    QueuesOrderly
    QueuedUndelivered
PROPERTIES
    LossesAccounted
    UsesMessageQueues
CHECK_DEADLOCK FALSE

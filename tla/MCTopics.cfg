SPECIFICATION Spec
CONSTANTS
    Conn = {c1, c2}
    Sid = {s1, s2}
    Home = {h1}
    Alias = {}
    Topic = {t1}
    None = None
    DmMaxlen = 2
    TopicMaxlen = 2
    DmFilters <- NoFilters
    WireFilters <- NoFilters
    Replays <- SomeReplays
    Methods <- TopicMethods
    Faults <- Restarts
    MaxMsg = 3
    MaxOutbox = 3
SYMMETRY SymmetricPeers
INVARIANTS
    TypeOK
    RingIsTail
    TopicFeedExact
CHECK_DEADLOCK FALSE

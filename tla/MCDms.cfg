SPECIFICATION Spec
CONSTANTS
    Conn = {c1, c2, c3}
    Sid = {s1, s2, s3}
    Home = {h1}
    Alias = {al1}
    Topic = {}
    None = None
    DmMaxlen = 2
    TopicMaxlen = 1
    DmFilters <- Nobody
    WireFilters <- NoFilters
    Replays <- NoReplays
    Methods <- DmMethods
    Faults <- Restarts
    MaxMsg = 2
    MaxOutbox = 0
SYMMETRY SymmetricPeers
INVARIANTS
    NoStrandedDm
    DmFifo
PROPERTIES
    ImplementsMailService
CHECK_DEADLOCK FALSE

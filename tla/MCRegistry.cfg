SPECIFICATION Spec
CONSTANTS
    Conn = {c1, c2, c3}
    Sid = {s1, s2}
    Home = {h1, h2}
    Alias = {al1, al2}
    Topic = {t1}
    None = None
    DmMaxlen = 1
    TopicMaxlen = 1
    DmFilters <- NoFilters
    WireFilters <- NoFilters
    Replays <- JoinOnly
    Methods <- RegistryMethods
    Faults <- WriterFaults
    MaxMsg = 0
    MaxOutbox = 0
SYMMETRY Symmetric
INVARIANTS
    RegistryExact
    PresenceViewExact

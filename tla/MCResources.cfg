SPECIFICATION FairSpec
CONSTANTS
    Peer = {p1}
    InboxMaxlen = 1
    MaxNotes = 2
    MaxAsks = 3
INVARIANTS
    InboxKnown
    PeersKnown
PROPERTIES
    ViewConverges
CHECK_DEADLOCK FALSE

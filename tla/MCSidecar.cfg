SPECIFICATION FairSpec
CONSTANTS
    Req = {r1, r2}
    Run = run
    Alias = {al1}
    None = None
    InitialAlias = al1
    InboxMaxlen = 2
    Limits = {1}
    MaxNotes = 3
INVARIANTS
    NoSleeperMissed
    NotesInOrder
    AnswersMatch
    AliasMirrored
PROPERTIES
    OnlyOverflowLoses
    CallsEnd
    AwaitsEnd
CHECK_DEADLOCK FALSE

SPECIFICATION PSpec
CONSTANTS
    Msg = {1, 2, 3, 4, 5}
    MaxLen = 3
    NoFile = NoFile
    None = None
    Limits = {1, 2}
INVARIANTS
    FlushInv
    PagesExact
PROPERTIES
    ImplementsMessageQueue

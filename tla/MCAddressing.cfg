SPECIFICATION Spec
CONSTANTS
    UserHomes <- Homes
    SidLen = 1
    AliasMax = 6
    MaxText = 6
INVARIANTS
    CanonicalHomes
    DrainedByWhomItNames
    NamesApart
CHECK_DEADLOCK FALSE

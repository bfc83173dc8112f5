SPECIFICATION Spec
CONSTANTS
    Aliases <- MCAliases
    Original <- MCOriginal
    PREFIX <- MCPREFIX
    EntityChars = {"P", "E"}
    HexChars = {"a"}
    HASH_HEX_LEN = 1
    Keys <- MCKeys
    Events <- MCEvents
    Tables <- MCTables
    MaxEvents = 4
    None = None
CHECK_DEADLOCK FALSE
INVARIANTS
    BlocksRestored
    NoTailAfterEnd
    NothingLost

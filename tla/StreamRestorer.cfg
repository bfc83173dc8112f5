SPECIFICATION StreamSpec
CONSTANTS
    Aliases <- MCAliases
    Original <- MCOriginal
    PREFIX <- MCPREFIX
    EntityChars = {"P", "E"}
    HexChars = {"a"}
    HASH_HEX_LEN = 1
    Streams <- MCStreams
    LeadBytes = {"h"}
    ContBytes = {"t"}
    FirstTables <- MCTables
    MaxChanges = 2
CHECK_DEADLOCK FALSE
INVARIANTS
    NoByteLost
    ChunkingInvisible
    AliasesRestored

SPECIFICATION HistorySpec
CONSTANTS
    Values <- MCValues
    Aliases <- MCPlaceholders
    Placeholders <- MCPlaceholders
    Entities = {"EMAIL", "SECRET"}
    PhCands <- MCPhCands
    SynCands <- MCSynCands
    Lower <- MCLower
    Length <- MCLength
    MaxLength = 1
    Identities <- MCIdentities
    Cap = 1
    None = None
INVARIANT ResentUnchanged

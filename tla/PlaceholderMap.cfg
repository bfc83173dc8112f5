SPECIFICATION Spec
CONSTANTS
    Values <- MCValues
    Aliases <- MCAliases
    Placeholders <- MCPlaceholders
    Entities <- MCEntities
    PhCands <- MCPhCands
    SynCands <- MCSynCands
    Lower <- MCLower
    Length <- MCLength
    MaxLength = 3
    Identities <- MCIdentities
    Cap = 2
    None = None
INVARIANTS
    TypeOK
    TableConsistent
    AliasSetExact
    AutomatonFresh
    WindowCoversAliases
    ReplyRestores
PROPERTIES
    EvictionIsFifo
    ImplementsAliasTable

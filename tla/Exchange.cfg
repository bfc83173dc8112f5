SPECIFICATION Spec
CONSTANTS
    Requests = {r1, r2}
    Values = {v1, v2}
    Cap = 1
    Bodies <- MCBodies
    MaxChunks = 2
    None = None
SYMMETRY Symmetry
CHECK_DEADLOCK FALSE
INVARIANTS
    LoggedOnce
    RecordTellsDelivery
    RestoredAsAsked

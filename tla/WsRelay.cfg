SPECIFICATION Spec
CONSTANTS
    Indices <- MCIndices
    None = None
    Sessions <- MCSessions
    Bodies <- MCBodies
    Answers <- MCAnswers
    Keys <- MCKeys
    MaxTurns = 2
CHECK_DEADLOCK FALSE
INVARIANTS
    RecordedOnce
    UsageOfItsTurn
    AnswerToItsTurn
    OnlyUserTextRedacted

SPECIFICATION Spec
CONSTANTS
    Agents = {"Codex"}
    Commands = {c1}
    Modes = {"SystemProxy"}
    Scenarios <- MCDying
    None = None
CHECK_DEADLOCK FALSE
INVARIANT BackupIsOriginal

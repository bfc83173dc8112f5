SPECIFICATION FairSpec
CONSTANTS
    Agents = {"Claude", "Codex"}
    Commands = {c1, c2}
    Modes = {"Config", "SystemProxy", "Launcher"}
    Scenarios <- MCScenarios
    None = None
CHECK_DEADLOCK FALSE
INVARIANTS
    RollbackKept
    BackupKept
    UserConfigKept
    ProtectionKept
    PacFollowsUse
PROPERTY LostMarkIsNoticed

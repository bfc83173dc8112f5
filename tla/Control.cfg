SPECIFICATION Spec
CONSTANTS
    Ports = {p1, p2}
    Options = {o1, o2}
    RuleSets = {s1, s2}
    Tasks = {t1, t2}
    MaxCommands = 4
    None = None
SYMMETRY Symmetry
CHECK_DEADLOCK FALSE
INVARIANTS
    RulesApplied
    RunningAsStored
    NoOrphan
    ShownIsListening

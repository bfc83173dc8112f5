SPECIFICATION Spec
CONSTANTS
    r1 = r1
    r2 = r2
    r3 = r3
    f1 = f1
    Length = 4
    Rules = {r1, r2, r3}
    Fields = {f1}
    Priority <- MCEqual
    Position <- MCPosition
    MaxHits = 3
    None = None
CHECK_DEADLOCK FALSE
INVARIANTS
    KeptDisjoint
    RuleDropsOutranked
    IdentityYields
    Replaced

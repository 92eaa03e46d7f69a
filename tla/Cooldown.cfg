SPECIFICATION Spec
CONSTANTS
    c1 = c1
    c2 = c2
    c3 = c3
    Absent = Absent
    Caller = {c1, c2, c3}
    Cooldown = 2
    Grace = 2
    MaxTime = 7
INVARIANTS
    CooldownHolds
PROPERTIES
    RefusedBecauseBeaten
CHECK_DEADLOCK FALSE

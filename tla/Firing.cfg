SPECIFICATION FairSpec
CONSTANTS
    s1 = s1
    s2 = s2
    Nothing = Nothing
    Deleted = Deleted
    Schedule = {s1}
    Every = {1, 2}
    Limit = 1
    MaxTime = 3
    MaxEdits = 1
    MaxFailures = 1
    MaxCrashes = 1
INVARIANTS
    RungOncePerSlot
    
PROPERTIES
    RunnerMovesOn
    FiredIsRung
CHECK_DEADLOCK FALSE

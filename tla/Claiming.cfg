SPECIFICATION Spec
CONSTANTS
    t1 = t1
    t2 = t2
    e1 = e1
    e2 = e2
    Nobody = Nobody
    Task = {t1, t2}
    Executor = {e1, e2}
    MaxFailures = 1
    MaxCrashes = 1
INVARIANTS
    OneHolder
    TimelineTellsResult
    DispatchedIsHeld
    AckedIsWritten
PROPERTIES
    ImplementsLedger
CHECK_DEADLOCK FALSE

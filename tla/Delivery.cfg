SPECIFICATION Spec
CONSTANTS
    m1 = m1  h = h  agent = agent  r1 = r1  r2 = r2  e1 = e1  e2 = e2
    Nothing = Nothing
    Id = {r1, e1, e2}
    Spare = {e1, e2}
    Matter = {m1}
    User = {h, agent}
    Creator <- MadeByHuman
    Limit = 50
    MaxRetries = 2
    Cap = 2
    MaxCrashes = 1
    MaxLost = 1
    MaxRequests = 1
SYMMETRY Interchangeable
INVARIANTS
    GivesUpAfterRetries
    PostsCloseByPosting
    PostedOnce
    EscalatedOnce
CHECK_DEADLOCK FALSE

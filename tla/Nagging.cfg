SPECIFICATION FairSpec
CONSTANTS
    m1 = m1  h = h  agent = agent  r1 = r1  r2 = r2  e1 = e1  e2 = e2
    Nothing = Nothing
    Id = {r1, e1}
    Spare = {e1}
    Matter = {m1}
    User = {h, agent}
    Creator <- MadeByHuman
    Limit = 50
    MaxRetries = 2
    Cap = 2
    MaxCrashes = 1
    MaxLost = 0
    MaxRequests = 1
PROPERTIES
    NagsUntilSettled
    
CHECK_DEADLOCK FALSE

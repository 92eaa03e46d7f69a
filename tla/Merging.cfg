SPECIFICATION MergeSpec
CONSTANTS
    c1 = c1
    h = h
    bot = bot
    Child = {c1}
    User = {h, bot}
    Creator = h
    Acts <- OwnerAndBot
    MaxEvents = 1
    MaxTrees = 1
    MaxJoins = 2
CONSTRAINT
    FewTrees
INVARIANTS
    TreeStaysTrue
    

    
CHECK_DEADLOCK FALSE

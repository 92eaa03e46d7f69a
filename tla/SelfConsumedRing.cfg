SPECIFICATION MergeSpec
CONSTANTS
    c1 = c1
    h = h
    bot = bot
    Child = {c1}
    User = {h, bot}
    Creator = h
    Acts <- OwnerAndBot
    MaxEvents = 2
    MaxTrees = 1
    MaxJoins = 1
PROPERTIES
    PendingJoinRings
CHECK_DEADLOCK FALSE

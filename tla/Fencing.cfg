SPECIFICATION Spec
CONSTANTS
    top = top  c1 = c1  c2 = c2
    h1 = h1  h2 = h2  b1 = b1  b2 = b2
    None = None
    Matter = {top}
    Human = {h1}
    Bot = {b1, b2}
    Parent <- SoloParent
    Creator <- SoloCreator
    Mode <- SoloMode
    StepOrder <- SoloStep
    Owner <- OwnerOf
    Sourced = {top}
    NewLeader = {None, b1, b2}
    Assignable = {b2}
    Annotator = {h1}
    Reader = {b1}
    Target = {"in_progress", "review", "done", "blocked", "cancelled"}
    MaxVersion = 4
    MaxPending = 1
VIEW WithoutLast
INVARIANTS
    VersionIsCurrent
    EpochNamesLeader
    BlockReasonMatches
PROPERTY
    FencedBotStillLeads
CHECK_DEADLOCK FALSE

SPECIFICATION Spec
CONSTANTS
    top = top  c1 = c1  c2 = c2
    h1 = h1  h2 = h2  b1 = b1  b2 = b2
    None = None
    Matter = {top, c1, c2}
    Human = {h1}
    Bot = {b1, b2}
    Parent <- FamilyParent
    Creator <- FamilyCreator
    Mode <- CriticMode
    StepOrder <- FamilyStep
    Owner <- OwnerOf
    Sourced = {top}
    NewLeader = {b1, b2}
    Assignable = {}
    Annotator = {}
    Reader = {}
    Target = {"in_progress", "review", "done"}
    MaxVersion = 2
    MaxPending = 1
VIEW WithoutLast
CONSTRAINT
    OneOwnedLead
PROPERTIES
    HandBackIsHeard
    NoSelfAcceptance
    DoneParentStaysSettled
CHECK_DEADLOCK FALSE

------------------------ MODULE MCMatterTransition ------------------------
(* Small instances of MatterTransition: who owns, creates and leads what. *)
EXTENDS MatterTransition, TLC

CONSTANTS top, c1, c2, h1, h2, b1, b2

\* One top-level matter, created by h1; b1 belongs to h1, b2 to nobody.
SoloParent == top :> None
SoloCreator == top :> h1
SoloMode == top :> "unset"
SoloStep == top :> None

\* top dispatched into two steps by the bot b1.
FamilyParent == top :> None @@ c1 :> top @@ c2 :> top
FamilyCreator == top :> h1 @@ c1 :> b1 @@ c2 :> b1
CriticMode == top :> "critic" @@ c1 :> "unset" @@ c2 :> "unset"
FamilyStep == top :> None @@ c1 :> 1 @@ c2 :> 2

\* top with one child.
PairParent == top :> None @@ c1 :> top
PairCreator == top :> h1 @@ c1 :> b1
PairMode == top :> "split" @@ c1 :> "unset"
PairStep == top :> None @@ c1 :> None

OwnerOf == [b \in Bot |-> IF b = b1 THEN h1 ELSE None]

\* The last activity is a record of the step, read by no action.
WithoutLast == <<row, assignees, annotated, pending, view>>

\* The bot that belongs to the human leads one matter at a time, the other bot any.
OneOwnedLead == Cardinality({m \in Matter : row[m].leader = b1}) <= 1
=============================================================================

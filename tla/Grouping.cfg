SPECIFICATION GroupSpec
CONSTANTS
    ann = ann  bob = bob  bot = bot  q1 = q1  q2 = q2
    Nobody = Nobody
    Person = {ann, bob, bot}
    Bot = {bot}
    OwnerOf <- OwnedByB
    External = {}
    Founder = ann
    Early = {ann, bob}
    Request = {q1, q2}
    MaxBegun = 3
    MaxFaults = 1
SYMMETRY Alike
INVARIANTS
    OneCreator
    SubscribersAreMembers
    MembersAreSubscribed
    MutedAreSilenced
    
CHECK_DEADLOCK FALSE

SPECIFICATION SpaceSpec
CONSTANTS
    owner = owner  u1 = u1  u2 = u2  q1 = q1  q2 = q2
    Nobody = Nobody
    Person = {owner, u1, u2}
    Founder = owner
    Addressed = {u1, u2}
    Request = {q1, q2}
    Limits = {0, 1}
    MaxUses = 2
    MaxBegun = 4
    MaxFaults = 1
SYMMETRY Alike
INVARIANTS
    OneOwner
    
    ApprovedIsAdmitted
    MailAdmitsOne
CHECK_DEADLOCK FALSE

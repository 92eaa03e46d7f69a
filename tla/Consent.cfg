SPECIFICATION GrantSpec
CONSTANTS
    b1 = b1  b2 = b2  r1 = r1  r2 = r2
    Bot = {b1, b2}
    Request = {r1, r2}
    MaxFaults = 1
SYMMETRY Alike
CONSTRAINT
    OneAfterFault
INVARIANTS
    OneActiveGrant
    NobodyWaitsInACircle
    FreshGrantIsSeen
PROPERTIES
    RevokedStaysRevoked

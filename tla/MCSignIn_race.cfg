SPECIFICATION Spec
CONSTANTS
    r1 = r1
    r2 = r2
    r3 = r3
    p1 = p1
    p2 = p2
    Request = {r1, r2, r3}
    Password = {p1, p2}
    NoPassword = NoPassword
    OldVerify = OldVerify
    OldReset = OldReset
    TryLimit = 1
SYMMETRY Symmetry
CHECK_DEADLOCK FALSE
INVARIANTS
    Inv
    RevokedIsDead
PROPERTIES
    VerifyNeverReplaces

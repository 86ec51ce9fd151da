SPECIFICATION FairGrantSpec
CONSTANTS
    u1 = u1
    u2 = u2
    f1 = f1
    f2 = f2
    w1 = w1
    User = {u1, u2}
    Self = u1
    NoUser = NoUser
    Flow = {f1, f2}
    Worker = {w1}
    OldToken = OldToken
    NoToken = NoToken
    OldRow = OldRow
    NoRow = NoRow
CHECK_DEADLOCK FALSE
INVARIANTS
    GrantInv
PROPERTIES
    
    DeadIsNoticed

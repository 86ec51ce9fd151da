SPECIFICATION FairSpec
CONSTANTS
    m1 = m1
    m2 = m2
    m3 = m3
    m4 = m4
    Message = {m1, m2, m3, m4}
    Sent = {m4}
    Old = {m1, m2}
    EventBound = 3
    PageSize = 1
    Cap = 2
    RemovalBudget = 1
    MaxResults = 1
    MaxPages = 3
    Forgetful = TRUE
CHECK_DEADLOCK FALSE
INVARIANTS
    Inv
PROPERTIES
    MirrorsTheMailbox
    OnlyDeletedIsRemoved
    CatchesUp

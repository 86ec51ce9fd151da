SPECIFICATION FairSpec
CONSTANTS
    t1 = t1
    t2 = t2
    Thread = {t1, t2}
    NoThread = NoThread
    MessageBound = 3
    MaxResults = 1
    WalkBound = 2
    CommitEvery = 2
    Own = {3}
    Deletable = {t1}
    Forgetful = TRUE
CHECK_DEADLOCK FALSE
INVARIANTS
    Inv
PROPERTIES
    MirrorsTheMailbox
    ReopenedByNews
    CatchesUp

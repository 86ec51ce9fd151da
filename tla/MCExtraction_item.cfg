SPECIFICATION FairSpec
CONSTANTS
    w1 = w1
    Worker = {w1}
    NoWorker = NoWorker
    MaxAttempts = 2
    AttemptBound = 2
    Result = {"reply", "no_action", "failed"}
INVARIANTS
    AnsweredIsResolved
    NothingStaleShown
PROPERTIES
    ResolvedStays
    PendingSettles
    LostEnqueueRecovered

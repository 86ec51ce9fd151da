SPECIFICATION Spec
CONSTANTS
    w1 = w1
    w2 = w2
    Worker = {w1, w2}
    NoWorker = NoWorker
    MaxAttempts = 2
    AttemptBound = 2
    Result = {"reply", "other"}
SYMMETRY Symmetry
INVARIANTS
    OneCallAtATime
    NoOpenOnDone

SPECIFICATION FairSpec
CONSTANTS
    w1 = w1
    w2 = w2
    l1 = l1
    Worker = {w1, w2}
    NoWorker = NoWorker
    Messages = 2
    Label = {l1}
    NoLabel = NoLabel
    GenerationBound = 1
CHECK_DEADLOCK FALSE
INVARIANTS
    OwnedIsReachable
PROPERTIES
    ReenableReconverges
    Converges

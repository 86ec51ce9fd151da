SPECIFICATION FairSlotSpec
CONSTANTS
    r1 = r1
    r2 = r2
    p1 = p1
    p2 = p2
    Run = {r1, r2}
    Starter = {p1, p2}
    NoRun = NoRun
    MaxRetries = 2
INVARIANTS
    OneIngest
PROPERTIES
    SlotIsReleased

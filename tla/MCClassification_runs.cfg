SPECIFICATION Spec
CONSTANTS
    p1 = p1
    p2 = p2
    Proc = {p1, p2}
    m1 = m1
    m2 = m2
    m3 = m3
    Message = {m1, m2, m3}
    Sent = {m1}
    Nothing = Nothing
    NoDelay = NoDelay
    RetryAfter = {0, 9}
    Deployment = "auto"
    Backend = {"default"}
    Kind = {"backfill", "outlook", "gmail", "pass", "message"}
    Limit = 2
    BatchSize = 2
    MaxEvents = 2
    MaxRuns = 2
    WorkerRetries <- MCWorker
    InlineRetries <- MCInline
SYMMETRY Symmetry
CHECK_DEADLOCK FALSE
INVARIANTS
    Inv
    RetriesAreCheap
    
    StopsAfterStreak
PROPERTIES
    OverrideStays
    AskedInVainOnce

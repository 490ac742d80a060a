SPECIFICATION Spec
CONSTANTS
    Jobs = {j1}
    DirectJobs = {}
    FreezeJobs = {j1}
    SameBody = {}
    DuplicateWindow = 0
    Chats = {1}
    Chunks = 2
    Drains = {d1, d2}
    Fanouts = {f1}
    None = None
    ClaimTtl = 1
    JobTtl = 2
    PageSize = 2
    BatchSize = 2
    MaxAttempts = 2
    Backoff = 1
    RetryAfter = 1
    FloodChats = 1
    SnoozeFor = 1
    Horizon = 0
    MaxTime = 3
    MaxFaults = 1
SYMMETRY Symmetry
INVARIANTS TypeOK AtMostOnce HonestOutcome InOrder
CHECK_DEADLOCK FALSE

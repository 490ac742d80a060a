SPECIFICATION FairSpec
CONSTANTS
    Jobs = {j1, j2}
    DirectJobs = {j2}
    FreezeJobs = {}
    SameBody = {j1, j2}
    DuplicateWindow = 0
    Chats = {1}
    Chunks = 1
    Drains = {d1}
    Fanouts = {f1, f2}
    None = None
    ClaimTtl = 1
    JobTtl = 1
    PageSize = 2
    BatchSize = 2
    MaxAttempts = 1
    Backoff = 0
    RetryAfter = 1
    FloodChats = 2
    SnoozeFor = 1
    Horizon = 1
    MaxTime = 2
    MaxFaults = 0
INVARIANT SaidOnce
PROPERTY EveryJobEnds
CHECK_DEADLOCK FALSE

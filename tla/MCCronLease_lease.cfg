SPECIFICATION Spec
CONSTANTS
    Runs = {r1, r2}
    Waiters = {r1}
    None = None
    Ttl = 5
    Heartbeat = 2
    MaxRenewFailures = 1
    ChildSilence = 6
    Poll = 2
    WaitBudget = 4
    Wall = 6
    Latency = 1
    Horizon = 6
    MaxTime = 8
    MaxFaults = 1
INVARIANTS TypeOK OneWorker NotBlockedByItself BudgetIsAbsolute
PROPERTIES UnsettledKeepsLease
CHECK_DEADLOCK FALSE

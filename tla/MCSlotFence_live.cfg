SPECIFICATION FairSpec
CONSTANTS
    Scheduled = {c1}
    CatchUps = {}
    Sweepers = {s1}
    Jobs = {j1}
    None = None
    SlotSilence = 1
    ChildSilence = 1
    HardDead = 3
    Wall = 2
    LeaseTtl = 2
    Grace = 1
    Horizon = 3
    MaxTime = 6
    Timely = FALSE
    MaxFaults = 2
INVARIANT AbandonedIsSettled
PROPERTY AbandonedSlotCloses
CHECK_DEADLOCK FALSE

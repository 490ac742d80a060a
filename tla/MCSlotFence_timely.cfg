SPECIFICATION Spec
CONSTANTS
    Scheduled = {c1}
    CatchUps = {q1}
    Sweepers = {s1}
    Jobs = {j1}
    None = None
    SlotSilence = 2
    ChildSilence = 2
    HardDead = 4
    Wall = 3
    LeaseTtl = 3
    Grace = 1
    Horizon = 3
    MaxTime = 8
    Timely = TRUE
    MaxFaults = 1
PROPERTIES LiveOwnerKeepsSlot
CHECK_DEADLOCK FALSE

SPECIFICATION Spec
CONSTANTS
    Scheduled = {c1, c2}
    CatchUps = {}
    Sweepers = {}
    Jobs = {j1}
    None = None
    SlotSilence = 1
    ChildSilence = 1
    HardDead = 3
    Wall = 2
    LeaseTtl = 2
    Grace = 1
    Horizon = 3
    MaxTime = 6
    Timely = FALSE
    MaxFaults = 2
SYMMETRY Interchangeable
INVARIANTS TypeOK SuccessIsReal NotStartedNeverRan
PROPERTIES OwnTerminalStays SupersededWritesNothing LiveLeaseStays ImplementsAuthority
CHECK_DEADLOCK FALSE

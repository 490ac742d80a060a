SPECIFICATION Spec
CONSTANTS
    Hosts = {m1}
    Reconcilers = {m1}
    Crons = {}
    Consumers = {q1}
    Interval = 6
    GraceCap = 2
    MarginCap = 3
    LaneTimeout = 8
    Reserve = 2
    SlotSilence = 2
    HardDead = 4
    Slots = {6, 12}
    MaxTime = 18
    Punctual = TRUE
    HostPeriod = 2
    MaxFaults = 0
INVARIANT MissedSlotIsCaughtUp
CHECK_DEADLOCK FALSE

SPECIFICATION Spec
CONSTANTS
    Hosts = {m1, d1}
    Reconcilers = {m1}
    Crons = {c1}
    Consumers = {q1}
    Interval = 2
    GraceCap = 2
    MarginCap = 3
    LaneTimeout = 3
    Reserve = 1
    SlotSilence = 1
    HardDead = 2
    Slots = {2, 4}
    MaxTime = 4
    Punctual = FALSE
    HostPeriod = 2
    MaxFaults = 1
INVARIANTS TypeOK OneHintPerSlot CaughtUpOnce
PROPERTIES ArmedIsSent ArmedOnlyIfMissed
CHECK_DEADLOCK FALSE

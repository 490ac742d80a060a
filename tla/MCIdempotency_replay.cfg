SPECIFICATION Spec
CONSTANTS
    Requests = {r1, r2, r3}
    Reusers = {r3}
    None = None
    TakeoverAfter = 1
    UnknownAfter = 2
    TerminalTtl = 1
    MaxTime = 4
    MaxFaults = 2
SYMMETRY Symmetry
INVARIANTS TypeOK AtMostOnce FinalAnswersAreKept RetryIsPossible
CHECK_DEADLOCK FALSE

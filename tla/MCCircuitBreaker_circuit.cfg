SPECIFICATION FairSpec
CONSTANTS
    Callers = {c1, c2}
    None = None
    c1 = c1
    c2 = c2
    i1 = i1
    i2 = i2
    Isolates = {i1, i2}
    Homes <- AnyButFirst
    Threshold = 2
    ProbeInterval = 1
    MemoTtl = 1
    MaxChanges = 1
    MaxFaults = 1
INVARIANTS TypeOK OpensOnEvidence
PROPERTIES FailingSourceOpens RecoveredSourceCloses

SPECIFICATION FairSpec
CONSTANTS
    CoinCount = 2
    MaxOwners = 4
    MaxFaults = 1
    Takers = {t1}
INVARIANTS TypeOK NoCoinSkipped
PROPERTIES OneFrontier AbandonedIsFenced CohortEnds
CHECK_DEADLOCK FALSE

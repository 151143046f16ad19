SPECIFICATION FairSpec
CONSTANTS
    k1 = k1
    k2 = k2
    manual = manual
    Scheduled = scheduled
    Key <- MCKey
    Cycle <- MCCycle
    max_attempts = 2
    limit = 1
    MaxRows = 2
    MaxMarks = 1
    MaxLapses = 1
INVARIANTS NothingLost PostsBounded
PROPERTIES DeliveredIsFinal EventSettles

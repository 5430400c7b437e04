SPECIFICATION FairSpec
CONSTANTS
    b1 = b1
    b2 = b2
    Batches = {b1, b2}
    Scenarios = {1, 2}
    Parallel = 1
    Budget = 3
    MaxRestarts = 1
INVARIANTS
    WorkIsWithinLimits
PROPERTIES
    ResultsStay
    BatchesEnd
CHECK_DEADLOCK FALSE

SPECIFICATION BoundedFairSpec
CHECK_DEADLOCK FALSE
CONSTANTS
    l1 = l1
    l2 = l2
    c1 = c1
    c2 = c2
    p1 = p1
    p2 = p2
    Loops <- TwoLoops
    Filtering <- SecondFilters
    Closers <- OneCloser
    Partitions <- TwoPartitions
    EnableAutoCommit = TRUE
    OffsetReset = "earliest"
    MaxLog = 2
    MaxFaults = 1
INVARIANTS
    IInv
    StatsConserved
    ReplayedOnce
    ReplayInv
    CloseWaitsForLoops
PROPERTIES
    CloseIsNoError
    CloseStopsLoops
    ReplayProgress
    ImplementsAtLeastOnce

SPECIFICATION FairSpec
CHECK_DEADLOCK FALSE
CONSTANTS
    m1 = m1
    m2 = m2
    l1 = l1
    p1 = p1
    d1 = d1
    rideRequested = rideRequested
    userDeleted = userDeleted
    garbage = garbage
    Members <- OneMember
    Partitions <- OnePartition
    EventTypes <- TwoEventTypes
    Malformed = garbage
    Handlers <- RideHandler
    Wildcard = FALSE
    MaxRetries = 1
    DLQHandler = TRUE
    BoundPartition = p1
    BoundOffset = 0
    MaxLog = 4
    MaxChurn = 1
    Loops <- OneLoop
    Filtering <- OneLoop
    Closers <- None
    DLQPartitions <- OneDLQPartition
    MaxDLQ = 1
    MaxFaults = 1
    EnableAutoCommit = TRUE
    OffsetReset = "earliest"
    Filters <- RideOrNone
    MaxFailures = 1
INVARIANTS
    IInv
    OneCopy
    NoEventLost
    HandledOnce
PROPERTIES
    EventuallyHandled

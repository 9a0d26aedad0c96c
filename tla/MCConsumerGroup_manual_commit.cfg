SPECIFICATION FairSpec
CHECK_DEADLOCK FALSE
CONSTANTS
    m1 = m1
    m2 = m2
    p1 = p1
    p2 = p2
    rideRequested = rideRequested
    userDeleted = userDeleted
    garbage = garbage
    Members <- TwoMembers
    Partitions <- OnePartition
    EventTypes <- OneEventType
    Malformed = garbage
    Handlers <- RideHandler
    Wildcard = FALSE
    MaxRetries = 2
    EnableAutoCommit = FALSE
    OffsetReset = "earliest"
    DLQHandler = TRUE
    BoundPartition = p1
    BoundOffset = 0
    MaxLog = 1
    MaxChurn = 0
PROPERTIES
    EventuallyCommitted

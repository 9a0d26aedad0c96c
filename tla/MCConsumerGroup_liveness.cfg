SPECIFICATION FairSpec
CHECK_DEADLOCK FALSE
CONSTANTS
    m1 = m1
    m2 = m2
    p1 = p1
    p2 = p2
    rideRequested = rideRequested
    userDeleted = userDeleted
    garbage = garbage
    Members <- TwoMembers
    Partitions <- TwoPartitions
    EventTypes <- OneEventType
    Malformed = garbage
    Handlers <- NoHandler
    Wildcard = TRUE
    MaxRetries = 2
    EnableAutoCommit = TRUE
    OffsetReset = "earliest"
    DLQHandler = FALSE
    BoundPartition = p1
    BoundOffset = 0
    MaxLog = 1
    MaxChurn = 1
PROPERTIES
    EventuallySettled
    EventuallyCommitted
INVARIANTS
    RInv

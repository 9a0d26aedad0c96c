SPECIFICATION Spec
CHECK_DEADLOCK FALSE
CONSTANTS
    m1 = m1
    m2 = m2
    p1 = p1
    p2 = p2
    rideRequested = rideRequested
    userDeleted = userDeleted
    garbage = garbage
    Members <- TwoMembers
    Partitions <- OnePartition
    EventTypes <- TwoEventTypes
    Malformed = garbage
    Handlers <- RideHandler
    Wildcard = FALSE
    MaxRetries = 2
    EnableAutoCommit = TRUE
    OffsetReset = "earliest"
    DLQHandler = TRUE
    BoundPartition = p1
    BoundOffset = 0
    MaxLog = 2
    MaxChurn = 3
SYMMETRY MemberSymmetry
INVARIANTS
    TypeOK
    CommittedSettled
    NoRedeliveryWithoutFault
    IInv
PROPERTIES
    CommittedMonotone
    ImplementsAtLeastOnce

SPECIFICATION FairSpec
CHECK_DEADLOCK FALSE
CONSTANTS
    b1 = b1
    b2 = b2
    c1 = c1
    c2 = c2
    p1 = p1
    p2 = p2
    Callers <- TwoCallers
    Closers <- TwoClosers
    Partitions <- OnePartition
    MaxRetries = 1
    Batches <- SomeBatches
INVARIANTS
    IInv
    BatchIsPrefix
    BatchOrder
    EveryCloseDrains
PROPERTIES
    CallsReturn

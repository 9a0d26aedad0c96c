SPECIFICATION Spec
CHECK_DEADLOCK FALSE
CONSTANTS
    m1 = m1
    m2 = m2
    p1 = p1
    p2 = p2
    Members <- TwoMembers
    Partitions <- TwoPartitions
    MaxLag = 2
    MaxLog = 2
SYMMETRY Symmetry
INVARIANTS
    RebalancingIsDegraded

SPECIFICATION Spec
CHECK_DEADLOCK FALSE
CONSTANTS
    k1 = k1
    k2 = k2
    c1 = c1
    Calls <- TwoCalls
    Configs <- OneConfig
    OtherTypes <- UnknownTypes
    Values <- SomeValues
INVARIANTS
    IInv
    BuiltIsPublished
    FirstCallDecides

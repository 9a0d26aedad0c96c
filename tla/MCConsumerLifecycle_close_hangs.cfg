SPECIFICATION FairSpec
CHECK_DEADLOCK FALSE
CONSTANTS
    s1 = s1
    s2 = s2
    c1 = c1
    c2 = c2
    Starters <- OneStarter
    Closers <- OneCloser
PROPERTIES
    CloseStopsStart

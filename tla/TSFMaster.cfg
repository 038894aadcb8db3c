SPECIFICATION TsfSpec
CHECK_DEADLOCK TRUE
CONSTANTS
    t1 = t1
    t2 = t2
    t3 = t3
    t4 = t4
    Threads <- FourThreads
    Main = t1
    MaxThreads = 3
    MainFirst = TRUE
    Failing = TRUE
INVARIANTS TsfTypeOK SlotsExclusive SearchInBounds
PROPERTIES LockReturned

SPECIFICATION FairSpec
CHECK_DEADLOCK FALSE
CONSTANTS
    Ids = {1, 2}
    t1 = t1
    t2 = t2
    p1 = p1
    p2 = p2
    NoThread = NoThread
    Threads = {t1, t2}
    Procs = {p1}
    ProcOf <- OneProcess
    ThreadSafe = TRUE
    InterIn = {}
    Spare = 3
    MaxSec = 3
    Ops <- TempCalls
INVARIANTS TypeOK LockExclusive PutIsFound HeaderAgrees
PROPERTIES ImplementsTable LockReleased

SPECIFICATION Spec
CHECK_DEADLOCK TRUE
CONSTANTS
    Ids = {1, 2}
    t1 = t1
    t2 = t2
    p1 = p1
    p2 = p2
    NoThread = NoThread
    Threads = {t1}
    Procs = {p1}
    ProcOf <- SingleThread
    ThreadSafe = TRUE
    InterIn = {}
    Spare = 3
    MaxSec = 4
    Ops <- AllCreates
INVARIANTS PutIsFound

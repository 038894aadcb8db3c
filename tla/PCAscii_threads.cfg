SPECIFICATION Spec
CHECK_DEADLOCK TRUE
CONSTANTS
    Ids = {1}
    t1 = t1
    t2 = t2
    p1 = p1
    p2 = p2
    NoThread = NoThread
    NoFile = NoFile
    Cut = Cut
    Threads = {t1, t2}
    Procs = {p1}
    ProcOf <- OneProcess
    ThreadSafe = TRUE
    InterIn = {}
    MaxSec = 3
    Ops <- TempCalls
    PathLetters = {}
    Faults = {"open", "rename"}
    MaxKills = 1
INVARIANTS TypeOK FileWhole NoTempLeft
PROPERTIES ImplementsTable
SYMMETRY Symmetry

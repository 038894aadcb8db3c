SPECIFICATION ShmSpec
CHECK_DEADLOCK TRUE
CONSTANTS
    p1 = p1
    p2 = p2
    Procs <- TwoProcs
    TermCom = TermCom
    MaxSegs = 3
    Faults = {"shmget", "shmat", "remove", "kill"}
SYMMETRY Symmetry
INVARIANTS ShmTypeOK UserSegmentShared NothingLeft

SPECIFICATION FairSpec
CONSTANTS
    Addr = {a1, a2, a3}
    Node = {n1, n2, n3}
    Var = {v1, v2}
    Sizes = {1, 2}
    Null = Null
INVARIANTS TypeOK ListWhole RecordsExact NoFault
PROPERTIES SweepEnds ImplementsHeap

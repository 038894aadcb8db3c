------------------------------ MODULE MEMHeap ------------------------------
(***************************************************************************)
(* What the dynamic memory tools (PGS_MEM.c) promise their caller: a set   *)
(* of tracked blocks, each with the size it was asked for.  A block enters *)
(* the set when it is allocated, changes address and grows when it is      *)
(* reallocated, and leaves the set exactly when it is freed.  No address   *)
(* is tracked twice.                                                       *)
(***************************************************************************)
EXTENDS Naturals

CONSTANTS Addr,   \* addresses malloc may return
          Sizes   \* sizes a caller may ask for

VARIABLE tracked  \* the blocks in use: a set of <<address, size>> pairs

InUse == {b[1] : b \in tracked}

Init == tracked = {}

Allocate(a, n) ==
    /\ a \notin InUse
    /\ tracked' = tracked \cup {<<a, n>>}

Resize(a, b, n) ==
    /\ b \notin InUse \ {a}
    /\ \E m \in Sizes : /\ <<a, m>> \in tracked /\ m < n
                        /\ tracked' = (tracked \ {<<a, m>>}) \cup {<<b, n>>}

Release(a, n) ==
    /\ <<a, n>> \in tracked
    /\ tracked' = tracked \ {<<a, n>>}

Next == \E a, b \in Addr, n \in Sizes :
            Allocate(a, n) \/ Resize(a, b, n) \/ Release(a, n)

Spec == Init /\ [][Next]_tracked
=============================================================================

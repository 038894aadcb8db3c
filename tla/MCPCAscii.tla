----------------------------- MODULE MCPCAscii -----------------------------
(* Instances of PCAscii for TLC. *)
EXTENDS PCAscii, TLC
CONSTANTS t1, t2, p1, p2
OneProcess == (t1 :> p1) @@ (t2 :> p1)
Symmetry == Permutations(Threads)
Call(kinds, ids, sections) == [kind : kinds, id : ids, sec : sections]
TempCalls == Call({"create", "delete", "mark"}, Ids, {"temp"})
=============================================================================

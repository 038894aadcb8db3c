------------------------------ MODULE MCPCShm ------------------------------
(* Instances of PCShm for TLC. *)
EXTENDS PCShm, TLC
CONSTANTS t1, t2, p1, p2
OneProcess == (t1 :> p1) @@ (t2 :> p1)
SingleThread == t1 :> p1
Call(kinds, ids, sections) == [kind : kinds, id : ids, sec : sections]
TempCalls == Call({"create", "delete"}, Ids, {"temp"})
TempAndMarks == Call({"create", "delete", "mark"}, Ids, {"temp"})
AllCreates == Call({"create"}, Ids, {"interOut", "temp"})
=============================================================================

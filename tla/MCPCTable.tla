----------------------------- MODULE MCPCTable -----------------------------
(* An instance of PCTable for TLC. *)
EXTENDS PCTable
Files == {<<"new", n>> : n \in 1..2} \cup {PcfName(id) : id \in InterIn}
=============================================================================

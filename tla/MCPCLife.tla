------------------------------ MODULE MCPCLife ------------------------------
(* Instances of PCLife for TLC. *)
EXTENDS PCLife
AnyThenAscii == <<BOOLEAN, {FALSE}>>
WithShmTwice == <<{TRUE}, {TRUE}>>
=============================================================================

------------------------------ MODULE MCMEMDyn ------------------------------
(* An instance of MEMDyn for TLC: see MEMDyn.cfg. *)
EXTENDS MEMDyn
=============================================================================

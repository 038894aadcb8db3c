------------------------------ MODULE MCMEMShm ------------------------------
(* Instances of MEMShm for TLC. *)
EXTENDS MEMShm, TLC
CONSTANTS p1, p2
TwoProcs == {p1, p2}
Symmetry == Permutations(TwoProcs)
=============================================================================

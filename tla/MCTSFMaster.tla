---------------------------- MODULE MCTSFMaster ----------------------------
(* Instances of TSFMaster for TLC. *)
EXTENDS TSFMaster
CONSTANTS t1, t2, t3, t4
FourThreads == {t1, t2, t3, t4}
ThreeThreads == {t1, t2, t3}
=============================================================================

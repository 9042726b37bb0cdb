--------------------------- MODULE MCSyncIngestion ---------------------------
(* Instances of SyncIngestion for TLC. *)
EXTENDS SyncIngestion, TLC

CONSTANTS r1, r2, r3, s1, s2, t1, t2

(* Reviews are interchangeable: sound for the runs without liveness. *)
Symmetry == Permutations(Reviews)
=============================================================================

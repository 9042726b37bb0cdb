------------------------- MODULE MCGoogleCredential -------------------------
(* Instances of GoogleCredential for TLC. *)
EXTENDS GoogleCredential, TLC

CONSTANTS a1, a2, j1, d1

(* Admin requests are interchangeable; the runs have no liveness. *)
Symmetry == Permutations(Admins)
=============================================================================

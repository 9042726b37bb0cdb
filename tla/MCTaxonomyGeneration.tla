------------------------ MODULE MCTaxonomyGeneration ------------------------
(* Instances of TaxonomyGeneration for TLC. *)
EXTENDS TaxonomyGeneration, TLC

CONSTANTS j1, j2, e1, e2, e3

(* Jobs and executions are interchangeable; the runs have no liveness. *)
Symmetry == Permutations(Jobs) \cup Permutations(Executions)
=============================================================================

------------------------------ MODULE MCReviewJob ------------------------------
(***************************************************************************)
(* Instances of ReviewJob for TLC.                                         *)
(***************************************************************************)
EXTENDS ReviewJob, TLC

CONSTANTS c1, c2, k1, k2

\* Callers and keys are interchangeable; used by runs without liveness only.
Symmetry == Permutations({c1, c2}) \cup Permutations({k1, k2})
=============================================================================

----------------------------- MODULE MCJobQueue -----------------------------
(* Instances of JobQueue for TLC. *)
EXTENDS JobQueue, TLC

CONSTANTS j1, j2, w1, w2

(* Jobs and workers are only compared for equality. *)
Interchangeable == Permutations(Jobs) \cup Permutations(Workers)
=============================================================================

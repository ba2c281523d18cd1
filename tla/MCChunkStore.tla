---------------------------- MODULE MCChunkStore ----------------------------
(* Instances of ChunkStore for TLC. *)
EXTENDS ChunkStore, TLC

CONSTANTS w1, w2

(* The second version keeps the first chunk and cuts the rest differently; *)
(* the third cuts one chunk only.                                          *)
TextPlan(r) == <<<<"a", "b">>, <<"a", "c">>, <<"d">>>>[r]

Interchangeable == Permutations(Workers)
=============================================================================

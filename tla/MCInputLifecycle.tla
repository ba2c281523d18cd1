-------------------------- MODULE MCInputLifecycle --------------------------
(* Instances of InputLifecycle for TLC. *)
EXTENDS InputLifecycle, TLC

CONSTANTS d1, j1, w1, w2

(* Every job of the instance analyses the same document. *)
OneDocument == [j \in Jobs |-> d1]

(* Workers are only compared for equality. *)
Slots == Permutations(Workers)
=============================================================================

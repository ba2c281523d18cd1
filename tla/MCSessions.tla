----------------------------- MODULE MCSessions -----------------------------
(* Instances of Sessions for TLC.                                          *)
EXTENDS Sessions, TLC

CONSTANTS a, b, l1, l2, o1

(* Both accounts may be bootstrapped, and every action is the same for     *)
(* all names and for all logins.                                           *)
Interchangeable == Permutations({a, b}) \cup Permutations({l1, l2})
=============================================================================

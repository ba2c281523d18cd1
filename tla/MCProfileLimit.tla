--------------------------- MODULE MCProfileLimit ---------------------------
(* Instances of ProfileLimit for TLC. *)
EXTENDS ProfileLimit

CONSTANTS c1, c2, c3, p1, p2

(* Two calls share a profile, one competes for the global slots.           *)
TwoAndOne == (c1 :> p1) @@ (c2 :> p1) @@ (c3 :> p2)
=============================================================================

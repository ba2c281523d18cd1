------------------------- MODULE MCAnalysisRequests -------------------------
(* Instances of AnalysisRequests for TLC.                                  *)
EXTENDS AnalysisRequests, TLC

CONSTANTS c1, c2, d1, d2, w1, w2, p1, p2

(* A rolling upgrade: the second worker and the API are a version ahead.   *)
Rolling == (w1 :> 1) @@ (w2 :> 2)

(* A key for either document, scenario and profile, and no key.            *)
Posted ==
  {[key |-> k, doc |-> d1, profile |-> p1, scenario |-> "general"] : k \in Keys \cup {NoKey}}
  \cup {[key |-> k, doc |-> r[1], profile |-> r[2], scenario |-> r[3]] : k \in Keys,
          r \in {<<d2, p1, "general">>, <<d1, p2, "general">>, <<d1, p1, "academic">>}}

(* A queued row without a snapshot, or with one whose prompts are not      *)
(* extended yet.                                                           *)
Queued(snapshot) ==
  [doc |-> d1, key |-> NoKey, profile |-> p1, scenario |-> "general", status |-> "queued",
   owner |-> NoWorker, snapshot |-> snapshot]

Left == {Queued(None), Queued([settings |-> 0, guidance |-> 0])}

(* Calls that overlap, claims that overlap, one of each, and a call whose  *)
(* profile changes under it.                                               *)
CallsOrClaims == {[sends |-> 2, claims |-> 0, edits |-> 0],
                  [sends |-> 0, claims |-> 4, edits |-> 2],
                  [sends |-> 1, claims |-> 1, edits |-> 0],
                  [sends |-> 1, claims |-> 0, edits |-> 1]}
=============================================================================

----------------------------- MODULE JobPromise -----------------------------
(***************************************************************************)
(* What the analysis queue promises the user who submits a job: the life   *)
(* of a job as the API shows it, without workers, leases or clocks.        *)
(*                                                                         *)
(* The worker's five progress states (extracting ... rendering) are one    *)
(* state here, "running"; a job whose worker was lost goes back to         *)
(* "waiting".  JobQueue implements this specification.                     *)
(***************************************************************************)
CONSTANT Jobs

VARIABLE outcome

Pending == {"waiting", "running", "cancelling"}
Ended   == {"completed", "failed", "cancelled", "expired", "deleted"}

Init == outcome = [j \in Jobs |-> "none"]

(***************************************************************************)
(* The moves a single job may make.  A completed job never runs again, a   *)
(* cancellation that was accepted for a running job can only end in        *)
(* "cancelled", and only a failed job can be queued a second time.         *)
(***************************************************************************)
Moves ==
  {<<"none", "waiting">>,                                     \* submitted
   <<"waiting", "running">>, <<"running", "waiting">>,        \* claimed, requeued
   <<"running", "completed">>,
   <<"waiting", "failed">>, <<"running", "failed">>,
   <<"failed", "waiting">>,                                   \* retried by the user
   <<"waiting", "cancelled">>,
   <<"running", "cancelling">>, <<"cancelling", "cancelled">>,
   <<"completed", "expired">>}                                \* its report expired
  \cup {<<s, "deleted">> : s \in {"completed", "failed", "cancelled", "expired"}}

(* One statement of the server may move several jobs, each by one move.    *)
Next ==
  /\ outcome' \in [Jobs -> {"none"} \cup Pending \cup Ended]
  /\ \A j \in Jobs :
        outcome'[j] # outcome[j] => <<outcome[j], outcome'[j]>> \in Moves

Spec == Init /\ [][Next]_outcome

(* Every accepted job comes to an end; a user's retry starts a new life.   *)
Ends == \A j \in Jobs : outcome[j] \in Pending ~> outcome[j] \in Ended

(* An accepted cancellation takes effect.                                  *)
CancelTakesEffect ==
  \A j \in Jobs : outcome[j] = "cancelling" ~> outcome[j] = "cancelled"
=============================================================================

------------------------------ MODULE JobQueue ------------------------------
(***************************************************************************)
(* The PostgreSQL job queue of TextComb: the analysis_jobs rows, the       *)
(* worker slots that claim and process them, the recovery loop and the     *)
(* clock that ends leases and deadlines.                                   *)
(*                                                                         *)
(* Every action that touches a row is one SQL statement or transaction of  *)
(* crates/textcomb-core/src/db.rs (or of the API's analyses.rs), so the    *)
(* steps of two workers, the API and the recovery loop interleave between  *)
(* statements exactly as the database lets them.  What those transactions  *)
(* do to the document, the chunks and the report of the job is added by    *)
(* InputLifecycle, which conjoins these actions with it.                   *)
(*                                                                         *)
(* Times are the ticks that remain until an instant (lease_until,          *)
(* timeout_at) is reached: 0 is "in the past".  A tick stands for any      *)
(* amount of time; workers may stall over any number of ticks.             *)
(***************************************************************************)
EXTENDS Integers

CONSTANTS
  Jobs,          \* ids of analysis_jobs rows
  Workers,       \* worker slots; a worker_id is drawn per slot
  NoWorker,      \* worker_id IS NULL
  NoJob,         \* a slot that has claimed nothing
  LeaseTicks,    \* interval '2 minutes'
  JobTicks       \* config.job_timeout

ASSUME JobQueueAssumption ==
  /\ NoWorker \notin Workers
  /\ NoJob \notin Jobs
  /\ LeaseTicks \in Nat \ {0}
  /\ JobTicks \in Nat \ {0}

VARIABLES
  status,        \* [Jobs -> Statuses], "none" before and "deleted" after the row exists
  owner,         \* worker_id
  lease,         \* ticks until lease_until, NoLease for NULL
  deadline,      \* ticks until timeout_at
  phase,         \* where a slot stands in process_claimed
  task,          \* the job a slot has claimed
  budget,        \* ticks until the slot's own timeout fires
  lost,          \* the slot's lease_lost token
  renewed        \* history: ticks left of the lease the slot last saw granted

rowVars    == <<status, owner, lease, deadline>>
workerVars == <<phase, task, budget, lost, renewed>>
vars       == <<rowVars, workerVars>>

NoLease == -1

Running  == {"extracting", "analyzing", "verifying", "merging", "rendering"}
Terminal == {"completed", "failed", "cancelled", "expired"}
Statuses == {"none", "queued", "cancel_requested", "deleted"} \cup Running \cup Terminal

Phases == {"idle", "claimed", "running", "published", "cancelling", "errored", "marking"}

TypeOK ==
  /\ status \in [Jobs -> Statuses]
  /\ owner \in [Jobs -> Workers \cup {NoWorker}]
  /\ lease \in [Jobs -> NoLease .. LeaseTicks]
  /\ deadline \in [Jobs -> 0 .. JobTicks]
  /\ phase \in [Workers -> Phases]
  /\ task \in [Workers -> Jobs \cup {NoJob}]
  /\ budget \in [Workers -> 0 .. JobTicks]
  /\ lost \in [Workers -> BOOLEAN]
  /\ renewed \in [Workers -> 0 .. LeaseTicks]
  /\ \A w \in Workers : phase[w] = "idle" \/ task[w] \in Jobs

Init ==
  /\ status   = [j \in Jobs |-> "none"]
  /\ owner    = [j \in Jobs |-> NoWorker]
  /\ lease    = [j \in Jobs |-> NoLease]
  /\ deadline = [j \in Jobs |-> 0]
  /\ phase    = [w \in Workers |-> "idle"]
  /\ task     = [w \in Workers |-> NoJob]
  /\ budget   = [w \in Workers |-> 0]
  /\ lost     = [w \in Workers |-> FALSE]
  /\ renewed  = [w \in Workers |-> 0]

-----------------------------------------------------------------------------
(* Helpers                                                                 *)

(* WHERE id = $1 AND worker_id = $2 AND status IN ('extracting', ...)      *)
HoldsRunning(w) == owner[task[w]] = w /\ status[task[w]] \in Running

(* is_cancel_requested: what the check reads of the slot's job.            *)
CancelSeen(w) == status[task[w]] \in {"cancel_requested", "cancelled"}

(* SET status = s, lease_until = NULL: worker_id and timeout_at stay.       *)
EndJob(j, s) ==
  /\ status' = [status EXCEPT ![j] = s]
  /\ lease'  = [lease EXCEPT ![j] = NoLease]
  /\ UNCHANGED <<owner, deadline>>

(* A slot goes on to another part of process_claimed.                      *)
Enter(w, p) ==
  /\ phase' = [phase EXCEPT ![w] = p]
  /\ UNCHANGED <<task, budget, lost, renewed>>

(* process_claimed returns (or its process dies): all local state is gone. *)
Release(w) ==
  /\ phase'   = [phase EXCEPT ![w] = "idle"]
  /\ task'    = [task EXCEPT ![w] = NoJob]
  /\ budget'  = [budget EXCEPT ![w] = 0]
  /\ lost'    = [lost EXCEPT ![w] = FALSE]
  /\ renewed' = [renewed EXCEPT ![w] = 0]

(* Variant for RunningJobsAreLeased: the statement forgets lease_until.    *)
GrantLease_Forgotten(j) == UNCHANGED lease

(* SET lease_until = now() + interval '2 minutes'                          *)
GrantLease(j) == lease' = [lease EXCEPT ![j] = LeaseTicks]

(* A slot learns that its statement extended the lease.                    *)
SeeLeaseGranted(w) ==
  /\ renewed' = [renewed EXCEPT ![w] = LeaseTicks]
  /\ UNCHANGED <<phase, task, budget, lost>>

-----------------------------------------------------------------------------
(* The API                                                                 *)

(* create: the INSERT of a queued job with timeout_at = now + job_timeout. *)
Create(j) ==
  /\ status[j] = "none"
  /\ status'   = [status EXCEPT ![j] = "queued"]
  /\ deadline' = [deadline EXCEPT ![j] = JobTicks]
  /\ UNCHANGED <<owner, lease, workerVars>>

(* retry: only a failed job is queued again, with a new deadline and       *)
(* without the worker that failed it.                                      *)
Retry(j) ==
  /\ status[j] = "failed"
  /\ status'   = [status EXCEPT ![j] = "queued"]
  /\ owner'    = [owner EXCEPT ![j] = NoWorker]
  /\ lease'    = [lease EXCEPT ![j] = NoLease]
  /\ deadline' = [deadline EXCEPT ![j] = JobTicks]
  /\ UNCHANGED workerVars

(* request_cancellation of a queued job ends it at once.                   *)
CancelQueued(j) ==
  /\ status[j] = "queued"
  /\ EndJob(j, "cancelled")
  /\ UNCHANGED workerVars

(* request_cancellation of a running job leaves worker and lease in place. *)
RequestCancellation(j) ==
  /\ status[j] \in Running
  /\ status' = [status EXCEPT ![j] = "cancel_requested"]
  /\ UNCHANGED <<owner, lease, deadline, workerVars>>

(* The report of a completed job expires or is deleted by the user.        *)
ExpireReport(j) ==
  /\ status[j] = "completed"
  /\ status' = [status EXCEPT ![j] = "expired"]
  /\ UNCHANGED <<owner, lease, deadline, workerVars>>

(* deletion::remove deletes the rows J of one document, all of them ended. *)
DeleteJobs(J) ==
  /\ J # {} /\ \A j \in J : status[j] \in Terminal
  /\ status' = [j \in Jobs |-> IF j \in J THEN "deleted" ELSE status[j]]
  /\ owner'  = [j \in Jobs |-> IF j \in J THEN NoWorker ELSE owner[j]]
  /\ UNCHANGED <<lease, deadline, workerVars>>

-----------------------------------------------------------------------------
(* claim_job: one statement of an idle slot                                *)

Overdue   == {j \in Jobs : status[j] = "queued" /\ deadline[j] = 0}
Claimable == {j \in Jobs : status[j] = "queued" /\ deadline[j] > 0}

(* The statement fails the overdue jobs it can lock and takes the oldest   *)
(* claimable job it can lock: FOR UPDATE SKIP LOCKED passes over rows that *)
(* other transactions hold, so any subset and any job may be the result.   *)
(* If the answer is lost the row is claimed and the slot does not know it. *)
ClaimJob(w) ==
  /\ phase[w] = "idle"
  /\ \E late \in SUBSET Overdue, j \in Claimable :
       /\ status' = [i \in Jobs |-> IF i = j THEN "extracting"
                                   ELSE IF i \in late THEN "failed" ELSE status[i]]
       /\ owner'  = [owner EXCEPT ![j] = w]
       /\ GrantLease(j)
       /\ UNCHANGED deadline
       /\ \/ /\ phase'   = [phase EXCEPT ![w] = "claimed"]
             /\ task'    = [task EXCEPT ![w] = j]
             /\ budget'  = [budget EXCEPT ![w] = deadline[j]]
             /\ renewed' = [renewed EXCEPT ![w] = LeaseTicks]
             /\ UNCHANGED lost
          \/ UNCHANGED workerVars

(* The same statement when it finds no claimable job.                      *)
ExpireQueued(w) ==
  /\ phase[w] = "idle"
  /\ \E late \in SUBSET Overdue \ {{}} :
       status' = [i \in Jobs |-> IF i \in late THEN "failed" ELSE status[i]]
  /\ UNCHANGED <<owner, lease, deadline, workerVars>>

-----------------------------------------------------------------------------
(* process_claimed and process_job                                         *)

(* remaining_job_time: a claim that is already too late is marked failed.  *)
Start(w) ==
  /\ phase[w] = "claimed"
  /\ Enter(w, IF budget[w] > 0 THEN "running" ELSE "marking")
  /\ UNCHANGED rowVars

(* The order in which process_job reports its stages with db::heartbeat.   *)
NextStage ==
  [extracting |-> {"analyzing"},
   analyzing  |-> {"verifying", "merging"},
   verifying  |-> {"verifying", "merging"},
   merging    |-> {"rendering"},
   rendering  |-> {}]

(* db::heartbeat: a new stage and a new lease, if the job is still held.   *)
Heartbeat(w) ==
  /\ phase[w] = "running" /\ HoldsRunning(w)
  /\ \E s \in NextStage[status[task[w]]] :
       status' = [status EXCEPT ![task[w]] = s]
  /\ GrantLease(task[w])
  /\ SeeLeaseGranted(w)
  /\ UNCHANGED <<owner, deadline>>

(* mark_chunk_verifying moves the job along without extending its lease.   *)
MarkVerifying(w) ==
  /\ phase[w] = "running" /\ owner[task[w]] = w
  /\ status[task[w]] \in {"analyzing", "verifying"}
  /\ status' = [status EXCEPT ![task[w]] = "verifying"]
  /\ UNCHANGED <<owner, lease, deadline, workerVars>>

(* The heartbeat task renews the lease every 30 seconds until it fails.    *)
RefreshLease(w) ==
  /\ phase[w] = "running" /\ ~lost[w] /\ HoldsRunning(w)
  /\ GrantLease(task[w])
  /\ SeeLeaseGranted(w)
  /\ UNCHANGED <<status, owner, deadline>>

(* refresh_lease fails (its guard, or the database) and the row does not   *)
(* read as cancelled: lease_lost is set.  The task is awaited after        *)
(* process_job ended, so this can still happen then.                       *)
LoseLease(w) ==
  /\ phase[w] \in {"running", "published", "errored", "cancelling"} /\ ~lost[w]
  /\ lost' = [lost EXCEPT ![w] = TRUE]
  /\ UNCHANGED <<rowVars, phase, task, budget, renewed>>

(* check_cancel, ensure_not_cancelled or the stop token: process_job ends  *)
(* with JobCancelled, which needs a read of a cancelled row.               *)
SeeCancellation(w) ==
  /\ phase[w] = "running" /\ CancelSeen(w)
  /\ Enter(w, "cancelling")
  /\ UNCHANGED rowVars

(* process_job ends with any other error: extraction, a chunk, a model     *)
(* call, storage, the database or a guard that no longer holds.            *)
Fail(w) ==
  /\ phase[w] = "running"
  /\ Enter(w, "errored")
  /\ UNCHANGED rowVars

(* time::timeout ends process_job, even after its report was committed.    *)
Timeout(w) ==
  /\ phase[w] \in {"running", "published"} /\ budget[w] = 0
  /\ Enter(w, "errored")
  /\ UNCHANGED rowVars

(* save_report: the owner's rendered report, the job's end and its data    *)
(* commit together.  When the acknowledgement is lost the slot sees an     *)
(* error although the job is completed.  The transaction itself accepts    *)
(* any state from analyzing on; process_job calls it only after the        *)
(* heartbeat that set rendering.                                           *)
SaveReport(w) ==
  /\ phase[w] = "running" /\ owner[task[w]] = w
  /\ status[task[w]] = "rendering"
  /\ EndJob(task[w], "completed")
  /\ Enter(w, "published") \/ Enter(w, "errored")

(* process_claimed returns after Ok(()), or silently after lease_lost.     *)
Return(w) ==
  /\ \/ phase[w] = "published"
     \/ phase[w] \in {"errored", "cancelling"} /\ lost[w]
  /\ Release(w)
  /\ UNCHANGED rowVars

(* finalize_if_cancelled, the read: a cancelled job is finalized, any      *)
(* other one marked failed; a failed read counts as not cancelled.         *)
CheckCancelled(w) ==
  /\ phase[w] = "errored" /\ ~lost[w]
  /\ \/ CancelSeen(w) /\ Enter(w, "cancelling")
     \/ Enter(w, "marking")
  /\ UNCHANGED rowVars

(* finalize_cancelled: only the owner, and only a cancelled job.           *)
FinalizeCancelled(w) ==
  /\ phase[w] = "cancelling" /\ ~lost[w]
  /\ owner[task[w]] = w /\ CancelSeen(w)
  /\ EndJob(task[w], "cancelled")
  /\ Release(w)

(* Variant for OnlyOwnerEndsLeasedJob: WHERE id = $1, whoever owns the job. *)
MayMarkFailed_AnyWorker(w) ==
  status[task[w]] \notin {"none", "deleted", "cancel_requested", "cancelled", "completed", "expired"}

(* Variant for ImplementsPromise: a completed job is not protected.        *)
MayMarkFailed_Completed(w) ==
  /\ owner[task[w]] = w
  /\ status[task[w]] \notin {"cancel_requested", "cancelled", "expired"}

(* mark_failed: WHERE worker_id = $2 AND status NOT IN (...)               *)
MayMarkFailed(w) ==
  /\ owner[task[w]] = w
  /\ status[task[w]] \notin {"cancel_requested", "cancelled", "completed", "expired"}

MarkFailed(w) ==
  /\ phase[w] = "marking" /\ MayMarkFailed(w)
  /\ EndJob(task[w], "failed")
  /\ Release(w)

(* The last statement of process_claimed matches no row or fails; the      *)
(* error is logged and the slot returns.                                   *)
GiveUp(w) ==
  /\ phase[w] \in {"cancelling", "marking"}
  /\ Release(w)
  /\ UNCHANGED rowVars

(* The worker process dies.  A restarted process draws new worker ids; an  *)
(* idle slot never acts on a row it does not claim, so its name is reused. *)
Crash(w) ==
  /\ phase[w] # "idle"
  /\ Release(w)
  /\ UNCHANGED rowVars

-----------------------------------------------------------------------------
(* recover_expired_leases: separate statements of the recovery loop        *)

(* Variant for LeaseExclusion: without AND lease_until < now().            *)
LapsedJobs_Unexpired == {j \in Jobs : status[j] \in Running /\ deadline[j] > 0}

LapsedJobs == {j \in Jobs : status[j] \in Running /\ lease[j] = 0 /\ deadline[j] > 0}

(* Variant for DeadlineFixed: the takeover restarts the deadline.          *)
RequeueLapsed_NewDeadline ==
  /\ LapsedJobs # {}
  /\ status' = [j \in Jobs |-> IF j \in LapsedJobs THEN "queued" ELSE status[j]]
  /\ owner'  = [j \in Jobs |-> IF j \in LapsedJobs THEN NoWorker ELSE owner[j]]
  /\ lease'  = [j \in Jobs |-> IF j \in LapsedJobs THEN NoLease ELSE lease[j]]
  /\ deadline' = [j \in Jobs |-> IF j \in LapsedJobs THEN JobTicks ELSE deadline[j]]
  /\ UNCHANGED workerVars

(* Running jobs whose lease ended go back to the queue.                    *)
RequeueLapsed ==
  /\ LapsedJobs # {}
  /\ status' = [j \in Jobs |-> IF j \in LapsedJobs THEN "queued" ELSE status[j]]
  /\ owner'  = [j \in Jobs |-> IF j \in LapsedJobs THEN NoWorker ELSE owner[j]]
  /\ lease'  = [j \in Jobs |-> IF j \in LapsedJobs THEN NoLease ELSE lease[j]]
  /\ UNCHANGED <<deadline, workerVars>>

(* Variant for EveryJobEnds: only running jobs are timed out.              *)
TimedOutJobs_Running == {j \in Jobs : status[j] \in Running /\ deadline[j] = 0}

TimedOutJobs == {j \in Jobs : status[j] \in Running \cup {"queued"} /\ deadline[j] = 0}

(* Queued and running jobs past their deadline fail, leased or not.        *)
FailTimedOut ==
  /\ TimedOutJobs # {}
  /\ status' = [j \in Jobs |-> IF j \in TimedOutJobs THEN "failed" ELSE status[j]]
  /\ lease'  = [j \in Jobs |-> IF j \in TimedOutJobs THEN NoLease ELSE lease[j]]
  /\ UNCHANGED <<owner, deadline, workerVars>>

(* Variant for CancellationEnds: a cancellation keeps its lapsed lease.    *)
AbandonedCancellations_Unleased ==
  {j \in Jobs : status[j] = "cancel_requested" /\ lease[j] = NoLease}

AbandonedCancellations ==
  {j \in Jobs : status[j] = "cancel_requested" /\ lease[j] \in {NoLease, 0}}

(* Cancellations whose worker is gone are finished for it.                 *)
FinishCancellations ==
  /\ AbandonedCancellations # {}
  /\ status' = [j \in Jobs |-> IF j \in AbandonedCancellations THEN "cancelled" ELSE status[j]]
  /\ lease'  = [j \in Jobs |-> IF j \in AbandonedCancellations THEN NoLease ELSE lease[j]]
  /\ UNCHANGED <<owner, deadline, workerVars>>

-----------------------------------------------------------------------------
(* Time                                                                    *)

Down(t) == IF t > 0 THEN t - 1 ELSE t

Tick ==
  /\ lease'    = [j \in Jobs |-> Down(lease[j])]
  /\ deadline' = [j \in Jobs |-> Down(deadline[j])]
  /\ budget'   = [w \in Workers |-> Down(budget[w])]
  /\ renewed'  = [w \in Workers |-> Down(renewed[w])]
  /\ UNCHANGED <<status, owner, phase, task, lost>>

-----------------------------------------------------------------------------
ApiNext(j) ==
  \/ Create(j) \/ Retry(j) \/ CancelQueued(j) \/ RequestCancellation(j)
  \/ ExpireReport(j)

WorkerNext(w) ==
  \/ ClaimJob(w) \/ ExpireQueued(w) \/ Start(w) \/ Heartbeat(w) \/ MarkVerifying(w)
  \/ RefreshLease(w) \/ LoseLease(w) \/ SeeCancellation(w) \/ Fail(w) \/ Timeout(w)
  \/ SaveReport(w) \/ Return(w) \/ CheckCancelled(w) \/ FinalizeCancelled(w)
  \/ MarkFailed(w) \/ GiveUp(w) \/ Crash(w)

RecoveryNext == RequeueLapsed \/ FailTimedOut \/ FinishCancellations

Next ==
  \/ \E j \in Jobs : ApiNext(j)
  \/ \E J \in SUBSET Jobs : DeleteJobs(J)
  \/ \E w \in Workers : WorkerNext(w)
  \/ RecoveryNext
  \/ Tick

Spec == Init /\ [][Next]_vars

(* Time passes, and every worker process runs the recovery loop, which     *)
(* never returns: an error is logged and the next round comes 30 seconds   *)
(* later.  Nothing is assumed of the worker slots or of the users.         *)
RecoveryFairness ==
  /\ WF_vars(Tick)
  /\ WF_vars(RequeueLapsed)
  /\ WF_vars(FailTimedOut)
  /\ WF_vars(FinishCancellations)

-----------------------------------------------------------------------------
(* Safety                                                                  *)

(* A slot that works on a job, within the lease it last saw granted and    *)
(* within its own time budget.                                             *)
Within(w) == phase[w] \in {"claimed", "running"} /\ renewed[w] > 0 /\ budget[w] > 0

(* While a slot is within its lease no other worker can take its job over: *)
(* the row still names it and neither recovery, a retry nor a deletion has *)
(* ended the job behind its back; only the user's cancellation may have    *)
(* been noted.  (claim, heartbeat and refresh against recovery and retry.) *)
LeaseExclusion ==
  \A w \in Workers : Within(w) =>
     /\ owner[task[w]] = w
     /\ status[task[w]] \in Running \cup {"cancel_requested"}

(* A running job always has a lease_until.  The recovery statements compare *)
(* it with now(), and a NULL would hide the job of a dead worker from them *)
(* until its deadline, up to two hours later.                              *)
RunningJobsAreLeased ==
  \A j \in Jobs : status[j] \in Running => owner[j] \in Workers /\ lease[j] # NoLease

-----------------------------------------------------------------------------
(* What a step may never do                                                *)

(* The step is slot w's: it moves on in process_claimed, no other slot does. *)
StepOf(w) == {v \in Workers : phase'[v] # phase[v]} = {w}

(* A job with a live lease and time left is completed, failed or cancelled *)
(* only by a step of the slot that owns it and works on it now: the late   *)
(* statement of a worker that lost the job to another one ends nothing.    *)
OnlyOwnerEndsLeasedJob ==
  [][\A j \in Jobs :
       /\ status[j] \in Running \cup {"cancel_requested"}
       /\ lease[j] > 0 /\ deadline[j] > 0
       /\ status'[j] \in Terminal
       => owner[j] \in Workers /\ task[owner[j]] = j /\ StepOf(owner[j])]_vars

(* timeout_at is set when the job is created and when the user retries it; *)
(* claims, heartbeats and takeovers after a crash never extend it.         *)
DeadlineFixed ==
  [][\A j \in Jobs : deadline'[j] > deadline[j] =>
       status[j] \in {"none", "failed"} /\ status'[j] = "queued"]_vars

-----------------------------------------------------------------------------
(* The queue implements what the API promises of a job                     *)

outcome == [j \in Jobs |->
  CASE status[j] = "queued"           -> "waiting"
    [] status[j] \in Running          -> "running"
    [] status[j] = "cancel_requested" -> "cancelling"
    [] OTHER                          -> status[j]]

Promise == INSTANCE JobPromise WITH Jobs <- Jobs, outcome <- outcome

(* Every step of workers, API, recovery and clock is a move the promise    *)
(* allows: no lost acknowledgement, late mark_failed or takeover brings a  *)
(* completed job back or turns an accepted cancellation into a result.     *)
ImplementsPromise == Promise!Spec

(* Every queued, running or cancelling job ends, even if every worker that *)
(* claims it dies: the deadline and the recovery loop see to it.           *)
EveryJobEnds == Promise!Ends

(* A cancellation the API accepted ends in "cancelled" even if the worker  *)
(* that should finish it is gone.                                          *)
CancellationEnds == Promise!CancelTakesEffect
=============================================================================

------------------------ MODULE InputLifecycleProofs ------------------------
(***************************************************************************)
(* Theorems about JobQueue and InputLifecycle for any number of documents, *)
(* jobs and slots and any lengths of leases, deadlines and retention.      *)
(*                                                                         *)
(* The queue.  LeaseExclusion is not inductive: that a slot within its     *)
(* lease still owns its job rests on the row's lease and deadline being at *)
(* least as long as the slot believes, so that neither recovery statement  *)
(* can select the row, and on unclaimed rows naming no worker.  QueueInv   *)
(* adds both.                                                              *)
(*                                                                         *)
(* The inputs.  Every step of InputLifecycle is a step of JobQueue or      *)
(* leaves its rows alone, so what is proved of the queue holds here too.   *)
(* The data rests on more: a file that some process is about to remove     *)
(* belongs to an input that no job can ever use again, whatever became of  *)
(* the job meanwhile, and bodies that a stale slot still writes then are   *)
(* the only ones without an event that erases them.                        *)
(***************************************************************************)
EXTENDS InputLifecycle, TLAPS

-----------------------------------------------------------------------------
(* The queue                                                               *)

(* A slot within its lease knows no more time than its row has left.       *)
HeldJobs ==
  \A w \in Workers : Within(w) =>
     /\ owner[task[w]] = w
     /\ status[task[w]] \in Running \cup {"cancel_requested"}
     /\ lease[task[w]] >= renewed[w]

(* A slot's own timeout fires no later than its job's deadline.             *)
BudgetBounded ==
  \A w \in Workers : phase[w] # "idle" => budget[w] <= deadline[task[w]]

(* Rows nobody may work on name no worker.                                 *)
UnclaimedRows ==
  \A j \in Jobs : status[j] \in {"none", "queued", "deleted"} => owner[j] = NoWorker

(* TypeOK and RunningJobsAreLeased need nothing else.                      *)
QueueInv == TypeOK /\ HeldJobs /\ BudgetBounded /\ UnclaimedRows /\ RunningJobsAreLeased

-----------------------------------------------------------------------------
(* Initially no row exists and every slot is idle.                         *)
LEMMA InitQueueInv == Init => QueueInv
  BY JobQueueAssumption
  DEF Init, QueueInv, TypeOK, HeldJobs, BudgetBounded, UnclaimedRows, RunningJobsAreLeased, Within,
      Statuses, Phases, Running, Terminal, NoLease

(* Every statement, step of a slot and tick keeps the types.               *)
LEMMA TypeStep == TypeOK /\ [Next]_vars => TypeOK'
<1> SUFFICES ASSUME TypeOK, [Next]_vars PROVE TypeOK'
  OBVIOUS
<1> USE JobQueueAssumption DEF TypeOK, rowVars, workerVars, Statuses, Phases, Running, Terminal, NoLease
<1>1. ASSUME NEW j \in Jobs, ApiNext(j) PROVE TypeOK'
  BY <1>1 DEF ApiNext, Create, Retry, CancelQueued, RequestCancellation, ExpireReport, EndJob
<1>2. ASSUME NEW J \in SUBSET Jobs, DeleteJobs(J) PROVE TypeOK'
  BY <1>2 DEF DeleteJobs
<1>3. ASSUME NEW w \in Workers, WorkerNext(w) PROVE TypeOK'
  <2>1. CASE ClaimJob(w)
    BY <2>1 DEF ClaimJob, GrantLease, Claimable, Overdue
  <2>2. CASE ExpireQueued(w)
    BY <2>2 DEF ExpireQueued, Overdue
  <2>3. CASE Start(w) \/ Fail(w) \/ Timeout(w) \/ SeeCancellation(w) \/ CheckCancelled(w)
    BY <2>3 DEF Start, Fail, Timeout, SeeCancellation, CheckCancelled, Enter
  <2>4. CASE Heartbeat(w)
    BY <2>4 DEF Heartbeat, HoldsRunning, NextStage, GrantLease, SeeLeaseGranted
  <2>5. CASE MarkVerifying(w) \/ LoseLease(w)
    BY <2>5 DEF MarkVerifying, LoseLease
  <2>6. CASE RefreshLease(w)
    BY <2>6 DEF RefreshLease, GrantLease, SeeLeaseGranted
  <2>7. CASE SaveReport(w)
    BY <2>7 DEF SaveReport, EndJob, Enter
  <2>8. CASE Return(w) \/ GiveUp(w) \/ Crash(w)
    <3>1. Release(w) /\ UNCHANGED rowVars
      BY <2>8 DEF Return, GiveUp, Crash
    <3> QED
      BY <3>1 DEF Release
  <2>9. CASE FinalizeCancelled(w) \/ MarkFailed(w)
    <3>1. Release(w) /\ (EndJob(task[w], "cancelled") \/ EndJob(task[w], "failed"))
      BY <2>9 DEF FinalizeCancelled, MarkFailed
    <3>2. /\ status' \in [Jobs -> Statuses] /\ owner' \in [Jobs -> Workers \cup {NoWorker}]
          /\ lease' \in [Jobs -> NoLease .. LeaseTicks] /\ deadline' \in [Jobs -> 0 .. JobTicks]
      BY <3>1 DEF EndJob
    <3>3. /\ phase' \in [Workers -> Phases] /\ task' \in [Workers -> Jobs \cup {NoJob}]
          /\ budget' \in [Workers -> 0 .. JobTicks] /\ lost' \in [Workers -> BOOLEAN]
          /\ renewed' \in [Workers -> 0 .. LeaseTicks]
          /\ \A v \in Workers : phase'[v] = "idle" \/ task'[v] \in Jobs
      BY <3>1 DEF Release
    <3> QED
      BY <3>2, <3>3
  <2> QED
    BY <1>3, <2>1, <2>2, <2>3, <2>4, <2>5, <2>6, <2>7, <2>8, <2>9 DEF WorkerNext
<1>4. CASE RecoveryNext
  BY <1>4 DEF RecoveryNext, RequeueLapsed, FailTimedOut, FinishCancellations
<1>5. CASE Tick
  BY <1>5 DEF Tick, Down
<1>6. CASE UNCHANGED vars
  BY <1>6 DEF vars
<1> QED
  BY <1>1, <1>2, <1>3, <1>4, <1>5, <1>6 DEF Next

(* The types of all variables hold in every reachable state.               *)
THEOREM TypeCorrect == Spec => []TypeOK
<1>1. Init => TypeOK
  BY InitQueueInv DEF QueueInv
<1> QED
  BY <1>1, TypeStep, PTL DEF Spec

-----------------------------------------------------------------------------
(* The row of a slot within its lease withstands every statement that      *)
(* another actor may run on it.                                            *)
LEMMA HeldStep == QueueInv /\ TypeOK' /\ [Next]_vars => HeldJobs'
<1> SUFFICES ASSUME QueueInv, TypeOK', [Next]_vars,
                    NEW v \in Workers, Within(v)'
             PROVE  (/\ owner[task[v]] = v
                     /\ status[task[v]] \in Running \cup {"cancel_requested"}
                     /\ lease[task[v]] >= renewed[v])'
  BY DEF HeldJobs
<1> USE JobQueueAssumption DEF QueueInv, TypeOK, Within, rowVars, workerVars, Running, NoLease
<1>0. Within(v) =>
        /\ task[v] \in Jobs
        /\ owner[task[v]] = v
        /\ status[task[v]] \in Running \cup {"cancel_requested"}
        /\ lease[task[v]] >= renewed[v]
        /\ deadline[task[v]] >= budget[v]
  BY DEF HeldJobs, BudgetBounded
<1> DEFINE Held == /\ owner[task[v]] = v
                   /\ status[task[v]] \in Running \cup {"cancel_requested"}
                   /\ lease[task[v]] >= renewed[v]
<1>1. ASSUME NEW j \in Jobs, ApiNext(j) PROVE Held'
  <2>1. Within(v) /\ UNCHANGED workerVars
    BY <1>1 DEF ApiNext, Create, Retry, CancelQueued, RequestCancellation, ExpireReport
  <2> QED
    BY <1>0, <1>1, <2>1
    DEF ApiNext, Create, Retry, CancelQueued, RequestCancellation, ExpireReport, EndJob
<1>2. ASSUME NEW J \in SUBSET Jobs, DeleteJobs(J) PROVE Held'
  BY <1>0, <1>2 DEF DeleteJobs, Terminal
<1>3. ASSUME NEW w \in Workers, WorkerNext(w) PROVE Held'
  <2>1. CASE ClaimJob(w)
    <3>1. PICK late \in SUBSET Overdue, j \in Claimable :
            /\ status' = [i \in Jobs |-> IF i = j THEN "extracting"
                                        ELSE IF i \in late THEN "failed" ELSE status[i]]
            /\ owner'  = [owner EXCEPT ![j] = w]
            /\ GrantLease(j)
            /\ UNCHANGED deadline
            /\ \/ /\ phase'   = [phase EXCEPT ![w] = "claimed"]
                  /\ task'    = [task EXCEPT ![w] = j]
                  /\ budget'  = [budget EXCEPT ![w] = deadline[j]]
                  /\ renewed' = [renewed EXCEPT ![w] = LeaseTicks]
                  /\ UNCHANGED lost
               \/ UNCHANGED workerVars
      BY <2>1 DEF ClaimJob
    <3>2. phase[w] = "idle" /\ j \in Jobs /\ status[j] = "queued"
          /\ \A i \in late : status[i] = "queued"
      BY <2>1, <3>1 DEF ClaimJob, Claimable, Overdue
    <3>3. CASE v = w
      BY <3>1, <3>2, <3>3 DEF GrantLease
    <3>4. CASE v # w
      <4>1. Within(v) /\ task'[v] = task[v] /\ budget'[v] = budget[v] /\ renewed'[v] = renewed[v]
        BY <3>1, <3>4
      <4>2. task[v] # j /\ task[v] \notin late
        BY <1>0, <3>2, <4>1
      <4> QED
        BY <1>0, <3>1, <3>2, <4>1, <4>2 DEF GrantLease
    <3> QED
      BY <3>3, <3>4
  <2>2. CASE ExpireQueued(w)
    BY <1>0, <2>2 DEF ExpireQueued, Overdue
  <2>3. CASE Start(w) \/ Fail(w) \/ Timeout(w) \/ SeeCancellation(w) \/ CheckCancelled(w)
    BY <1>0, <2>3 DEF Start, Fail, Timeout, SeeCancellation, CheckCancelled, Enter
  <2>4. CASE Heartbeat(w) \/ RefreshLease(w)
    <3>1. /\ HoldsRunning(w) /\ GrantLease(task[w]) /\ SeeLeaseGranted(w)
          /\ status' = status \/ \E s \in Running : status' = [status EXCEPT ![task[w]] = s]
          /\ UNCHANGED <<owner, deadline>>
      BY <2>4 DEF Heartbeat, RefreshLease, NextStage, HoldsRunning
    <3>2. CASE v = w
      BY <3>1, <3>2 DEF GrantLease, SeeLeaseGranted, HoldsRunning
    <3>3. CASE v # w
      <4>1. Within(v) /\ task'[v] = task[v] /\ renewed'[v] = renewed[v]
        BY <3>1, <3>3 DEF SeeLeaseGranted
      <4> QED
        BY <1>0, <3>1, <3>3, <4>1 DEF GrantLease, HoldsRunning
    <3> QED
      BY <3>2, <3>3
  <2>5. CASE MarkVerifying(w) \/ LoseLease(w)
    BY <1>0, <2>5 DEF MarkVerifying, LoseLease
  <2>6. CASE SaveReport(w)
    <3>1. v # w
      BY <2>6 DEF SaveReport, Enter
    <3> QED
      BY <1>0, <2>6, <3>1 DEF SaveReport, EndJob, Enter
  <2>7. CASE Return(w) \/ GiveUp(w) \/ Crash(w)
    <3>1. Release(w) /\ UNCHANGED rowVars
      BY <2>7 DEF Return, GiveUp, Crash
    <3> QED
      BY <1>0, <3>1 DEF Release
  <2>8. CASE FinalizeCancelled(w) \/ MarkFailed(w)
    <3>1. PICK s \in {"cancelled", "failed"} : EndJob(task[w], s) /\ Release(w)
      BY <2>8 DEF FinalizeCancelled, MarkFailed
    <3>2. owner[task[w]] = w
      BY <2>8 DEF FinalizeCancelled, MarkFailed, MayMarkFailed
    <3>3. v # w
      BY <3>1 DEF Release
    <3> QED
      BY <1>0, <3>1, <3>2, <3>3 DEF EndJob, Release
  <2> QED
    BY <1>3, <2>1, <2>2, <2>3, <2>4, <2>5, <2>6, <2>7, <2>8 DEF WorkerNext
<1>4. CASE RecoveryNext
  <2>1. Within(v) /\ task[v] \in Jobs /\ UNCHANGED workerVars
    BY <1>4 DEF RecoveryNext, RequeueLapsed, FailTimedOut, FinishCancellations
  <2>2. task[v] \notin LapsedJobs /\ task[v] \notin TimedOutJobs /\ task[v] \notin AbandonedCancellations
    BY <1>0, <2>1 DEF LapsedJobs, TimedOutJobs, AbandonedCancellations
  <2> QED
    BY <1>0, <1>4, <2>1, <2>2 DEF RecoveryNext, RequeueLapsed, FailTimedOut, FinishCancellations
<1>5. CASE Tick
  <2>1. Within(v) /\ task[v] \in Jobs
    BY <1>5 DEF Tick, Down
  <2> QED
    BY <1>0, <1>5, <2>1 DEF Tick, Down
<1>6. CASE UNCHANGED vars
  BY <1>0, <1>6 DEF vars
<1> QED
  BY <1>1, <1>2, <1>3, <1>4, <1>5, <1>6 DEF Next

(* Only a new deadline raises timeout_at, and it is the longest there is;  *)
(* the slot's own clock and the row's run down together.                   *)
LEMMA BudgetStep == TypeOK /\ BudgetBounded /\ [Next]_vars => BudgetBounded'
<1> SUFFICES ASSUME TypeOK, BudgetBounded, [Next]_vars,
                    NEW v \in Workers, phase'[v] # "idle"
             PROVE  budget'[v] <= deadline'[task'[v]]
  BY DEF BudgetBounded
<1> USE JobQueueAssumption DEF TypeOK, rowVars, workerVars
<1>0. phase[v] # "idle" => task[v] \in Jobs /\ budget[v] <= deadline[task[v]]
  BY DEF BudgetBounded
<1>1. ASSUME NEW j \in Jobs, ApiNext(j) PROVE budget'[v] <= deadline'[task'[v]]
  BY <1>0, <1>1
  DEF ApiNext, Create, Retry, CancelQueued, RequestCancellation, ExpireReport, EndJob
<1>2. ASSUME NEW J \in SUBSET Jobs, DeleteJobs(J) PROVE budget'[v] <= deadline'[task'[v]]
  BY <1>0, <1>2 DEF DeleteJobs
<1>3. ASSUME NEW w \in Workers, WorkerNext(w) PROVE budget'[v] <= deadline'[task'[v]]
  <2>1. CASE ClaimJob(w)
    BY <1>0, <2>1 DEF ClaimJob, Claimable
  <2>2. CASE ExpireQueued(w)
    BY <1>0, <2>2 DEF ExpireQueued
  <2>3. CASE Start(w) \/ Fail(w) \/ Timeout(w) \/ SeeCancellation(w) \/ CheckCancelled(w)
    <3>1. Enter(w, phase'[w]) /\ UNCHANGED rowVars /\ phase[w] # "idle"
      BY <2>3 DEF Start, Fail, Timeout, SeeCancellation, CheckCancelled, Enter
    <3> QED
      BY <1>0, <3>1 DEF Enter
  <2>4. CASE Heartbeat(w) \/ RefreshLease(w) \/ MarkVerifying(w) \/ LoseLease(w)
    BY <1>0, <2>4 DEF Heartbeat, RefreshLease, MarkVerifying, LoseLease, SeeLeaseGranted
  <2>5. CASE SaveReport(w)
    BY <1>0, <2>5 DEF SaveReport, EndJob, Enter
  <2>6. CASE Return(w) \/ GiveUp(w) \/ Crash(w) \/ FinalizeCancelled(w) \/ MarkFailed(w)
    <3>1. Release(w) /\ UNCHANGED deadline
      BY <2>6 DEF Return, GiveUp, Crash, FinalizeCancelled, MarkFailed, EndJob
    <3> QED
      BY <1>0, <3>1 DEF Release
  <2> QED
    BY <1>3, <2>1, <2>2, <2>3, <2>4, <2>5, <2>6 DEF WorkerNext
<1>4. CASE RecoveryNext
  BY <1>0, <1>4 DEF RecoveryNext, RequeueLapsed, FailTimedOut, FinishCancellations
<1>5. CASE Tick
  BY <1>0, <1>5 DEF Tick, Down
<1>6. CASE UNCHANGED vars
  BY <1>0, <1>6 DEF vars
<1> QED
  BY <1>1, <1>2, <1>3, <1>4, <1>5, <1>6 DEF Next

-----------------------------------------------------------------------------
(* What any step does to one row, as far as status, owner and lease go.    *)

(* A heartbeat keeps a running job running.                                *)
LEMMA NextStageRuns == \A r \in Running : NextStage[r] \subseteq Running
  BY DEF NextStage, Running

(* The rows a step leaves running were claimed or renewed with a lease,    *)
(* and the ones it leaves unclaimed lost their worker.                     *)
LEMMA RowStep ==
  TypeOK /\ UnclaimedRows /\ RunningJobsAreLeased /\ [Next]_vars
    => UnclaimedRows' /\ RunningJobsAreLeased'
<1> SUFFICES ASSUME TypeOK, UnclaimedRows, RunningJobsAreLeased, [Next]_vars, NEW i \in Jobs
             PROVE  /\ status'[i] \in {"none", "queued", "deleted"} => owner'[i] = NoWorker
                    /\ status'[i] \in Running => owner'[i] \in Workers /\ lease'[i] # NoLease
  BY DEF UnclaimedRows, RunningJobsAreLeased
<1> DEFINE Kept ==
      /\ status'[i] \in {"none", "queued", "deleted"} => owner'[i] = NoWorker
      /\ status'[i] \in Running => owner'[i] \in Workers /\ lease'[i] # NoLease
<1> USE JobQueueAssumption DEF TypeOK, rowVars, workerVars, Running, NoLease
<1>0. /\ status[i] \in {"none", "queued", "deleted"} => owner[i] = NoWorker
      /\ status[i] \in Running => owner[i] \in Workers /\ lease[i] # NoLease
  BY DEF UnclaimedRows, RunningJobsAreLeased
<1>1. ASSUME NEW j \in Jobs, ApiNext(j) PROVE Kept
  BY <1>0, <1>1
  DEF ApiNext, Create, Retry, CancelQueued, RequestCancellation, ExpireReport, EndJob
<1>2. ASSUME NEW J \in SUBSET Jobs, DeleteJobs(J) PROVE Kept
  BY <1>0, <1>2 DEF DeleteJobs
<1>3. ASSUME NEW w \in Workers, WorkerNext(w) PROVE Kept
  <2>1. CASE ClaimJob(w)
    BY <1>0, <2>1 DEF ClaimJob, GrantLease
  <2>2. CASE ExpireQueued(w)
    BY <1>0, <2>2 DEF ExpireQueued
  <2>3. CASE Heartbeat(w)
    <3>1. status[task[w]] \in Running
      BY <2>3 DEF Heartbeat, HoldsRunning
    <3>2. PICK s \in Running : status' = [status EXCEPT ![task[w]] = s]
      BY <2>3, <3>1, NextStageRuns DEF Heartbeat
    <3>3. /\ owner' = owner /\ lease' = [lease EXCEPT ![task[w]] = LeaseTicks]
      BY <2>3 DEF Heartbeat, GrantLease
    <3>4. CASE i = task[w]
      BY <1>0, <3>1, <3>2, <3>3, <3>4
    <3>5. CASE i # task[w]
      BY <1>0, <3>2, <3>3, <3>5
    <3> QED
      BY <3>4, <3>5
  <2>4. CASE RefreshLease(w)
    BY <1>0, <2>4 DEF RefreshLease, GrantLease
  <2>5. CASE MarkVerifying(w)
    BY <1>0, <2>5 DEF MarkVerifying
  <2>6. CASE SaveReport(w)
    BY <1>0, <2>6 DEF SaveReport, EndJob
  <2>7. CASE FinalizeCancelled(w) \/ MarkFailed(w)
    BY <1>0, <2>7 DEF FinalizeCancelled, MarkFailed, EndJob
  <2>8. CASE UNCHANGED rowVars
    BY <1>0, <2>8
  <2>9. Start(w) \/ Fail(w) \/ Timeout(w) \/ SeeCancellation(w) \/ CheckCancelled(w)
        \/ LoseLease(w) \/ Return(w) \/ GiveUp(w) \/ Crash(w) => UNCHANGED rowVars
    BY DEF Start, Fail, Timeout, SeeCancellation, CheckCancelled, LoseLease, Return, GiveUp, Crash
  <2> QED
    BY <1>3, <2>1, <2>2, <2>3, <2>4, <2>5, <2>6, <2>7, <2>8, <2>9 DEF WorkerNext
<1>4. CASE RecoveryNext
  BY <1>0, <1>4 DEF RecoveryNext, RequeueLapsed, FailTimedOut, FinishCancellations
<1>5. CASE Tick
  BY <1>0, <1>5 DEF Tick, Down
<1>6. CASE UNCHANGED vars
  BY <1>0, <1>6 DEF vars
<1> QED
  BY <1>1, <1>2, <1>3, <1>4, <1>5, <1>6 DEF Next

-----------------------------------------------------------------------------
(* QueueInv is inductive.                                                  *)
THEOREM QueueInvariant == Spec => []QueueInv
<1>1. Init => QueueInv
  BY InitQueueInv
<1>2. QueueInv /\ [Next]_vars => QueueInv'
  BY TypeStep, HeldStep, BudgetStep, RowStep DEF QueueInv
<1> QED
  BY <1>1, <1>2, PTL DEF Spec

(* No two workers work on a job within their leases, and nobody else ends  *)
(* or reassigns the job of a worker that is.                               *)
THEOREM LeasesExclude == Spec => []LeaseExclusion
<1>1. QueueInv => LeaseExclusion
  BY DEF QueueInv, HeldJobs, LeaseExclusion
<1> QED
  BY <1>1, QueueInvariant, PTL

(* The recovery statements can see every running job.                      *)
THEOREM RunningLeased == Spec => []RunningJobsAreLeased
<1>1. QueueInv => RunningJobsAreLeased
  BY DEF QueueInv
<1> QED
  BY <1>1, QueueInvariant, PTL

-----------------------------------------------------------------------------
(* Action properties                                                       *)

(* A live job is ended only by a step of the slot that works on it.        *)
LEMMA OwnerEndsStep ==
  TypeOK /\ [Next]_vars =>
    \A j \in Jobs :
       /\ status[j] \in Running \cup {"cancel_requested"}
       /\ lease[j] > 0 /\ deadline[j] > 0
       /\ status'[j] \in Terminal
       => owner[j] \in Workers /\ task[owner[j]] = j /\ StepOf(owner[j])
<1> SUFFICES ASSUME TypeOK, [Next]_vars, NEW j \in Jobs,
                    status[j] \in Running \cup {"cancel_requested"},
                    lease[j] > 0, deadline[j] > 0, status'[j] \in Terminal
             PROVE  owner[j] \in Workers /\ task[owner[j]] = j /\ StepOf(owner[j])
  OBVIOUS
<1> USE JobQueueAssumption DEF TypeOK, rowVars, workerVars, Running, Terminal, NoLease
<1>0. status'[j] # status[j]
  OBVIOUS
<1>1. ASSUME NEW i \in Jobs, ApiNext(i) PROVE FALSE
  BY <1>0, <1>1
  DEF ApiNext, Create, Retry, CancelQueued, RequestCancellation, ExpireReport, EndJob
<1>2. ASSUME NEW J \in SUBSET Jobs, DeleteJobs(J) PROVE FALSE
  BY <1>0, <1>2 DEF DeleteJobs
<1>3. ASSUME NEW w \in Workers, WorkerNext(w) PROVE owner[j] = w /\ task[w] = j /\ StepOf(w)
  <2>1. CASE ClaimJob(w) \/ ExpireQueued(w)
    BY <1>0, <2>1 DEF ClaimJob, ExpireQueued, Overdue, Claimable
  <2>2. CASE Heartbeat(w)
    <3>1. PICK s \in Running : status' = [status EXCEPT ![task[w]] = s]
      BY <2>2 DEF Heartbeat, HoldsRunning, NextStage
    <3> QED
      BY <1>0, <3>1
  <2>3. CASE MarkVerifying(w)
    BY <1>0, <2>3 DEF MarkVerifying
  <2>4. CASE SaveReport(w) \/ FinalizeCancelled(w) \/ MarkFailed(w)
    <3>1. owner[task[w]] = w
      BY <2>4 DEF SaveReport, FinalizeCancelled, MarkFailed, MayMarkFailed
    <3>2. j = task[w]
      BY <1>0, <2>4 DEF SaveReport, FinalizeCancelled, MarkFailed, EndJob
    <3>3. \E p \in Phases : p # phase[w] /\ phase' = [phase EXCEPT ![w] = p]
      BY <2>4 DEF SaveReport, FinalizeCancelled, MarkFailed, Enter, Release, Phases
    <3>4. StepOf(w)
      BY <3>3 DEF StepOf
    <3> QED
      BY <3>1, <3>2, <3>4
  <2>5. CASE UNCHANGED status
    BY <1>0, <2>5
  <2>6. RefreshLease(w) \/ Start(w) \/ Fail(w) \/ Timeout(w) \/ SeeCancellation(w)
        \/ CheckCancelled(w) \/ LoseLease(w) \/ Return(w) \/ GiveUp(w) \/ Crash(w)
        => UNCHANGED status
    BY DEF RefreshLease, Start, Fail, Timeout, SeeCancellation, CheckCancelled, LoseLease,
           Return, GiveUp, Crash
  <2> QED
    BY <1>3, <2>1, <2>2, <2>3, <2>4, <2>5, <2>6 DEF WorkerNext
<1>4. CASE RecoveryNext
  BY <1>0, <1>4 DEF RecoveryNext, RequeueLapsed, FailTimedOut, FinishCancellations,
                    LapsedJobs, TimedOutJobs, AbandonedCancellations
<1>5. CASE Tick \/ UNCHANGED vars
  BY <1>0, <1>5 DEF Tick, vars
<1> QED
  BY <1>1, <1>2, <1>3, <1>4, <1>5 DEF Next

(* Late statements of a worker that lost its job end nothing, even while   *)
(* another slot owns the job and works on it.                              *)
THEOREM OnlyOwnerEnds == Spec => OnlyOwnerEndsLeasedJob
<1>1. TypeOK /\ [Next]_vars =>
        [\A j \in Jobs :
           /\ status[j] \in Running \cup {"cancel_requested"}
           /\ lease[j] > 0 /\ deadline[j] > 0
           /\ status'[j] \in Terminal
           => owner[j] \in Workers /\ task[owner[j]] = j /\ StepOf(owner[j])]_vars
  BY OwnerEndsStep
<1> QED
  BY <1>1, TypeCorrect, PTL DEF Spec, OnlyOwnerEndsLeasedJob

(* Only submitting and retrying a job set its deadline.                    *)
LEMMA DeadlineStep ==
  TypeOK /\ [Next]_vars =>
    \A j \in Jobs : deadline'[j] > deadline[j] =>
      status[j] \in {"none", "failed"} /\ status'[j] = "queued"
<1> SUFFICES ASSUME TypeOK, [Next]_vars, NEW j \in Jobs, deadline'[j] > deadline[j]
             PROVE  status[j] \in {"none", "failed"} /\ status'[j] = "queued"
  OBVIOUS
<1> USE DEF TypeOK, rowVars, workerVars
<1>1. ASSUME NEW i \in Jobs, ApiNext(i)
      PROVE  status[j] \in {"none", "failed"} /\ status'[j] = "queued"
  BY <1>1 DEF ApiNext, Create, Retry, CancelQueued, RequestCancellation, ExpireReport, EndJob
<1>2. ASSUME NEW w \in Workers, WorkerNext(w) PROVE UNCHANGED deadline
  BY <1>2 DEF WorkerNext, ClaimJob, ExpireQueued, Start, Heartbeat, MarkVerifying, RefreshLease,
              LoseLease, SeeCancellation, Fail, Timeout, SaveReport, Return, CheckCancelled,
              FinalizeCancelled, MarkFailed, GiveUp, Crash, EndJob
<1>3. ASSUME NEW J \in SUBSET Jobs, DeleteJobs(J) PROVE UNCHANGED deadline
  BY <1>3 DEF DeleteJobs
<1>4. RecoveryNext => UNCHANGED deadline
  BY DEF RecoveryNext, RequeueLapsed, FailTimedOut, FinishCancellations
<1>5. ~Tick
  BY DEF Tick, Down
<1>6. UNCHANGED vars => UNCHANGED deadline
  BY DEF vars
<1>7. ~UNCHANGED deadline
  OBVIOUS
<1> QED
  BY <1>1, <1>2, <1>3, <1>4, <1>5, <1>6, <1>7 DEF Next

(* A takeover never extends the deadline.                                  *)
THEOREM DeadlineKept == Spec => DeadlineFixed
<1>1. TypeOK /\ [Next]_vars =>
        [\A j \in Jobs : deadline'[j] > deadline[j] =>
           status[j] \in {"none", "failed"} /\ status'[j] = "queued"]_vars
  BY DeadlineStep
<1> QED
  BY <1>1, TypeCorrect, PTL DEF Spec, DeadlineFixed

-----------------------------------------------------------------------------
(* The queue implements JobPromise                                         *)

(* The status changes a step can make to one row.                          *)
Moved(s, t) ==
  \/ s = t
  \/ s = "none" /\ t = "queued"
  \/ s = "queued" /\ t \in {"extracting", "failed", "cancelled"}
  \/ s \in Running /\ t \in Running \cup {"queued", "completed", "failed", "cancel_requested"}
  \/ s = "failed" /\ t = "queued"
  \/ s = "cancel_requested" /\ t = "cancelled"
  \/ s = "completed" /\ t = "expired"
  \/ s \in Terminal /\ t = "deleted"

Shown(s) ==
  CASE s = "queued"           -> "waiting"
    [] s \in Running          -> "running"
    [] s = "cancel_requested" -> "cancelling"
    [] OTHER                  -> s

(* A late mark_failed cannot hit a row it does not own, and an owned row   *)
(* is never unclaimed: this is where UnclaimedRows is needed.              *)
LEMMA StatusStep ==
  TypeOK /\ UnclaimedRows /\ [Next]_vars => \A i \in Jobs : Moved(status[i], status'[i])
<1> SUFFICES ASSUME TypeOK, UnclaimedRows, [Next]_vars, NEW i \in Jobs
             PROVE  Moved(status[i], status'[i])
  OBVIOUS
<1> USE JobQueueAssumption DEF TypeOK, rowVars, workerVars, Running, Terminal, Moved
<1>1. ASSUME NEW j \in Jobs, ApiNext(j) PROVE Moved(status[i], status'[i])
  BY <1>1
  DEF ApiNext, Create, Retry, CancelQueued, RequestCancellation, ExpireReport, EndJob
<1>2. ASSUME NEW J \in SUBSET Jobs, DeleteJobs(J) PROVE Moved(status[i], status'[i])
  BY <1>2 DEF DeleteJobs
<1>3. ASSUME NEW w \in Workers, WorkerNext(w) PROVE Moved(status[i], status'[i])
  <2>1. CASE ClaimJob(w) \/ ExpireQueued(w)
    BY <2>1 DEF ClaimJob, ExpireQueued, Overdue, Claimable
  <2>2. CASE Heartbeat(w)
    <3>1. status[task[w]] \in Running
      BY <2>2 DEF Heartbeat, HoldsRunning
    <3>2. PICK s \in Running : status' = [status EXCEPT ![task[w]] = s]
      BY <2>2, <3>1, NextStageRuns DEF Heartbeat
    <3> QED
      BY <3>1, <3>2
  <2>3. CASE MarkVerifying(w)
    BY <2>3 DEF MarkVerifying
  <2>4. CASE SaveReport(w)
    BY <2>4 DEF SaveReport, EndJob
  <2>5. CASE FinalizeCancelled(w)
    BY <2>5 DEF FinalizeCancelled, CancelSeen, EndJob
  <2>6. CASE MarkFailed(w)
    <3>1. owner[task[w]] = w /\ status' = [status EXCEPT ![task[w]] = "failed"]
      BY <2>6 DEF MarkFailed, MayMarkFailed, EndJob
    <3>2. task[w] = i => status[i] \in Running \cup {"failed"}
      BY <2>6, <3>1 DEF MarkFailed, MayMarkFailed, UnclaimedRows, Statuses
    <3> QED
      BY <3>1, <3>2
  <2>7. CASE UNCHANGED status
    BY <2>7
  <2>8. RefreshLease(w) \/ Start(w) \/ Fail(w) \/ Timeout(w) \/ SeeCancellation(w)
        \/ CheckCancelled(w) \/ LoseLease(w) \/ Return(w) \/ GiveUp(w) \/ Crash(w)
        => UNCHANGED status
    BY DEF RefreshLease, Start, Fail, Timeout, SeeCancellation, CheckCancelled, LoseLease,
           Return, GiveUp, Crash
  <2> QED
    BY <1>3, <2>1, <2>2, <2>3, <2>4, <2>5, <2>6, <2>7, <2>8 DEF WorkerNext
<1>4. CASE RecoveryNext
  BY <1>4 DEF RecoveryNext, RequeueLapsed, FailTimedOut, FinishCancellations,
              LapsedJobs, TimedOutJobs, AbandonedCancellations
<1>5. CASE Tick \/ UNCHANGED vars
  BY <1>5 DEF Tick, vars
<1> QED
  BY <1>1, <1>2, <1>3, <1>4, <1>5 DEF Next

(* Each of these changes is a move the promise allows, or not visible.     *)
LEMMA MovesAllowed ==
  ASSUME NEW s \in Statuses, NEW t \in Statuses, Moved(s, t)
  PROVE  /\ Shown(t) \in {"none"} \cup Promise!Pending \cup Promise!Ended
         /\ Shown(s) # Shown(t) => <<Shown(s), Shown(t)>> \in Promise!Moves
<1> USE DEF Statuses, Running, Terminal, Moved, Shown, Promise!Pending, Promise!Ended, Promise!Moves
<1>1. Shown(t) \in {"none"} \cup Promise!Pending \cup Promise!Ended
  OBVIOUS
<1>2. ASSUME Shown(s) # Shown(t) PROVE <<Shown(s), Shown(t)>> \in Promise!Moves
  BY <1>2
<1> QED
  BY <1>1, <1>2

(* The queue's outcomes are those the API promises, whatever interleaving, *)
(* crash, lost answer or stall the workers meet.                           *)
THEOREM QueueImplementsPromise == Spec => ImplementsPromise
<1>1. Init => Promise!Init
  BY DEF Init, Promise!Init, outcome, Running
<1>2. QueueInv /\ QueueInv' /\ [Next]_vars => [Promise!Next]_outcome
  <2> SUFFICES ASSUME QueueInv, QueueInv', [Next]_vars PROVE Promise!Next
    OBVIOUS
  <2>1. /\ outcome  = [j \in Jobs |-> Shown(status[j])]
        /\ outcome' = [j \in Jobs |-> Shown(status'[j])]
    BY DEF outcome, Shown
  <2>2. ASSUME NEW j \in Jobs
        PROVE  /\ outcome'[j] \in {"none"} \cup Promise!Pending \cup Promise!Ended
               /\ outcome'[j] # outcome[j] => <<outcome[j], outcome'[j]>> \in Promise!Moves
    <3>1. status[j] \in Statuses /\ status'[j] \in Statuses
      BY DEF QueueInv, TypeOK
    <3>2. Moved(status[j], status'[j])
      BY StatusStep DEF QueueInv
    <3>3. outcome[j] = Shown(status[j]) /\ outcome'[j] = Shown(status'[j])
      BY <2>1
    <3> QED
      BY <3>1, <3>2, <3>3, MovesAllowed
  <2> QED
    BY <2>1, <2>2 DEF Promise!Next
<1> QED
  BY <1>1, <1>2, QueueInvariant, PTL DEF Spec, ImplementsPromise, Promise!Spec

-----------------------------------------------------------------------------
(* The inputs                                                              *)

Gone     == {"none", "deleted"}
Pending  == Statuses \ (Terminal \cup Gone)
Settling == {"cancelled", "completed", "expired"}

(* A document has at most one job, and a job has its document's row.       *)
OneJobPerDocument ==
  /\ \A i, j \in Jobs :
       DocOf[i] = DocOf[j] /\ status[i] \notin Gone /\ status[j] \notin Gone => i = j
  /\ \A j \in Jobs : status[j] \notin Gone => document[DocOf[j]] = "stored"

(* An input whose removal has begun is used up: its retention is over or   *)
(* erased, and no job waits for it or left bodies behind that depend on it. *)
RemovalsAreFinal ==
  /\ \A d \in toRemove \cup toConfirm : document[d] \in {"stored", "gone"} /\ expiry[d] <= 0
  /\ \A j \in Jobs : DocOf[j] \in toRemove \cup toConfirm =>
       /\ status[j] \notin Pending
       /\ chunks[j] => status[j] = "cancelled" \/ j \in stale

(* The input of a job that cannot be tried again is due, so that it can be *)
(* removed again.                                                          *)
SettledInputDue == \A j \in Jobs : status[j] \in Settling => expiry[DocOf[j]] <= 0

(* An input that arrives, can be used or is in use is there.               *)
InputPresent ==
  /\ \A d \in Docs : document[d] = "uploading" => file[d]
  /\ \A d \in Docs : path[d] => document[d] = "stored" /\ expiry[d] # NoTime
  /\ \A d \in Docs : path[d] /\ expiry[d] > 0 => file[d] \/ d \in missing
  /\ \A j \in Jobs : status[j] \in Pending =>
       path[DocOf[j]] /\ (file[DocOf[j]] \/ DocOf[j] \in missing)

(* A report belongs to a completed job, and brings its source text.        *)
ReportsComplete ==
  \A j \in Jobs : /\ report[j] # NoTime => status[j] = "completed"
                  /\ report[j] > 0 => text[DocOf[j]]

(* Text has an event that erases it, and so have bodies, unless they were  *)
(* written too late; a published job has no others.                        *)
NothingLeft ==
  /\ \A d \in Docs : text[d] => expiry[d] # NoTime \/ \E j \in JobsOf(d) : report[j] # NoTime
  /\ \A j \in Jobs : chunks[j] =>
       /\ status[j] \notin Gone
       /\ \/ status[j] = "cancelled" \/ j \in stale
          \/ status[j] \notin {"completed", "expired"} /\ expiry[DocOf[j]] # NoTime

(* Only a running slot is beyond its first input step.                     *)
StepsOfRuns ==
  \A w \in Workers : /\ step[w] # "start" => phase[w] = "running"
                     /\ phase[w] # "idle" => status[task[w]] # "none"

(* A slot that saved the text and still holds its job finds the text.      *)
SavedTextStays ==
  \A w \in Workers : step[w] \in {"saved", "replacing", "chunked"} /\ HoldsRunning(w) =>
     text[Doc(w)]

DataInv ==
  /\ OneJobPerDocument /\ RemovalsAreFinal /\ SettledInputDue /\ InputPresent
  /\ ReportsComplete /\ NothingLeft

SlotInv == StepsOfRuns /\ SavedTextStays

LifecycleInv == LifecycleTypeOK /\ QueueInv /\ DataInv /\ SlotInv

-----------------------------------------------------------------------------
(* InputLifecycle implements JobQueue                                      *)

(* Each step of a slot, of a user, of recovery and of cleanup is a step of *)
(* the queue or leaves its rows and slots alone.                           *)
LEMMA StepIsQueueStep == [LifecycleNext]_allVars => [Next]_vars
<1> SUFFICES ASSUME [LifecycleNext]_allVars PROVE [Next]_vars
  OBVIOUS
<1>1. ASSUME NEW d \in Docs, UploadNext(d) \/ CleanDocument(d) \/ RemovalNext(d) \/ DeletionFails(d)
      PROVE  UNCHANGED vars
  BY <1>1 DEF UploadNext, WriteUpload, InsertDocument, RejectUpload, AbandonUpload, LoseUpload,
              CleanDocument, RemovalNext, RemoveFile, ConfirmRemoved, DropRemoval, DeletionFails
<1>2. ASSUME NEW d \in Docs, DeleteDocument(d) PROVE [Next]_vars
  <2>1. JobsOf(d) \in SUBSET Jobs
    BY DEF JobsOf
  <2> QED
    BY <1>2, <2>1 DEF DeleteDocument, Next
<1>3. ASSUME NEW j \in Jobs, AnalysisNext(j) \/ ExpireOldReport(j) PROVE [Next]_vars
  BY <1>3 DEF AnalysisNext, CreateAnalysis, RetryAnalysis, CancelQueuedAnalysis, CancelRunningAnalysis,
              CancelAgain, DeleteAnalysis, DeleteReport, ExpireOldReport, Next, ApiNext
<1>4. ASSUME NEW w \in Workers, SlotNext(w) PROVE [Next]_vars
  BY <1>4 DEF SlotNext, QueueStep, ExtractText, SaveExtracted, BeginReplaceChunks,
              CommitReplaceChunks, ReportProgress, PublishReport, FinalizeCancelledAnalysis,
              Next, WorkerNext
<1>5. CASE RecoverJobs \/ FinishCancelledJobs \/ PurgeCancelledChunks \/ LifecycleTick
  BY <1>5 DEF RecoverJobs, FinishCancelledJobs, PurgeCancelledChunks, LifecycleTick, Next, RecoveryNext
<1>6. CASE UNCHANGED allVars
  BY <1>6 DEF allVars
<1> QED
  BY <1>1, <1>2, <1>3, <1>4, <1>5, <1>6 DEF LifecycleNext

(* The composition with the uploaded text adds no behaviour to the queue,  *)
(* so every theorem about JobQueue holds of it.                            *)
THEOREM LifecycleImplementsQueue == LifecycleSpec => Spec
<1>1. LifecycleInit => Init
  BY DEF LifecycleInit
<1> QED
  BY <1>1, StepIsQueueStep, PTL DEF LifecycleSpec, Spec

(* In particular, what the API promises of a job's outcomes.               *)
THEOREM LifecycleKeepsPromise == LifecycleSpec => ImplementsPromise
  BY LifecycleImplementsQueue, QueueImplementsPromise, PTL

-----------------------------------------------------------------------------
(* Initially nothing is uploaded.                                          *)
LEMMA LifecycleInvInit == LifecycleInit => LifecycleInv
<1> SUFFICES ASSUME LifecycleInit PROVE LifecycleInv
  OBVIOUS
<1>1. QueueInv
  BY InitQueueInv DEF LifecycleInit
<1>2. \A j \in Jobs : status[j] = "none" /\ DocOf[j] \in Docs
  BY LifecycleAssumption DEF LifecycleInit, Init
<1>3. \A w \in Workers : phase[w] = "idle"
  BY DEF LifecycleInit, Init
<1>4. LifecycleTypeOK
  BY <1>1, LifecycleAssumption, JobQueueAssumption
  DEF LifecycleInit, LifecycleTypeOK, QueueInv, NoTime, Steps
<1>5. DataInv
  BY <1>2
  DEF LifecycleInit, DataInv, OneJobPerDocument, RemovalsAreFinal, SettledInputDue, InputPresent,
      ReportsComplete, NothingLeft, Pending, Gone, Terminal, NoTime
<1>6. SlotInv
  BY <1>3 DEF LifecycleInit, SlotInv, StepsOfRuns, SavedTextStays
<1> QED
  BY <1>1, <1>4, <1>5, <1>6 DEF LifecycleInv

-----------------------------------------------------------------------------
(* What the helpers of the transactions do, document by document           *)

LEMMA ClearChunksEffect ==
  ASSUME LifecycleTypeOK, NEW J, ClearChunks(J)
  PROVE  /\ chunks' \in [Jobs -> BOOLEAN]
         /\ \A j \in Jobs : chunks'[j] <=> chunks[j] /\ j \notin J
         /\ stale' = stale
  BY DEF LifecycleTypeOK, ClearChunks

LEMMA EraseTextEffect ==
  ASSUME LifecycleTypeOK, NEW D, EraseText(D)
  PROVE  /\ text' \in [Docs -> BOOLEAN]
         /\ \A d \in Docs : text'[d] <=> text[d] /\ d \notin D
         /\ expiry' \in [Docs -> NoTime .. InputTicks]
         /\ \A d \in Docs : IF d \in D THEN expiry'[d] = Due(d) ELSE expiry'[d] = expiry[d]
<1>1. InputTicks \in Nat /\ NoTime = -1
  BY LifecycleAssumption, JobQueueAssumption DEF NoTime
<1>2. \A d \in Docs : Due(d) \in NoTime .. InputTicks
  BY <1>1 DEF Due
<1>3. expiry' = [d \in Docs |-> IF d \in D THEN Due(d) ELSE expiry[d]]
  BY DEF EraseText, LifecycleTypeOK
<1>4. text' = [d \in Docs |-> text[d] /\ d \notin D]
  BY DEF EraseText
<1>5. text' \in [Docs -> BOOLEAN] /\ \A d \in Docs : text'[d] <=> text[d] /\ d \notin D
  BY <1>4 DEF LifecycleTypeOK
<1>6. expiry \in [Docs -> NoTime .. InputTicks]
  BY DEF LifecycleTypeOK
<1>7. expiry' \in [Docs -> NoTime .. InputTicks]
  BY <1>2, <1>3, <1>6
<1> QED
  BY <1>3, <1>5, <1>7

LEMMA InputAfterReportEffect ==
  ASSUME LifecycleTypeOK, NEW d \in Docs, InputAfterReport(d)
  PROVE  /\ expiry' \in [Docs -> NoTime .. InputTicks]
         /\ expiry'[d] = Due(d)
         /\ \A e \in Docs \ {d} : expiry'[e] = expiry[e]
<1>1. InputTicks \in Nat /\ NoTime = -1
  BY LifecycleAssumption DEF NoTime
<1>2. Due(d) \in {0, NoTime}
  BY DEF Due
<1> QED
  BY <1>1, <1>2 DEF InputAfterReport, LifecycleTypeOK

LEMMA KeepTextEffect ==
  ASSUME LifecycleTypeOK, NEW d \in Docs, KeepTextOfReports(d)
  PROVE  /\ text' \in [Docs -> BOOLEAN]
         /\ text'[d] <=> text[d] /\ LiveReport(d)
         /\ \A e \in Docs \ {d} : text'[e] = text[e]
<1> DEFINE kept == text[d] /\ LiveReport(d)
<1>1. kept \in BOOLEAN
  OBVIOUS
<1>2. text' = [text EXCEPT ![d] = kept]
  BY DEF KeepTextOfReports
<1> HIDE DEF kept
<1>3. /\ text' \in [Docs -> BOOLEAN]
      /\ text'[d] = kept
      /\ \A e \in Docs \ {d} : text'[e] = text[e]
  BY <1>1, <1>2 DEF LifecycleTypeOK
<1> QED
  BY <1>3 DEF kept

LEMMA DropSourceEffect ==
  ASSUME LifecycleTypeOK, NEW d \in Docs, NEW s \in {"stored", "gone"}, DropSource(d, s)
  PROVE  /\ document' \in [Docs -> {"none", "uploading", "stored", "gone"}]
         /\ document'[d] = s
         /\ file' \in [Docs -> BOOLEAN]
         /\ path' \in [Docs -> BOOLEAN] /\ ~path'[d]
         /\ text' \in [Docs -> BOOLEAN] /\ ~text'[d]
         /\ expiry' \in [Docs -> NoTime .. InputTicks] /\ expiry'[d] = NoTime
         /\ missing' = missing
         /\ \A e \in Docs \ {d} :
              /\ document'[e] = document[e] /\ file'[e] = file[e] /\ path'[e] = path[e]
              /\ text'[e] = text[e] /\ expiry'[e] = expiry[e]
<1> DEFINE left == file[d] /\ ~path[d]
<1>1. left \in BOOLEAN
  BY DEF LifecycleTypeOK
<1>2. /\ document' = [document EXCEPT ![d] = s]
      /\ file' = [file EXCEPT ![d] = left]
      /\ path' = [path EXCEPT ![d] = FALSE]
      /\ text' = [text EXCEPT ![d] = FALSE]
      /\ expiry' = [expiry EXCEPT ![d] = NoTime]
      /\ missing' = missing
  BY DEF DropSource
<1> HIDE DEF left
<1>3. InputTicks \in Nat /\ NoTime = -1
  BY LifecycleAssumption DEF NoTime
<1> QED
  BY <1>1, <1>2, <1>3 DEF LifecycleTypeOK

LEMMA DropBodiesEffect ==
  ASSUME LifecycleTypeOK, NEW J, DropBodies(J)
  PROVE  /\ chunks' \in [Jobs -> BOOLEAN]
         /\ \A j \in Jobs : chunks'[j] <=> chunks[j] /\ j \notin J
         /\ report' \in [Jobs -> NoTime .. ReportTicks]
         /\ \A j \in Jobs : report'[j] = IF j \in J THEN NoTime ELSE report[j]
         /\ stale' = stale
<1>1. ReportTicks \in Nat /\ NoTime = -1
  BY LifecycleAssumption DEF NoTime
<1> QED
  BY <1>1, ClearChunksEffect DEF LifecycleTypeOK, DropBodies

-----------------------------------------------------------------------------
(* Types                                                                   *)

LEMMA LifecycleTypesStep ==
  LifecycleTypeOK /\ TypeOK' /\ [LifecycleNext]_allVars => LifecycleTypeOK'
<1> SUFFICES ASSUME LifecycleTypeOK, TypeOK', [LifecycleNext]_allVars PROVE LifecycleTypeOK'
  OBVIOUS
<1> USE LifecycleAssumption, JobQueueAssumption
    DEF LifecycleTypeOK, NoTime, Steps, inputVars, bodyVars, removals
<1>1. ASSUME NEW d \in Docs, UploadNext(d) PROVE LifecycleTypeOK'
  <2>1. CASE WriteUpload(d) \/ RejectUpload(d) \/ AbandonUpload(d)
    BY <2>1 DEF WriteUpload, RejectUpload, AbandonUpload
  <2>2. CASE InsertDocument(d) \/ LoseUpload(d)
    <3>1. InputTicks \in NoTime .. InputTicks
      OBVIOUS
    <3>2. expiry' \in [Docs -> NoTime .. InputTicks]
      BY <2>2, <3>1 DEF InsertDocument, LoseUpload
    <3> QED
      BY <2>2, <3>2 DEF InsertDocument, LoseUpload
  <2> QED
    BY <1>1, <2>1, <2>2 DEF UploadNext
<1>2. ASSUME NEW d \in Docs, RemovalNext(d) \/ DeletionFails(d) PROVE LifecycleTypeOK'
  <2>1. CASE RemoveFile(d) \/ DropRemoval(d) \/ DeletionFails(d)
    BY <2>1 DEF RemoveFile, DropRemoval, DeletionFails
  <2>2. CASE ConfirmRemoved(d)
    <3>1. text' \in [Docs -> BOOLEAN]
      BY <2>2, KeepTextEffect DEF ConfirmRemoved
    <3>2. expiry' \in [Docs -> NoTime .. InputTicks]
      BY <2>2 DEF ConfirmRemoved
    <3> QED
      BY <2>2, <3>1, <3>2 DEF ConfirmRemoved
  <2> QED
    BY <1>2, <2>1, <2>2 DEF RemovalNext
<1>3. ASSUME NEW d \in Docs, CleanDocument(d) PROVE LifecycleTypeOK'
  BY <1>3, ClearChunksEffect, KeepTextEffect DEF CleanDocument, Due, ThenRemove
<1>4. ASSUME NEW d \in Docs, DeleteDocument(d) PROVE LifecycleTypeOK'
  BY <1>4, DropSourceEffect, DropBodiesEffect DEF DeleteDocument
<1>5. ASSUME NEW j \in Jobs, AnalysisNext(j) PROVE LifecycleTypeOK'
  <2>1. DocOf[j] \in Docs
    OBVIOUS
  <2>2. CASE CreateAnalysis(j) \/ RetryAnalysis(j) \/ CancelRunningAnalysis(j)
    BY <2>2 DEF CreateAnalysis, RetryAnalysis, CancelRunningAnalysis
  <2>3. CASE CancelQueuedAnalysis(j)
    <3>1. chunks' \in [Jobs -> BOOLEAN] /\ stale' = stale
      BY <2>3, ClearChunksEffect DEF CancelQueuedAnalysis
    <3>2. text' \in [Docs -> BOOLEAN] /\ expiry' \in [Docs -> NoTime .. InputTicks]
      BY <2>3, EraseTextEffect DEF CancelQueuedAnalysis
    <3> QED
      BY <2>1, <2>3, <3>1, <3>2 DEF CancelQueuedAnalysis, EraseText, ThenRemove
  <2>4. CASE CancelAgain(j)
    BY <2>1, <2>4 DEF CancelAgain, ThenRemove
  <2>5. CASE DeleteAnalysis(j)
    BY <2>1, <2>5, DropBodiesEffect, DropSourceEffect DEF DeleteAnalysis
  <2>6. CASE DeleteReport(j)
    BY <2>1, <2>6, DropSourceEffect DEF DeleteReport
  <2> QED
    BY <1>5, <2>2, <2>3, <2>4, <2>5, <2>6 DEF AnalysisNext
<1>6. ASSUME NEW j \in Jobs, ExpireOldReport(j) PROVE LifecycleTypeOK'
  <2> DEFINE kept == text[DocOf[j]] /\ \E i \in JobsOf(DocOf[j]) \ {j} : NeedsText(i)
  <2>1. kept \in BOOLEAN /\ DocOf[j] \in Docs
    OBVIOUS
  <2>2. text' = [text EXCEPT ![DocOf[j]] = kept]
    BY <1>6 DEF ExpireOldReport
  <2> HIDE DEF kept
  <2>3. text' \in [Docs -> BOOLEAN]
    BY <2>1, <2>2
  <2> QED
    BY <1>6, <2>3, ClearChunksEffect DEF ExpireOldReport
<1>7. ASSUME NEW w \in Workers, SlotNext(w) PROVE LifecycleTypeOK'
  <2>0. phase[w] = "idle" \/ (task[w] \in Jobs /\ Doc(w) \in Docs)
    BY DEF TypeOK, Doc
  <2>1. CASE QueueStep(w)
    BY <2>1 DEF QueueStep, KeepStep
  <2>2. CASE ExtractText(w) \/ BeginReplaceChunks(w) \/ ReportProgress(w)
    BY <2>2 DEF ExtractText, BeginReplaceChunks, ReportProgress, AtStep
  <2>3. CASE SaveExtracted(w)
    BY <2>0, <2>3 DEF SaveExtracted, AtStep
  <2>4. CASE CommitReplaceChunks(w)
    BY <2>0, <2>4 DEF CommitReplaceChunks, AtStep
  <2>5. CASE PublishReport(w)
    <3>1. chunks' \in [Jobs -> BOOLEAN] /\ stale' = stale
      BY <2>5, ClearChunksEffect DEF PublishReport
    <3>2. Doc(w) \in Docs /\ task[w] \in Jobs
      BY <2>0, <2>5 DEF PublishReport, SaveReport
    <3>3. expiry' \in [Docs -> NoTime .. InputTicks]
      BY <2>5, <3>2, InputAfterReportEffect DEF PublishReport
    <3>4. report' \in [Jobs -> NoTime .. ReportTicks]
      BY <2>5, <3>2 DEF PublishReport
    <3> QED
      BY <2>5, <3>1, <3>2, <3>3, <3>4 DEF PublishReport, KeepStep, InputAfterReport, ThenRemove
  <2>6. CASE FinalizeCancelledAnalysis(w)
    <3>1. chunks' \in [Jobs -> BOOLEAN] /\ stale' = stale
      BY <2>6, ClearChunksEffect DEF FinalizeCancelledAnalysis
    <3>2. Doc(w) \in Docs
      BY <2>0, <2>6 DEF FinalizeCancelledAnalysis, FinalizeCancelled
    <3>3. text' \in [Docs -> BOOLEAN] /\ expiry' \in [Docs -> NoTime .. InputTicks]
      BY <2>6, EraseTextEffect DEF FinalizeCancelledAnalysis
    <3> QED
      BY <2>6, <3>1, <3>2, <3>3 DEF FinalizeCancelledAnalysis, KeepStep, EraseText, ThenRemove
  <2> QED
    BY <1>7, <2>1, <2>2, <2>3, <2>4, <2>5, <2>6 DEF SlotNext
<1>8. CASE RecoverJobs \/ FinishCancelledJobs \/ PurgeCancelledChunks
  <2>1. CASE RecoverJobs
    BY <2>1 DEF RecoverJobs
  <2>2. CASE FinishCancelledJobs
    <3>1. text' \in [Docs -> BOOLEAN] /\ expiry' \in [Docs -> NoTime .. InputTicks]
      BY <2>2, EraseTextEffect DEF FinishCancelledJobs
    <3> QED
      BY <2>2, <3>1 DEF FinishCancelledJobs, EraseText
  <2>3. CASE PurgeCancelledChunks
    <3>1. chunks' \in [Jobs -> BOOLEAN] /\ stale' = stale
      BY <2>3, ClearChunksEffect DEF PurgeCancelledChunks
    <3> QED
      BY <2>3, <3>1 DEF PurgeCancelledChunks
  <2> QED
    BY <1>8, <2>1, <2>2, <2>3
<1>9. CASE LifecycleTick
  BY <1>9 DEF LifecycleTick, Down
<1>10. CASE UNCHANGED allVars
  BY <1>10 DEF allVars
<1> QED
  BY <1>1, <1>2, <1>3, <1>4, <1>5, <1>6, <1>7, <1>8, <1>9, <1>10 DEF LifecycleNext

-----------------------------------------------------------------------------
(* Steps that touch the rows of jobs alone                                 *)

(* A pending job stays pending or fails; every other job stays as it is.   *)
Quiet ==
  \A j \in Jobs : \/ status'[j] = status[j]
                  \/ status[j] \in Pending /\ status'[j] \in Pending \cup {"failed"}

LEMMA QuietRows ==
  ASSUME QueueInv,
         \/ \E w \in Workers : QueueStep(w) \/ ReportProgress(w)
         \/ \E j \in Jobs : CancelRunningAnalysis(j)
         \/ RecoverJobs
  PROVE  Quiet
<1> USE JobQueueAssumption DEF QueueInv, TypeOK, Pending, Gone, Terminal, Running, Statuses
<1>1. ASSUME NEW w \in Workers, QueueStep(w) PROVE Quiet
  <2>1. CASE ClaimJob(w) \/ ExpireQueued(w)
    BY <2>1 DEF ClaimJob, ExpireQueued, Overdue, Claimable, Quiet
  <2>2. CASE MarkVerifying(w)
    BY <2>2 DEF MarkVerifying, Quiet
  <2>3. CASE MarkFailed(w)
    <3>1. owner[task[w]] = w /\ status' = [status EXCEPT ![task[w]] = "failed"]
      BY <2>3 DEF MarkFailed, MayMarkFailed, EndJob
    <3>2. task[w] \in Jobs => status[task[w]] \in Pending \cup {"failed"}
      BY <2>3, <3>1 DEF MarkFailed, MayMarkFailed, UnclaimedRows
    <3> QED
      BY <3>1, <3>2 DEF Quiet
  <2>4. CASE UNCHANGED status
    BY <2>4 DEF Quiet
  <2>5. RefreshLease(w) \/ Start(w) \/ Fail(w) \/ Timeout(w) \/ SeeCancellation(w)
        \/ CheckCancelled(w) \/ LoseLease(w) \/ Return(w) \/ GiveUp(w) \/ Crash(w)
        => UNCHANGED status
    BY DEF RefreshLease, Start, Fail, Timeout, SeeCancellation, CheckCancelled, LoseLease,
           Return, GiveUp, Crash, rowVars
  <2> QED
    BY <1>1, <2>1, <2>2, <2>3, <2>4, <2>5 DEF QueueStep
<1>2. ASSUME NEW w \in Workers, ReportProgress(w) PROVE Quiet
  <2>1. status[task[w]] \in Running
    BY <1>2 DEF ReportProgress, Heartbeat, HoldsRunning
  <2>2. PICK s \in Running : status' = [status EXCEPT ![task[w]] = s]
    BY <1>2, <2>1, NextStageRuns DEF ReportProgress, Heartbeat
  <2> QED
    BY <2>1, <2>2 DEF Quiet
<1>3. ASSUME NEW j \in Jobs, CancelRunningAnalysis(j) PROVE Quiet
  BY <1>3 DEF CancelRunningAnalysis, RequestCancellation, Quiet
<1>4. CASE RecoverJobs
  BY <1>4 DEF RecoverJobs, RequeueLapsed, FailTimedOut, LapsedJobs, TimedOutJobs, Quiet
<1> QED
  BY <1>1, <1>2, <1>3, <1>4

LEMMA QuietKeepsData ==
  ASSUME LifecycleTypeOK, DataInv, Quiet, UNCHANGED <<inputVars, bodyVars, removals>>
  PROVE  DataInv'
<1> USE LifecycleAssumption
<1>1. /\ document' = document /\ file' = file /\ path' = path /\ text' = text /\ expiry' = expiry
      /\ missing' = missing /\ chunks' = chunks /\ stale' = stale /\ report' = report
      /\ toRemove' = toRemove /\ toConfirm' = toConfirm
  BY DEF inputVars, bodyVars, removals
<1>2. \A j \in Jobs : /\ status'[j] \in Gone <=> status[j] \in Gone
                      /\ status'[j] \in Pending => status[j] \in Pending
                      /\ status[j] \in Settling => status'[j] = status[j]
                      /\ status'[j] \in Settling => status'[j] = status[j]
  BY DEF Quiet, Gone, Pending, Settling, Statuses, Terminal, Running
<1>3. OneJobPerDocument' /\ SettledInputDue'
  BY <1>1, <1>2 DEF DataInv, OneJobPerDocument, SettledInputDue, Settling
<1>4. RemovalsAreFinal'
  BY <1>1, <1>2 DEF DataInv, RemovalsAreFinal, Settling
<1>5. InputPresent'
  BY <1>1, <1>2 DEF DataInv, InputPresent
<1>6. ReportsComplete'
  BY <1>1, <1>2 DEF DataInv, ReportsComplete, Settling
<1>7. NothingLeft'
  <2>1. \A d \in Docs : JobsOf(d)' = JobsOf(d)
    BY <1>2 DEF JobsOf, Gone
  <2> QED
    BY <1>1, <1>2, <2>1 DEF DataInv, NothingLeft, Settling
<1> QED
  BY <1>3, <1>4, <1>5, <1>6, <1>7 DEF DataInv

-----------------------------------------------------------------------------
(* Uploads                                                                 *)

(* A document that is being uploaded has no job, no text and no removal.   *)
LEMMA UploadKeepsData ==
  ASSUME LifecycleTypeOK, DataInv, NEW d \in Docs, UploadNext(d)
  PROVE  DataInv'
<1> USE LifecycleAssumption, JobQueueAssumption
<1>1. /\ status' = status /\ text' = text /\ chunks' = chunks /\ stale' = stale /\ report' = report
      /\ toRemove' = toRemove /\ toConfirm' = toConfirm
      /\ document[d] \in {"none", "uploading"}
      /\ document'[d] \in {"uploading", "stored", "gone"}
      /\ path'[d] => document'[d] = "stored" /\ expiry'[d] = InputTicks
      /\ path'[d] => file'[d] \/ d \in missing'
      /\ document'[d] = "uploading" => file'[d]
      /\ expiry'[d] = expiry[d] \/ expiry'[d] = InputTicks
      /\ missing \subseteq missing'
      /\ \A e \in Docs \ {d} : /\ document'[e] = document[e] /\ file'[e] = file[e]
                               /\ path'[e] = path[e] /\ expiry'[e] = expiry[e]
  <2>1. ~path[d] /\ (document[d] = "uploading" => file[d])
    BY DEF UploadNext, WriteUpload, InsertDocument, RejectUpload, AbandonUpload, LoseUpload,
           DataInv, InputPresent
  <2>2. CASE WriteUpload(d) \/ RejectUpload(d) \/ AbandonUpload(d)
    BY <2>1, <2>2 DEF WriteUpload, RejectUpload, AbandonUpload, LifecycleTypeOK, vars, rowVars,
                      bodyVars, removals
  <2>3. CASE InsertDocument(d) \/ LoseUpload(d)
    BY <2>1, <2>3 DEF InsertDocument, LoseUpload, LifecycleTypeOK, vars, rowVars, bodyVars, removals
  <2> QED
    BY <2>2, <2>3 DEF UploadNext
<1>2. /\ d \notin toRemove \cup toConfirm
      /\ \A j \in Jobs : DocOf[j] = d => status[j] \in Gone
  BY <1>1 DEF DataInv, RemovalsAreFinal, OneJobPerDocument
<1>3. \A j \in Jobs : status[j] \in Pending \cup Settling => DocOf[j] \in Docs \ {d}
  BY <1>2 DEF Pending, Settling, Gone
<1>4. OneJobPerDocument' /\ SettledInputDue'
  BY <1>1, <1>2, <1>3 DEF DataInv, OneJobPerDocument, SettledInputDue, Settling
<1>5. RemovalsAreFinal'
  BY <1>1, <1>2 DEF DataInv, RemovalsAreFinal, LifecycleTypeOK
<1>6. InputPresent'
  BY <1>1, <1>3 DEF DataInv, InputPresent, NoTime
<1>7. ReportsComplete'
  BY <1>1 DEF DataInv, ReportsComplete
<1>8. NothingLeft'
  <2>1. \A e \in Docs : JobsOf(e)' = JobsOf(e)
    BY <1>1 DEF JobsOf
  <2>2. \A e \in Docs : expiry[e] # NoTime => expiry'[e] # NoTime
    BY <1>1 DEF NoTime
  <2> QED
    BY <1>1, <2>1, <2>2 DEF DataInv, NothingLeft
<1> QED
  BY <1>4, <1>5, <1>6, <1>7, <1>8 DEF DataInv

-----------------------------------------------------------------------------
(* Jobs that begin                                                         *)

(* A new job, or a failed one that is tried again, finds a usable input:   *)
(* nobody is removing it, and no other job of the document exists.         *)
LEMMA BegunKeepsData ==
  ASSUME LifecycleTypeOK, DataInv, NEW j \in Jobs, CreateAnalysis(j) \/ RetryAnalysis(j)
  PROVE  DataInv'
<1> USE LifecycleAssumption
<1> DEFINE d == DocOf[j]
<1>1. /\ d \in Docs /\ document[d] = "stored" /\ path[d] /\ expiry[d] > 0
      /\ status[j] \in {"none", "failed"}
      /\ \A i \in Jobs \ {j} : DocOf[i] = d => status[i] \in Gone
  <2>1. CASE CreateAnalysis(j)
    BY <2>1 DEF CreateAnalysis, Create, InputUsable, JobsOf, Gone
  <2>2. CASE RetryAnalysis(j)
    BY <2>2 DEF RetryAnalysis, MayRetry, Retry, InputUsable, DataInv, OneJobPerDocument, Gone
  <2> QED
    BY <2>1, <2>2
<1>2. /\ status' = [status EXCEPT ![j] = "queued"]
      /\ document' = document /\ file' = file /\ path' = path /\ text' = text /\ expiry' = expiry
      /\ missing' = missing /\ chunks' = chunks /\ stale' = stale /\ report' = report
      /\ toRemove' = toRemove /\ toConfirm' = toConfirm
  BY DEF CreateAnalysis, RetryAnalysis, Create, Retry, inputVars, bodyVars, removals
<1>3. /\ status'[j] = "queued"
      /\ \A i \in Jobs \ {j} : status'[i] = status[i]
  BY <1>2 DEF LifecycleTypeOK, TypeOK
<1> HIDE DEF d
<1>4. OneJobPerDocument'
  BY <1>1, <1>2, <1>3 DEF DataInv, OneJobPerDocument, Gone, d
<1>5. d \notin toRemove \cup toConfirm
  BY <1>1 DEF DataInv, RemovalsAreFinal, LifecycleTypeOK
<1>6. RemovalsAreFinal'
  BY <1>2, <1>3, <1>5 DEF DataInv, RemovalsAreFinal, d
<1>7. SettledInputDue'
  BY <1>2, <1>3 DEF DataInv, SettledInputDue, Settling
<1>8. InputPresent'
  BY <1>1, <1>2, <1>3 DEF DataInv, InputPresent, d
<1>9. report[j] = NoTime
  BY <1>1 DEF DataInv, ReportsComplete
<1>10. ReportsComplete'
  BY <1>2, <1>3, <1>9 DEF DataInv, ReportsComplete, NoTime
<1>11. NothingLeft'
  <2>1. \A e \in Docs : JobsOf(e) \subseteq JobsOf(e)'
    BY <1>3 DEF JobsOf
  <2>2. \A i \in Jobs : chunks[i] => i # j \/ expiry[d] # NoTime
    BY <1>1 DEF NoTime
  <2> QED
    BY <1>2, <1>3, <2>1, <2>2 DEF DataInv, NothingLeft, Gone, d
<1> QED
  BY <1>4, <1>6, <1>7, <1>8, <1>10, <1>11 DEF DataInv

-----------------------------------------------------------------------------
(* Jobs that end                                                           *)

(* Cancelled jobs J lose their text, and their inputs may be removed.      *)
LEMMA CancelledKeepsData ==
  ASSUME LifecycleTypeOK, DataInv, NEW J \in SUBSET Jobs, NEW D,
         D = {DocOf[j] : j \in J},
         \A j \in J : status[j] \in Pending \cup {"cancelled"},
         \A j \in Jobs : status'[j] = IF j \in J THEN "cancelled" ELSE status[j],
         EraseText(D), report' = report, stale' = stale,
         \A j \in Jobs : chunks'[j] => chunks[j],
         toRemove \subseteq toRemove', toRemove' \subseteq toRemove \cup D, toConfirm' = toConfirm
  PROVE  DataInv'
<1> USE LifecycleAssumption
<1>1. /\ document' = document /\ file' = file /\ path' = path /\ missing' = missing
      /\ \A e \in Docs : text'[e] <=> text[e] /\ e \notin D
      /\ \A e \in Docs : IF e \in D THEN expiry'[e] = Due(e) ELSE expiry'[e] = expiry[e]
  BY EraseTextEffect DEF EraseText
<1>2. \A e \in D : Due(e) <= 0 /\ (path[e] => Due(e) # NoTime)
  BY DEF Due, NoTime
<1>3. \A j \in J : status[j] \notin Gone /\ status'[j] \notin Gone
  BY DEF Pending, Gone
<1>4. \A i \in Jobs : DocOf[i] \in D => i \in J \/ status[i] \in Gone
  BY <1>3 DEF DataInv, OneJobPerDocument
<1>5. \A e \in D : e \in Docs /\ document[e] = "stored"
  BY <1>3 DEF DataInv, OneJobPerDocument
<1>6. \A j \in Jobs : /\ status'[j] \in Gone <=> status[j] \in Gone
                      /\ status'[j] \in Pending => j \notin J /\ status[j] \in Pending
                      /\ status[j] \in Gone \cup Pending => DocOf[j] \notin D \/ j \in J \/ status[j] \in Gone
  BY <1>3, <1>4 DEF Pending, Gone, Terminal
<1>7. OneJobPerDocument'
  BY <1>1, <1>6 DEF DataInv, OneJobPerDocument
<1>8. RemovalsAreFinal'
  <2>1. \A e \in (toRemove \cup toConfirm)' : document'[e] \in {"stored", "gone"} /\ expiry'[e] <= 0
    BY <1>1, <1>2, <1>5 DEF DataInv, RemovalsAreFinal, LifecycleTypeOK
  <2>2. ASSUME NEW j \in Jobs, DocOf[j] \in (toRemove \cup toConfirm)'
        PROVE  status'[j] \notin Pending /\ (chunks'[j] => status'[j] = "cancelled" \/ j \in stale')
    <3>1. CASE j \in J
      BY <3>1 DEF Pending, Terminal, Settling
    <3>2. CASE j \notin J /\ DocOf[j] \in D
      BY <3>2, <1>4 DEF Pending, Gone, DataInv, NothingLeft
    <3>3. CASE j \notin J /\ DocOf[j] \notin D
      BY <2>2, <3>3 DEF DataInv, RemovalsAreFinal
    <3> QED
      BY <3>1, <3>2, <3>3
  <2> QED
    BY <2>1, <2>2 DEF RemovalsAreFinal
<1>9. SettledInputDue'
  BY <1>1, <1>2 DEF DataInv, SettledInputDue
<1>10. InputPresent'
  <2>1. \A e \in Docs : expiry'[e] > 0 => expiry[e] > 0
    BY <1>1, <1>2 DEF Due, NoTime
  <2>2. \A e \in Docs : path[e] => expiry'[e] # NoTime
    BY <1>1, <1>2 DEF DataInv, InputPresent
  <2> QED
    BY <1>1, <1>6, <2>1, <2>2 DEF DataInv, InputPresent
<1>11. ReportsComplete'
  <2>1. \A j \in Jobs : report[j] # NoTime => j \notin J /\ DocOf[j] \notin D
    <3>1. \A j \in Jobs : report[j] # NoTime => j \notin J /\ status[j] \notin Gone
      BY DEF DataInv, ReportsComplete, Pending, Terminal, Gone
    <3> QED
      BY <1>4, <3>1
  <2> QED
    BY <1>1, <2>1 DEF DataInv, ReportsComplete, NoTime
<1>12. NothingLeft'
  <2>1. \A e \in Docs : JobsOf(e)' = JobsOf(e)
    BY <1>6 DEF JobsOf, Gone
  <2>2. \A j \in Jobs : DocOf[j] \in D => j \in J \/ ~chunks[j]
    BY <1>4 DEF DataInv, NothingLeft
  <2> QED
    BY <1>1, <1>6, <2>1, <2>2 DEF DataInv, NothingLeft, Settling
<1> QED
  BY <1>7, <1>8, <1>9, <1>10, <1>11, <1>12 DEF DataInv

(* A published report brings its text: only a slot that still holds the    *)
(* job publishes, and its text was not taken meanwhile.                    *)
LEMMA PublishedKeepsData ==
  ASSUME LifecycleInv, NEW w \in Workers, PublishReport(w)
  PROVE  DataInv'
<1> USE LifecycleAssumption, JobQueueAssumption
<1> DEFINE j == task[w]
           d == DocOf[task[w]]
<1>0. LifecycleTypeOK /\ DataInv /\ phase[w] = "running" /\ j \in Jobs /\ d \in Docs
  BY DEF PublishReport, SaveReport, LifecycleInv, LifecycleTypeOK, TypeOK
<1>1. status[j] = "rendering" /\ text[d]
  BY <1>0 DEF PublishReport, SaveReport, LifecycleInv, SlotInv, SavedTextStays, HoldsRunning, Running, Doc
<1>2. /\ status' = [status EXCEPT ![j] = "completed"]
      /\ report' = [report EXCEPT ![j] = ReportTicks]
      /\ document' = document /\ file' = file /\ path' = path /\ text' = text /\ missing' = missing
      /\ toConfirm' = toConfirm /\ toRemove' = toRemove \cup {e \in {d} : path[e]}
  BY DEF PublishReport, SaveReport, EndJob, InputAfterReport, ThenRemove, Doc
<1>3. /\ status'[j] = "completed" /\ report'[j] = ReportTicks
      /\ \A i \in Jobs \ {j} : status'[i] = status[i] /\ report'[i] = report[i]
  BY <1>0, <1>2 DEF LifecycleTypeOK, TypeOK
<1>4. /\ expiry'[d] = Due(d)
      /\ \A e \in Docs \ {d} : expiry'[e] = expiry[e]
  BY <1>0, InputAfterReportEffect DEF PublishReport, Doc
<1>5. Due(d) <= 0 /\ (path[d] => Due(d) # NoTime)
  BY DEF Due, NoTime
<1>6. stale' = stale /\ \A i \in Jobs : chunks'[i] => chunks[i] /\ i # j
  BY <1>0, ClearChunksEffect DEF PublishReport
<1> HIDE DEF j, d
<1>7. /\ document[d] = "stored"
      /\ \A i \in Jobs \ {j} : DocOf[i] = d => status[i] \in Gone
  BY <1>0, <1>1 DEF DataInv, OneJobPerDocument, Gone, d, j
<1>8. \A i \in Jobs : /\ status'[i] \in Gone <=> status[i] \in Gone
                      /\ status'[i] \in Pending => i # j /\ DocOf[i] # d /\ status[i] \in Pending
                      /\ status'[i] \in Settling =>
                           i = j \/ (DocOf[i] # d /\ status'[i] = status[i])
  BY <1>1, <1>3, <1>7 DEF Pending, Gone, Terminal, Settling
<1>9. OneJobPerDocument' /\ SettledInputDue'
  BY <1>0, <1>2, <1>4, <1>5, <1>8 DEF DataInv, OneJobPerDocument, SettledInputDue, d, j
<1>10. RemovalsAreFinal'
  <2>1. \A e \in (toRemove \cup toConfirm)' : document'[e] \in {"stored", "gone"} /\ expiry'[e] <= 0
    BY <1>0, <1>2, <1>4, <1>5, <1>7 DEF DataInv, RemovalsAreFinal, LifecycleTypeOK
  <2>2. ASSUME NEW i \in Jobs, DocOf[i] \in (toRemove \cup toConfirm)'
        PROVE  status'[i] \notin Pending /\ (chunks'[i] => status'[i] = "cancelled" \/ i \in stale')
    <3>1. CASE DocOf[i] = d
      BY <1>0, <1>6, <1>7, <1>8, <3>1 DEF DataInv, NothingLeft
    <3>2. CASE DocOf[i] # d
      BY <1>0, <1>2, <1>3, <1>6, <2>2, <3>2 DEF DataInv, RemovalsAreFinal, d, j
    <3> QED
      BY <3>1, <3>2
  <2> QED
    BY <2>1, <2>2 DEF RemovalsAreFinal
<1>11. InputPresent'
  <2>1. expiry'[d] \in {0, NoTime} /\ (path[d] => expiry'[d] # NoTime)
    BY <1>4, <1>5 DEF Due
  <2> QED
    BY <1>0, <1>2, <1>4, <1>8, <2>1 DEF DataInv, InputPresent, NoTime
<1>12. ReportsComplete'
  BY <1>0, <1>1, <1>2, <1>3 DEF DataInv, ReportsComplete, d, j
<1>13. NothingLeft'
  <2>1. \A e \in Docs : JobsOf(e)' = JobsOf(e)
    BY <1>8 DEF JobsOf, Gone
  <2>2. j \in JobsOf(d) /\ report'[j] # NoTime
    BY <1>0, <1>1, <1>3 DEF JobsOf, NoTime, d, j
  <2>3. \A e \in Docs : text'[e] => expiry'[e] # NoTime \/ \E i \in JobsOf(e)' : report'[i] # NoTime
    <3>1. \A e \in Docs \ {d} : j \notin JobsOf(e)
      BY DEF JobsOf, d, j
    <3>2. \A e \in Docs : JobsOf(e) \subseteq Jobs
      BY DEF JobsOf
    <3> QED
      BY <1>0, <1>2, <1>3, <1>4, <2>1, <2>2, <3>1, <3>2 DEF DataInv, NothingLeft
  <2>4. \A i \in Jobs \ {j} : DocOf[i] = d => ~chunks[i]
    BY <1>0, <1>7 DEF DataInv, NothingLeft
  <2> QED
    BY <1>0, <1>3, <1>4, <1>6, <1>8, <2>3, <2>4 DEF DataInv, NothingLeft, d
<1> QED
  BY <1>9, <1>10, <1>11, <1>12, <1>13 DEF DataInv

-----------------------------------------------------------------------------
(* What users delete                                                       *)

(* A document goes with all its jobs, none of which is pending.            *)
LEMMA DeletedKeepsData ==
  ASSUME LifecycleTypeOK, DataInv, NEW d \in Docs, document[d] = "stored",
         DropSource(d, "gone"), DropBodies(JobsOf(d)),
         \A j \in Jobs : status'[j] = IF j \in JobsOf(d) THEN "deleted" ELSE status[j],
         UNCHANGED removals
  PROVE  DataInv'
<1> USE LifecycleAssumption
<1>1. /\ document'[d] = "gone" /\ ~path'[d] /\ ~text'[d] /\ expiry'[d] = NoTime /\ missing' = missing
      /\ \A e \in Docs \ {d} :
           /\ document'[e] = document[e] /\ file'[e] = file[e] /\ path'[e] = path[e]
           /\ text'[e] = text[e] /\ expiry'[e] = expiry[e]
  BY DropSourceEffect
<1>2. \A j \in Jobs : /\ chunks'[j] <=> chunks[j] /\ j \notin JobsOf(d)
                      /\ report'[j] = IF j \in JobsOf(d) THEN NoTime ELSE report[j]
  BY DropBodiesEffect
<1>3. toRemove' = toRemove /\ toConfirm' = toConfirm /\ stale' = stale
  BY DropBodiesEffect DEF removals
<1>4. \A j \in Jobs : IF DocOf[j] = d THEN status'[j] \in Gone /\ (status[j] \in Gone => j \notin JobsOf(d))
                      ELSE status'[j] = status[j] /\ j \notin JobsOf(d)
  BY DEF JobsOf, Gone
<1>5. \A j \in Jobs : DocOf[j] = d => ~chunks'[j] /\ report'[j] = NoTime
  BY <1>2, <1>4 DEF DataInv, NothingLeft, ReportsComplete, JobsOf, Gone
<1>6. \A j \in Jobs : status'[j] \in Pending \cup Settling => DocOf[j] # d /\ status'[j] = status[j]
  BY <1>4 DEF Pending, Settling, Gone
<1>7. OneJobPerDocument' /\ SettledInputDue'
  BY <1>1, <1>4, <1>6 DEF DataInv, OneJobPerDocument, SettledInputDue, Settling
<1>8. RemovalsAreFinal'
  <2>1. \A e \in toRemove \cup toConfirm : document'[e] \in {"stored", "gone"} /\ expiry'[e] <= 0
    BY <1>1 DEF DataInv, RemovalsAreFinal, LifecycleTypeOK, NoTime
  <2> QED
    BY <1>2, <1>3, <1>4, <1>5, <1>6, <2>1 DEF DataInv, RemovalsAreFinal
<1>9. InputPresent'
  BY <1>1, <1>6 DEF DataInv, InputPresent
<1>10. ReportsComplete'
  BY <1>1, <1>2, <1>4, <1>5 DEF DataInv, ReportsComplete, NoTime
<1>11. NothingLeft'
  <2>1. \A e \in Docs \ {d} : JobsOf(e)' = JobsOf(e) /\ \A j \in JobsOf(e) : j \in Jobs /\ DocOf[j] # d
    BY <1>4 DEF JobsOf
  <2> QED
    BY <1>1, <1>2, <1>3, <1>4, <1>5, <2>1 DEF DataInv, NothingLeft
<1> QED
  BY <1>7, <1>8, <1>9, <1>10, <1>11 DEF DataInv

(* A report goes with its source; the job stays as an expired one.         *)
LEMMA ReportDeletedKeepsData ==
  ASSUME LifecycleTypeOK, DataInv, NEW j \in Jobs, DeleteReport(j)
  PROVE  DataInv'
<1> USE LifecycleAssumption
<1> DEFINE d == DocOf[j]
<1>1. /\ d \in Docs /\ status[j] = "completed"
      /\ status' = [status EXCEPT ![j] = "expired"] /\ report' = [report EXCEPT ![j] = NoTime]
      /\ chunks' = chunks /\ stale' = stale /\ toRemove' = toRemove /\ toConfirm' = toConfirm
  BY DEF DeleteReport, ExpireReport, removals
<1>2. /\ status'[j] = "expired" /\ report'[j] = NoTime
      /\ \A i \in Jobs \ {j} : status'[i] = status[i] /\ report'[i] = report[i]
  BY <1>1 DEF LifecycleTypeOK, TypeOK
<1>3. /\ document[d] = "stored"
      /\ \A i \in Jobs \ {j} : DocOf[i] = d => status[i] \in Gone
  BY <1>1 DEF DataInv, OneJobPerDocument, Gone
<1>4. DropSource(d, "stored")
  <2>1. ~OtherConsumer(j)
    BY <1>3 DEF OtherConsumer, JobsOf, Gone
  <2> QED
    BY <2>1 DEF DeleteReport
<1>5. /\ document'[d] = "stored" /\ ~path'[d] /\ ~text'[d] /\ expiry'[d] = NoTime /\ missing' = missing
      /\ \A e \in Docs \ {d} :
           /\ document'[e] = document[e] /\ file'[e] = file[e] /\ path'[e] = path[e]
           /\ text'[e] = text[e] /\ expiry'[e] = expiry[e]
  BY <1>1, <1>4, DropSourceEffect
<1> HIDE DEF d
<1>6. \A i \in Jobs : /\ status'[i] \in Gone <=> status[i] \in Gone
                      /\ status'[i] \in Pending => DocOf[i] # d /\ status[i] \in Pending
                      /\ status'[i] = "cancelled" <=> status[i] = "cancelled"
                      /\ status'[i] \in {"completed", "expired"} =>
                           status[i] \in {"completed", "expired"}
  BY <1>1, <1>2, <1>3 DEF Pending, Gone, Terminal, Settling
<1>7. OneJobPerDocument' /\ SettledInputDue'
  BY <1>3, <1>5, <1>6 DEF DataInv, OneJobPerDocument, SettledInputDue, NoTime, Settling
<1>8. RemovalsAreFinal'
  <2>1. \A e \in toRemove \cup toConfirm : document'[e] \in {"stored", "gone"} /\ expiry'[e] <= 0
    BY <1>5 DEF DataInv, RemovalsAreFinal, LifecycleTypeOK, NoTime
  <2> QED
    BY <1>1, <1>6, <2>1 DEF DataInv, RemovalsAreFinal
<1>9. InputPresent'
  BY <1>3, <1>5, <1>6 DEF DataInv, InputPresent
<1>10. ReportsComplete'
  <2>1. \A i \in Jobs \ {j} : report[i] # NoTime => DocOf[i] # d
    BY <1>3 DEF DataInv, ReportsComplete, Gone
  <2> QED
    BY <1>2, <1>5, <2>1 DEF DataInv, ReportsComplete, NoTime
<1>11. NothingLeft'
  <2>1. \A e \in Docs \ {d} : JobsOf(e)' = JobsOf(e) /\ \A i \in JobsOf(e) : i \in Jobs \ {j}
    BY <1>6 DEF JobsOf, Gone, d
  <2>2. \A i \in Jobs \ {j} : DocOf[i] = d => ~chunks[i]
    BY <1>3 DEF DataInv, NothingLeft
  <2>3. \A e \in Docs : text'[e] => expiry'[e] # NoTime \/ \E i \in JobsOf(e)' : report'[i] # NoTime
    BY <1>2, <1>5, <2>1 DEF DataInv, NothingLeft
  <2> QED
    BY <1>1, <1>2, <1>5, <1>6, <2>2, <2>3 DEF DataInv, NothingLeft, Settling
<1> QED
  BY <1>7, <1>8, <1>9, <1>10, <1>11 DEF DataInv

-----------------------------------------------------------------------------
(* Cleanup                                                                 *)

(* Who removes a file, again or for the first time, or stops removing it.  *)
LEMMA RemovalsKeepData ==
  ASSUME LifecycleTypeOK, DataInv,
         \/ \E j \in Jobs : CancelAgain(j)
         \/ \E d \in Docs : RemoveFile(d) \/ DropRemoval(d) \/ DeletionFails(d)
  PROVE  DataInv'
<1> USE LifecycleAssumption
<1>1. /\ status' = status /\ document' = document /\ path' = path /\ text' = text /\ expiry' = expiry
      /\ chunks' = chunks /\ stale' = stale /\ report' = report
  BY DEF CancelAgain, RemoveFile, DropRemoval, DeletionFails, ThenRemove, inputVars, bodyVars, vars, rowVars
<1>2. \A d \in toRemove' \cup toConfirm' :
         \/ d \in toRemove \cup toConfirm
         \/ \E j \in Jobs : DocOf[j] = d /\ status[j] = "cancelled"
  BY DEF CancelAgain, RemoveFile, DropRemoval, DeletionFails, ThenRemove, removals
<1>3. \A d \in Docs :
         \/ file'[d] = file[d] /\ (d \in missing => d \in missing')
         \/ d \in missing' /\ document[d] = "stored"
         \/ d \in toRemove \cup toConfirm /\ (d \in missing => d \in missing')
  <2>1. ASSUME NEW d \in Docs, RemoveFile(d)
        PROVE  missing' = missing /\ d \in toRemove /\ \A e \in Docs \ {d} : file'[e] = file[e]
    BY <2>1 DEF RemoveFile, LifecycleTypeOK
  <2>2. ASSUME NEW d \in Docs, DeletionFails(d)
        PROVE  /\ missing' = missing \cup {d} /\ document[d] = "stored"
               /\ \A e \in Docs \ {d} : file'[e] = file[e]
    BY <2>2 DEF DeletionFails, MayDelete, LifecycleTypeOK
  <2>3. ASSUME (\E d \in Docs : DropRemoval(d)) \/ \E j \in Jobs : CancelAgain(j)
        PROVE  missing' = missing /\ file' = file
    BY <2>3 DEF DropRemoval, CancelAgain, inputVars
  <2> QED
    BY <2>1, <2>2, <2>3
<1>4. OneJobPerDocument' /\ SettledInputDue' /\ ReportsComplete'
  BY <1>1 DEF DataInv, OneJobPerDocument, SettledInputDue, ReportsComplete
<1>5. RemovalsAreFinal'
  <2>1. \A i, j \in Jobs : status[i] = "cancelled" /\ DocOf[j] = DocOf[i] =>
           status[j] \notin Pending /\ (chunks[j] => status[j] = "cancelled" \/ j \in stale)
    BY DEF DataInv, OneJobPerDocument, NothingLeft, Pending, Gone, Terminal, Settling
  <2>2. \A j \in Jobs : status[j] = "cancelled" =>
           document[DocOf[j]] \in {"stored", "gone"} /\ expiry[DocOf[j]] <= 0
    BY DEF DataInv, OneJobPerDocument, SettledInputDue, Settling, Gone
  <2> QED
    BY <1>1, <1>2, <2>1, <2>2 DEF DataInv, RemovalsAreFinal
<1>6. InputPresent'
  <2>1. \A d \in Docs : document[d] = "uploading" => file'[d]
    BY <1>3 DEF DataInv, InputPresent, RemovalsAreFinal
  <2>2. \A d \in Docs : path[d] /\ expiry[d] > 0 => file'[d] \/ d \in missing'
    BY <1>3 DEF DataInv, InputPresent, RemovalsAreFinal, LifecycleTypeOK, NoTime
  <2>3. \A j \in Jobs : status[j] \in Pending => file'[DocOf[j]] \/ DocOf[j] \in missing'
    BY <1>3 DEF DataInv, InputPresent, RemovalsAreFinal
  <2> QED
    BY <1>1, <2>1, <2>2, <2>3 DEF DataInv, InputPresent
<1>7. NothingLeft'
  BY <1>1 DEF DataInv, NothingLeft, JobsOf
<1> QED
  BY <1>4, <1>5, <1>6, <1>7 DEF DataInv

(* A confirmed removal takes the text with it unless a report shows it.    *)
LEMMA ConfirmedKeepsData ==
  ASSUME LifecycleTypeOK, DataInv, NEW d \in Docs, ConfirmRemoved(d)
  PROVE  DataInv'
<1> USE LifecycleAssumption
<1>1. /\ status' = status /\ document' = document /\ file' = file /\ missing' = missing
      /\ chunks' = chunks /\ stale' = stale /\ report' = report
      /\ toRemove' = toRemove /\ toConfirm' \subseteq toConfirm /\ d \in toConfirm
  BY DEF ConfirmRemoved, inputVars, bodyVars, vars, rowVars
<1>2. \/ path' = path /\ expiry' = expiry /\ text' = text
      \/ /\ ~path'[d] /\ expiry'[d] = NoTime /\ (text'[d] => text[d] /\ LiveReport(d))
         /\ \A e \in Docs \ {d} : path'[e] = path[e] /\ expiry'[e] = expiry[e] /\ text'[e] = text[e]
  <2>1. CASE path[d]
    <3>1. /\ ~path'[d] /\ expiry'[d] = NoTime
          /\ \A e \in Docs \ {d} : path'[e] = path[e] /\ expiry'[e] = expiry[e]
      BY <2>1 DEF ConfirmRemoved, LifecycleTypeOK
    <3> QED
      BY <2>1, <3>1, KeepTextEffect DEF ConfirmRemoved
  <2>2. CASE ~path[d]
    BY <2>2 DEF ConfirmRemoved, inputVars
  <2> QED
    BY <2>1, <2>2
<1>3. \A j \in Jobs : DocOf[j] = d => status[j] \notin Pending /\ (chunks[j] => status[j] = "cancelled" \/ j \in stale)
  BY <1>1 DEF DataInv, RemovalsAreFinal
<1>4. /\ \A e \in Docs : expiry'[e] = expiry[e] \/ (e = d /\ expiry'[e] = NoTime)
      /\ \A e \in Docs : path'[e] = path[e] \/ (e = d /\ ~path'[e])
      /\ \A e \in Docs : text'[e] = text[e] \/ e = d
      /\ text'[d] => text[d]
  BY <1>2
<1>5. OneJobPerDocument' /\ SettledInputDue'
  BY <1>1, <1>4 DEF DataInv, OneJobPerDocument, SettledInputDue, NoTime
<1>6. RemovalsAreFinal'
  BY <1>1, <1>4 DEF DataInv, RemovalsAreFinal, NoTime, LifecycleTypeOK
<1>7. InputPresent'
  BY <1>1, <1>2, <1>3 DEF DataInv, InputPresent, LifecycleTypeOK
<1>8. ReportsComplete'
  <2>1. \A j \in Jobs : DocOf[j] = d /\ report[j] > 0 => LiveReport(d)
    BY DEF DataInv, ReportsComplete, LiveReport, JobsOf, NoTime
  <2>2. \A j \in Jobs : DocOf[j] = d /\ report[j] > 0 => text'[d]
    <3>1. CASE text' = text
      BY <3>1 DEF DataInv, ReportsComplete
    <3>2. CASE path[d]
      BY <2>1, <3>2, KeepTextEffect DEF ConfirmRemoved, DataInv, ReportsComplete
    <3> QED
      BY <3>1, <3>2 DEF ConfirmRemoved, inputVars
  <2> QED
    BY <1>1, <1>4, <2>2 DEF DataInv, ReportsComplete
<1>9. NothingLeft'
  <2>1. \A e \in Docs : JobsOf(e)' = JobsOf(e)
    BY <1>1 DEF JobsOf
  <2>2. \A e \in Docs : text'[e] => expiry'[e] # NoTime \/ \E j \in JobsOf(e) : report[j] # NoTime
    BY <1>2 DEF DataInv, NothingLeft, LiveReport, NoTime
  <2> QED
    BY <1>1, <1>3, <1>4, <2>1, <2>2 DEF DataInv, NothingLeft
<1> QED
  BY <1>5, <1>6, <1>7, <1>8, <1>9 DEF DataInv

(* Cleanup takes what is due of documents without a pending job.           *)
LEMMA CleanedKeepsData ==
  ASSUME LifecycleTypeOK, DataInv, NEW d \in Docs, CleanDocument(d)
  PROVE  DataInv'
<1> USE LifecycleAssumption
<1>1. /\ status' = status /\ document' = document /\ file' = file /\ path' = path /\ missing' = missing
      /\ report' = report /\ toConfirm' = toConfirm
      /\ toRemove' = toRemove \cup {e \in {d} : path[e]}
      /\ document[d] = "stored" /\ expiry[d] = 0
      /\ \A j \in JobsOf(d) : status[j] \in Terminal
  BY DEF CleanDocument, MayClean, ThenRemove, vars, rowVars
<1>2. stale' = stale /\ \A j \in Jobs : chunks'[j] <=> chunks[j] /\ j \notin JobsOf(d)
  BY ClearChunksEffect DEF CleanDocument
<1>3. /\ text'[d] <=> text[d] /\ LiveReport(d)
      /\ \A e \in Docs \ {d} : text'[e] = text[e]
  BY KeepTextEffect DEF CleanDocument
<1>4. /\ expiry'[d] = Due(d)
      /\ \A e \in Docs \ {d} : expiry'[e] = expiry[e]
  BY DEF CleanDocument, LifecycleTypeOK
<1>5. Due(d) \in {0, NoTime} /\ (path[d] => Due(d) = 0)
  BY DEF Due
<1>6. \A j \in Jobs : DocOf[j] = d => status[j] \notin Pending /\ ~chunks'[j]
  BY <1>1, <1>2 DEF JobsOf, Pending, Gone, DataInv, NothingLeft
<1>7. OneJobPerDocument' /\ SettledInputDue'
  BY <1>1, <1>4, <1>5 DEF DataInv, OneJobPerDocument, SettledInputDue, NoTime
<1>8. RemovalsAreFinal'
  <2>1. \A e \in (toRemove \cup toConfirm)' : document'[e] \in {"stored", "gone"} /\ expiry'[e] <= 0
    BY <1>1, <1>4, <1>5 DEF DataInv, RemovalsAreFinal, LifecycleTypeOK, NoTime
  <2> QED
    BY <1>1, <1>2, <1>6, <2>1 DEF DataInv, RemovalsAreFinal
<1>9. InputPresent'
  BY <1>1, <1>4, <1>5, <1>6 DEF DataInv, InputPresent, NoTime
<1>10. ReportsComplete'
  <2>1. \A j \in Jobs : DocOf[j] = d /\ report[j] > 0 => LiveReport(d)
    BY DEF DataInv, ReportsComplete, LiveReport, JobsOf, NoTime
  <2> QED
    BY <1>1, <1>3, <2>1 DEF DataInv, ReportsComplete
<1>11. NothingLeft'
  <2>1. \A e \in Docs : JobsOf(e)' = JobsOf(e)
    BY <1>1 DEF JobsOf
  <2>2. LiveReport(d) => \E j \in JobsOf(d) : report[j] # NoTime
    BY DEF LiveReport, NoTime
  <2> QED
    BY <1>1, <1>2, <1>3, <1>4, <1>6, <2>1, <2>2 DEF DataInv, NothingLeft
<1> QED
  BY <1>7, <1>8, <1>9, <1>10, <1>11 DEF DataInv

(* An expired report takes the text: no other job of its document exists.  *)
LEMMA ExpiredKeepsData ==
  ASSUME LifecycleTypeOK, DataInv, NEW j \in Jobs, ExpireOldReport(j)
  PROVE  DataInv'
<1> USE LifecycleAssumption
<1> DEFINE d == DocOf[j]
           needed == \E i \in JobsOf(d) \ {j} : NeedsText(i)
<1>1. /\ d \in Docs /\ status[j] = "completed"
      /\ status' = [status EXCEPT ![j] = "expired"] /\ report' = [report EXCEPT ![j] = NoTime]
      /\ text' = [text EXCEPT ![d] = text[d] /\ needed]
      /\ document' = document /\ file' = file /\ path' = path /\ expiry' = expiry /\ missing' = missing
      /\ toRemove' = toRemove /\ toConfirm' = toConfirm
  BY DEF ExpireOldReport, ExpireReport, removals
<1>2. /\ status'[j] = "expired" /\ report'[j] = NoTime
      /\ \A i \in Jobs \ {j} : status'[i] = status[i] /\ report'[i] = report[i]
  BY <1>1 DEF LifecycleTypeOK, TypeOK
<1>3. \A i \in Jobs \ {j} : DocOf[i] = d => status[i] \in Gone
  BY <1>1 DEF DataInv, OneJobPerDocument, Gone
<1>4. ~needed
  BY <1>3 DEF JobsOf, Gone
<1> HIDE DEF d, needed
<1>5. ~text'[d] /\ \A e \in Docs \ {d} : text'[e] = text[e]
  <2>1. text' = [text EXCEPT ![d] = FALSE]
    BY <1>1, <1>4
  <2> QED
    BY <1>1, <2>1 DEF LifecycleTypeOK
<1>6. stale' = stale /\ \A i \in Jobs : chunks'[i] => chunks[i]
  BY ClearChunksEffect DEF ExpireOldReport
<1>7. \A i \in Jobs : /\ status'[i] \in Gone <=> status[i] \in Gone
                      /\ status'[i] \in Pending => status[i] \in Pending
                      /\ status'[i] = "cancelled" <=> status[i] = "cancelled"
                      /\ status'[i] \in {"completed", "expired"} =>
                           status[i] \in {"completed", "expired"}
  BY <1>1, <1>2 DEF Pending, Gone, Terminal, Settling
<1>8. OneJobPerDocument' /\ SettledInputDue'
  BY <1>1, <1>7 DEF DataInv, OneJobPerDocument, SettledInputDue, Settling
<1>9. RemovalsAreFinal' /\ InputPresent'
  BY <1>1, <1>6, <1>7 DEF DataInv, RemovalsAreFinal, InputPresent
<1>10. ReportsComplete'
  <2>1. \A i \in Jobs \ {j} : report[i] # NoTime => DocOf[i] # d
    BY <1>3 DEF DataInv, ReportsComplete, Gone
  <2> QED
    BY <1>2, <1>5, <2>1 DEF DataInv, ReportsComplete, NoTime
<1>11. NothingLeft'
  <2>1. \A e \in Docs \ {d} : JobsOf(e)' = JobsOf(e) /\ \A i \in JobsOf(e) : i \in Jobs \ {j}
    BY <1>7 DEF JobsOf, Gone, d
  <2>2. \A e \in Docs : text'[e] => expiry'[e] # NoTime \/ \E i \in JobsOf(e)' : report'[i] # NoTime
    BY <1>1, <1>2, <1>5, <2>1 DEF DataInv, NothingLeft
  <2> QED
    BY <1>1, <1>6, <1>7, <2>2 DEF DataInv, NothingLeft
<1> QED
  BY <1>8, <1>9, <1>10, <1>11 DEF DataInv

(* The last statement of the recovery.                                     *)
LEMMA PurgedKeepsData ==
  ASSUME LifecycleTypeOK, DataInv, PurgeCancelledChunks
  PROVE  DataInv'
<1>1. /\ status' = status /\ document' = document /\ file' = file /\ path' = path /\ text' = text
      /\ expiry' = expiry /\ missing' = missing /\ report' = report
      /\ toRemove' = toRemove /\ toConfirm' = toConfirm
  BY DEF PurgeCancelledChunks, inputVars, removals, vars, rowVars
<1>2. stale' = stale /\ \A j \in Jobs : chunks'[j] => chunks[j]
  BY ClearChunksEffect DEF PurgeCancelledChunks
<1> QED
  BY <1>1, <1>2 DEF DataInv, OneJobPerDocument, RemovalsAreFinal, SettledInputDue, InputPresent,
                    ReportsComplete, NothingLeft, JobsOf

(* Time ends retention periods and never begins them.                      *)
LEMMA TimeKeepsData ==
  ASSUME LifecycleTypeOK, DataInv, LifecycleTick
  PROVE  DataInv'
<1> USE LifecycleAssumption
<1>1. /\ status' = status /\ document' = document /\ file' = file /\ path' = path /\ text' = text
      /\ missing' = missing /\ chunks' = chunks /\ stale' = stale /\ toRemove' = toRemove /\ toConfirm' = toConfirm
  BY DEF LifecycleTick, Tick, removals
<1>2. \A d \in Docs : /\ expiry'[d] = NoTime <=> expiry[d] = NoTime
                      /\ expiry'[d] > 0 => expiry[d] > 0
                      /\ expiry[d] <= 0 => expiry'[d] <= 0
  BY DEF LifecycleTick, Down, LifecycleTypeOK, NoTime
<1>3. \A j \in Jobs : /\ report'[j] = NoTime <=> report[j] = NoTime
                      /\ report'[j] > 0 => report[j] > 0
  BY DEF LifecycleTick, Down, LifecycleTypeOK, NoTime
<1>4. OneJobPerDocument' /\ SettledInputDue' /\ InputPresent'
  BY <1>1, <1>2 DEF DataInv, OneJobPerDocument, SettledInputDue, InputPresent
<1>5. RemovalsAreFinal'
  BY <1>1, <1>2 DEF DataInv, RemovalsAreFinal, LifecycleTypeOK
<1>6. ReportsComplete'
  BY <1>1, <1>3 DEF DataInv, ReportsComplete
<1>7. NothingLeft'
  BY <1>1, <1>2, <1>3 DEF DataInv, NothingLeft, JobsOf
<1> QED
  BY <1>4, <1>5, <1>6, <1>7 DEF DataInv

-----------------------------------------------------------------------------
(* What slots write                                                        *)

(* The extracted text comes with a new expiry time; a running job's input  *)
(* is there and nobody removes it.                                         *)
LEMMA SavedKeepsData ==
  ASSUME LifecycleInv, NEW w \in Workers, SaveExtracted(w)
  PROVE  DataInv'
<1> USE LifecycleAssumption, JobQueueAssumption
<1> DEFINE j == task[w]
           d == DocOf[task[w]]
<1>0. /\ LifecycleTypeOK /\ DataInv /\ j \in Jobs /\ d \in Docs
      /\ status[j] \in Pending /\ InputTicks > 0
  BY DEF SaveExtracted, HoldsRunning, LifecycleInv, LifecycleTypeOK, TypeOK, Running, Pending, Gone,
         Statuses, Terminal
<1>1. /\ status' = status /\ document' = document /\ file' = file /\ path' = path /\ missing' = missing
      /\ chunks' = chunks /\ stale' = stale /\ report' = report /\ toRemove' = toRemove /\ toConfirm' = toConfirm
      /\ text' = [text EXCEPT ![d] = TRUE] /\ expiry' = [expiry EXCEPT ![d] = InputTicks]
  BY DEF SaveExtracted, Doc, vars, rowVars, bodyVars, removals
<1> HIDE DEF j, d
<1>2. /\ text'[d] /\ expiry'[d] = InputTicks
      /\ \A e \in Docs \ {d} : text'[e] = text[e] /\ expiry'[e] = expiry[e]
  BY <1>0, <1>1 DEF LifecycleTypeOK
<1>3. /\ path[d] /\ (file[d] \/ d \in missing)
      /\ d \notin toRemove \cup toConfirm
      /\ \A i \in Jobs : status[i] \in Settling => DocOf[i] # d
  <2>1. /\ path[d] /\ (file[d] \/ d \in missing)
        /\ d \notin toRemove \cup toConfirm
    BY <1>0 DEF DataInv, InputPresent, RemovalsAreFinal, j, d
  <2>2. \A i \in Jobs : status[i] \in Settling => DocOf[i] # d
    BY <1>0 DEF DataInv, OneJobPerDocument, Pending, Gone, Terminal, Settling, j, d
  <2> QED
    BY <2>1, <2>2
<1>4. InputTicks # NoTime
  BY <1>0 DEF NoTime
<1>5. OneJobPerDocument' /\ SettledInputDue'
  BY <1>0, <1>1, <1>2, <1>3 DEF DataInv, OneJobPerDocument, SettledInputDue
<1>6. RemovalsAreFinal'
  BY <1>0, <1>1, <1>2, <1>3 DEF DataInv, RemovalsAreFinal, LifecycleTypeOK
<1>7. InputPresent'
  BY <1>0, <1>1, <1>2, <1>3, <1>4 DEF DataInv, InputPresent
<1>8. ReportsComplete'
  BY <1>0, <1>1, <1>2 DEF DataInv, ReportsComplete
<1>9. NothingLeft'
  BY <1>0, <1>1, <1>2, <1>4 DEF DataInv, NothingLeft, JobsOf
<1> QED
  BY <1>5, <1>6, <1>7, <1>8, <1>9 DEF DataInv

(* The chunks come while the job is pending, or has failed with an input   *)
(* it may still be tried with, or is cancelled, or else they are late.     *)
LEMMA WrittenKeepsData ==
  ASSUME LifecycleInv, NEW w \in Workers, CommitReplaceChunks(w)
  PROVE  DataInv'
<1> USE LifecycleAssumption, JobQueueAssumption
<1> DEFINE j == task[w]
           d == DocOf[task[w]]
<1>0. /\ LifecycleTypeOK /\ DataInv /\ j \in Jobs /\ d \in Docs
      /\ status[j] \in Pending \cup Terminal
  <2>1. LifecycleTypeOK /\ DataInv /\ TypeOK
    BY DEF LifecycleInv, LifecycleTypeOK
  <2>2. phase[w] = "running" /\ status[j] # "deleted" /\ status[j] # "none"
    BY DEF CommitReplaceChunks, LifecycleInv, SlotInv, StepsOfRuns
  <2>3. j \in Jobs /\ status[j] \in Statuses
    BY <2>1, <2>2 DEF TypeOK
  <2> QED
    BY <2>1, <2>2, <2>3 DEF Pending, Gone
<1>1. /\ status' = status /\ document' = document /\ file' = file /\ path' = path /\ text' = text
      /\ expiry' = expiry /\ missing' = missing
      /\ report' = report /\ toRemove' = toRemove /\ toConfirm' = toConfirm
      /\ chunks' = [chunks EXCEPT ![j] = TRUE]
      /\ stale \subseteq stale'
      /\ status[j] \in Terminal /\ expiry[d] <= 0 => j \in stale'
  BY DEF CommitReplaceChunks, EndedAndDue, vars, rowVars, inputVars, removals
<1> HIDE DEF j, d
<1>2. \A i \in Jobs \ {j} : chunks'[i] = chunks[i]
  BY <1>0, <1>1 DEF LifecycleTypeOK
<1>3. \/ j \in stale'
      \/ status[j] \in Pending \cup {"failed"} /\ d \notin toRemove \cup toConfirm /\ expiry[d] # NoTime
  <2>1. CASE status[j] \in Pending
    BY <1>0, <2>1 DEF DataInv, InputPresent, RemovalsAreFinal, j, d
  <2>2. CASE status[j] \in Terminal /\ expiry[d] > 0
    <3>1. status[j] = "failed"
      BY <1>0, <2>2 DEF DataInv, SettledInputDue, Settling, Terminal, LifecycleTypeOK, NoTime, j, d
    <3>2. d \notin toRemove \cup toConfirm
      BY <1>0, <2>2 DEF DataInv, RemovalsAreFinal, LifecycleTypeOK, NoTime
    <3> QED
      BY <1>0, <2>2, <3>1, <3>2 DEF NoTime
  <2>3. CASE status[j] \in Terminal /\ ~(expiry[d] > 0)
    BY <1>0, <1>1, <2>3 DEF LifecycleTypeOK, NoTime
  <2> QED
    BY <1>0, <2>1, <2>2, <2>3
<1>4. OneJobPerDocument' /\ SettledInputDue' /\ InputPresent' /\ ReportsComplete'
  BY <1>0, <1>1 DEF DataInv, OneJobPerDocument, SettledInputDue, InputPresent, ReportsComplete
<1>5. RemovalsAreFinal'
  BY <1>0, <1>1, <1>2, <1>3 DEF DataInv, RemovalsAreFinal, j, d
<1>6. NothingLeft'
  <2>1. status[j] \notin Gone /\ (j \in stale' \/ (status[j] \notin {"completed", "expired"} /\ expiry[d] # NoTime))
    BY <1>0, <1>3 DEF Pending, Gone, Terminal
  <2> QED
    BY <1>0, <1>1, <1>2, <2>1 DEF DataInv, NothingLeft, JobsOf, j, d
<1> QED
  BY <1>4, <1>5, <1>6 DEF DataInv

-----------------------------------------------------------------------------
(* The data through every step                                             *)

LEMMA SameData ==
  ASSUME DataInv, status' = status, UNCHANGED <<inputVars, bodyVars, removals>>
  PROVE  DataInv'
  BY DEF DataInv, OneJobPerDocument, RemovalsAreFinal, SettledInputDue, InputPresent,
         ReportsComplete, NothingLeft, JobsOf, inputVars, bodyVars, removals

(* A document whose jobs J are cancelled: what the three transactions that *)
(* do so have in common with CancelledKeepsData.                           *)
LEMMA CancellingKeepsData ==
  ASSUME LifecycleInv,
         \/ \E j \in Jobs : CancelQueuedAnalysis(j)
         \/ \E w \in Workers : FinalizeCancelledAnalysis(w)
         \/ FinishCancelledJobs
  PROVE  DataInv'
<1> USE LifecycleAssumption, JobQueueAssumption
<1>0. LifecycleTypeOK /\ DataInv
  BY DEF LifecycleInv
<1>1. ASSUME NEW j \in Jobs, CancelQueuedAnalysis(j) PROVE DataInv'
  <2>1. /\ status[j] \in Pending /\ report' = report
        /\ EraseText({DocOf[i] : i \in {j}})
        /\ toRemove \subseteq toRemove' /\ toRemove' \subseteq toRemove \cup {DocOf[i] : i \in {j}}
        /\ toConfirm' = toConfirm
    <3>1. {DocOf[i] : i \in {j}} = {DocOf[j]}
      OBVIOUS
    <3> QED
      BY <1>1, <3>1 DEF CancelQueuedAnalysis, CancelQueued, ThenRemove, Pending, Gone, Statuses, Terminal
  <2>2. \A i \in Jobs : status'[i] = IF i \in {j} THEN "cancelled" ELSE status[i]
    BY <1>0, <1>1 DEF CancelQueuedAnalysis, CancelQueued, EndJob, LifecycleTypeOK, TypeOK
  <2>3. stale' = stale /\ \A i \in Jobs : chunks'[i] => chunks[i]
    BY <1>0, <1>1, ClearChunksEffect DEF CancelQueuedAnalysis
  <2> QED
    BY <1>0, <2>1, <2>2, <2>3, CancelledKeepsData
<1>2. ASSUME NEW w \in Workers, FinalizeCancelledAnalysis(w) PROVE DataInv'
  <2>0. task[w] \in Jobs
    BY <1>0, <1>2 DEF FinalizeCancelledAnalysis, FinalizeCancelled, LifecycleTypeOK, TypeOK
  <2>1. /\ status[task[w]] \in Pending \cup {"cancelled"} /\ report' = report
        /\ EraseText({DocOf[i] : i \in {task[w]}})
        /\ toRemove \subseteq toRemove' /\ toRemove' \subseteq toRemove \cup {DocOf[i] : i \in {task[w]}}
        /\ toConfirm' = toConfirm
    <3>1. {DocOf[i] : i \in {task[w]}} = {DocOf[task[w]]}
      OBVIOUS
    <3> QED
      BY <1>2, <3>1 DEF FinalizeCancelledAnalysis, FinalizeCancelled, CancelSeen, ThenRemove, Doc,
                        Pending, Gone, Statuses, Terminal
  <2>2. \A i \in Jobs : status'[i] = IF i \in {task[w]} THEN "cancelled" ELSE status[i]
    BY <1>0, <1>2, <2>0
    DEF FinalizeCancelledAnalysis, FinalizeCancelled, EndJob, LifecycleTypeOK, TypeOK
  <2>3. stale' = stale /\ \A i \in Jobs : chunks'[i] => chunks[i]
    BY <1>0, <1>2, ClearChunksEffect DEF FinalizeCancelledAnalysis
  <2> QED
    BY <1>0, <2>0, <2>1, <2>2, <2>3, CancelledKeepsData
<1>3. CASE FinishCancelledJobs
  <2>1. /\ AbandonedCancellations \subseteq Jobs
        /\ \A j \in AbandonedCancellations : status[j] \in Pending
    BY DEF AbandonedCancellations, Pending, Gone, Statuses, Terminal
  <2>2. /\ \A i \in Jobs : status'[i] = IF i \in AbandonedCancellations THEN "cancelled" ELSE status[i]
        /\ EraseText({DocOf[j] : j \in AbandonedCancellations})
        /\ report' = report /\ chunks' = chunks /\ stale' = stale /\ toRemove' = toRemove /\ toConfirm' = toConfirm
    BY <1>3 DEF FinishCancelledJobs, FinishCancellations, bodyVars, removals
  <2> QED
    BY <1>0, <2>1, <2>2, CancelledKeepsData
<1> QED
  BY <1>1, <1>2, <1>3

(* Deleting the only analysis of a document deletes the document.          *)
LEMMA DeletingKeepsData ==
  ASSUME LifecycleInv,
         (\E d \in Docs : DeleteDocument(d)) \/ \E j \in Jobs : DeleteAnalysis(j)
  PROVE  DataInv'
<1> USE LifecycleAssumption
<1>0. LifecycleTypeOK /\ DataInv
  BY DEF LifecycleInv
<1>1. ASSUME NEW d \in Docs, DeleteDocument(d) PROVE DataInv'
  <2>1. \A j \in Jobs : status'[j] = IF j \in JobsOf(d) THEN "deleted" ELSE status[j]
    BY <1>1 DEF DeleteDocument, DeleteJobs, vars, rowVars
  <2> QED
    BY <1>0, <1>1, <2>1, DeletedKeepsData DEF DeleteDocument, MayDelete
<1>2. ASSUME NEW j \in Jobs, DeleteAnalysis(j) PROVE DataInv'
  <2>1. status[j] \in Terminal /\ DocOf[j] \in Docs
    BY <1>2 DEF DeleteAnalysis, DeleteJobs
  <2>2. JobsOf(DocOf[j]) = {j}
    BY <1>0, <2>1 DEF JobsOf, DataInv, OneJobPerDocument, Gone, Terminal
  <2>3. /\ DropSource(DocOf[j], "gone") /\ DropBodies(JobsOf(DocOf[j]))
        /\ document[DocOf[j]] = "stored"
        /\ \A i \in Jobs : status'[i] = IF i \in JobsOf(DocOf[j]) THEN "deleted" ELSE status[i]
        /\ UNCHANGED removals
    BY <1>2, <2>2 DEF DeleteAnalysis, DeleteJobs, MayDelete
  <2> QED
    BY <1>0, <2>1, <2>3, DeletedKeepsData
<1> QED
  BY <1>1, <1>2

(* DataInv is preserved by every step, from LifecycleInv.                  *)
LEMMA DataStep == LifecycleInv /\ [LifecycleNext]_allVars => DataInv'
<1> SUFFICES ASSUME LifecycleInv, [LifecycleNext]_allVars PROVE DataInv'
  OBVIOUS
<1>0. LifecycleTypeOK /\ DataInv /\ QueueInv
  BY DEF LifecycleInv
<1>1. ASSUME NEW d \in Docs,
             UploadNext(d) \/ CleanDocument(d) \/ RemovalNext(d) \/ DeleteDocument(d) \/ DeletionFails(d)
      PROVE  DataInv'
  BY <1>0, <1>1, UploadKeepsData, CleanedKeepsData, RemovalsKeepData, ConfirmedKeepsData, DeletingKeepsData
  DEF RemovalNext
<1>2. ASSUME NEW j \in Jobs, AnalysisNext(j) \/ ExpireOldReport(j) PROVE DataInv'
  <2>1. CASE CancelRunningAnalysis(j)
    BY <1>0, <2>1, QuietRows, QuietKeepsData DEF CancelRunningAnalysis
  <2> QED
    BY <1>0, <1>2, <2>1, BegunKeepsData, CancellingKeepsData, RemovalsKeepData, DeletingKeepsData,
       ReportDeletedKeepsData, ExpiredKeepsData
    DEF AnalysisNext
<1>3. ASSUME NEW w \in Workers, SlotNext(w) PROVE DataInv'
  <2>1. CASE QueueStep(w)
    BY <1>0, <2>1, QuietRows, QuietKeepsData DEF QueueStep
  <2>2. CASE ReportProgress(w)
    BY <1>0, <2>2, QuietRows, QuietKeepsData DEF ReportProgress
  <2>3. CASE ExtractText(w) \/ BeginReplaceChunks(w)
    BY <1>0, <2>3, SameData DEF ExtractText, BeginReplaceChunks, vars, rowVars
  <2> QED
    BY <1>3, <2>1, <2>2, <2>3, SavedKeepsData, WrittenKeepsData, PublishedKeepsData, CancellingKeepsData
    DEF SlotNext
<1>4. CASE RecoverJobs
  BY <1>0, <1>4, QuietRows, QuietKeepsData DEF RecoverJobs
<1>5. CASE FinishCancelledJobs \/ PurgeCancelledChunks \/ LifecycleTick
  BY <1>0, <1>5, CancellingKeepsData, PurgedKeepsData, TimeKeepsData
<1>6. CASE UNCHANGED allVars
  BY <1>0, <1>6, SameData DEF allVars, vars, rowVars
<1> QED
  BY <1>1, <1>2, <1>3, <1>4, <1>5, <1>6 DEF LifecycleNext

-----------------------------------------------------------------------------
(* What a step leaves to a job that goes on                                *)

(* No step takes the text or the bodies of a job that is pending before    *)
(* and has not ended after it.                                             *)
BodiesStay ==
  \A d \in Docs : \A j \in PendingJobs(d) :
     status'[j] \notin Terminal =>
        /\ text[d] => text'[d]
        /\ chunks[j] => chunks'[j]

LEMMA KeptStep == LifecycleInv /\ [LifecycleNext]_allVars => BodiesStay
<1> SUFFICES ASSUME LifecycleInv, [LifecycleNext]_allVars PROVE BodiesStay
  OBVIOUS
<1> USE LifecycleAssumption
<1>0. LifecycleTypeOK /\ DataInv /\ OneJobPerDocument /\ RemovalsAreFinal
  BY DEF LifecycleInv, DataInv
<1>1. ASSUME text' = text, expiry' = expiry, chunks' = chunks PROVE BodiesStay
  BY <1>1 DEF BodiesStay
<1>2. \A d \in Docs : \A j \in PendingJobs(d) :
         j \in Jobs /\ DocOf[j] = d /\ status[j] \notin Gone /\ status[j] \notin Terminal
  BY DEF PendingJobs, JobsOf, Gone
<1>3. \A e \in Docs : expiry[e] \in Int
  BY <1>0 DEF LifecycleTypeOK, NoTime
<1>4. \A i, j \in Jobs : DocOf[i] = DocOf[j] /\ status[i] \notin Gone /\ status[j] \notin Gone => i = j
  BY <1>0 DEF OneJobPerDocument
<1>5. ASSUME NEW d \in Docs, UploadNext(d) PROVE BodiesStay
  <2>1. text' = text /\ chunks' = chunks /\ \A e \in Docs : expiry'[e] = expiry[e] \/ e = d
    BY <1>0, <1>5 DEF UploadNext, WriteUpload, InsertDocument, RejectUpload, AbandonUpload, LoseUpload,
                      LifecycleTypeOK, bodyVars
  <2>2. \A j \in Jobs : DocOf[j] = d => status[j] \in Gone
    BY <1>0, <1>5 DEF UploadNext, WriteUpload, InsertDocument, RejectUpload, AbandonUpload, LoseUpload,
                      OneJobPerDocument
  <2> QED
    BY <1>3, <2>1, <2>2 DEF BodiesStay
<1>6. ASSUME NEW d \in Docs, CleanDocument(d) PROVE BodiesStay
  <2>1. \A j \in JobsOf(d) : status[j] \in Terminal
    BY <1>6 DEF CleanDocument, MayClean
  <2>2. \A j \in Jobs : chunks'[j] <=> chunks[j] /\ j \notin JobsOf(d)
    BY <1>0, <1>6, ClearChunksEffect DEF CleanDocument
  <2>3. \A e \in Docs \ {d} : text'[e] = text[e] /\ expiry'[e] = expiry[e]
    BY <1>0, <1>6, KeepTextEffect DEF CleanDocument, LifecycleTypeOK
  <2> QED
    BY <2>1, <2>2, <2>3 DEF BodiesStay, PendingJobs, JobsOf
<1>7. ASSUME NEW d \in Docs, ConfirmRemoved(d) PROVE BodiesStay
  <2>1. chunks' = chunks /\ \A e \in Docs \ {d} : text'[e] = text[e] /\ expiry'[e] = expiry[e]
    BY <1>0, <1>7, KeepTextEffect DEF ConfirmRemoved, LifecycleTypeOK, bodyVars, inputVars
  <2>2. expiry[d] <= 0 /\ \A j \in Jobs : DocOf[j] = d => status[j] \notin Pending
    BY <1>0, <1>7 DEF ConfirmRemoved, RemovalsAreFinal
  <2>3. PendingJobs(d) = {}
    BY <1>0, <1>2, <2>2 DEF PendingJobs, JobsOf, Pending, LifecycleTypeOK, TypeOK, Gone
  <2> QED
    BY <1>3, <2>1, <2>2, <2>3 DEF BodiesStay
<1>8. ASSUME NEW J \in SUBSET Jobs, NEW D, D = {DocOf[j] : j \in J},
             \A j \in J : status[j] \notin Gone /\ status'[j] = "cancelled",
             EraseText(D),
             \A j \in Jobs : chunks'[j] = chunks[j] \/ j \in J
      PROVE  BodiesStay
  <2>1. \A e \in Docs : e \notin D => text'[e] = text[e] /\ expiry'[e] = expiry[e]
    BY <1>0, <1>8, EraseTextEffect DEF LifecycleTypeOK
  <2>2. \A j \in Jobs : DocOf[j] \in D /\ status[j] \notin Gone => j \in J
    BY <1>4, <1>8
  <2> QED
    BY <1>2, <1>3, <1>8, <2>1, <2>2 DEF BodiesStay, Terminal, Settling
<1>9. ASSUME NEW j \in Jobs, CancelQueuedAnalysis(j) PROVE BodiesStay
  <2>1. status[j] \notin Gone /\ status'[j] = "cancelled"
    BY <1>0, <1>9 DEF CancelQueuedAnalysis, CancelQueued, EndJob, Gone, LifecycleTypeOK, TypeOK
  <2>2. \A i \in Jobs : chunks'[i] = chunks[i] \/ i \in {j}
    BY <1>0, <1>9 DEF CancelQueuedAnalysis, ClearChunks, LifecycleTypeOK
  <2>3. {DocOf[j]} = {DocOf[i] : i \in {j}} /\ EraseText({DocOf[j]})
    BY <1>9 DEF CancelQueuedAnalysis
  <2> QED
    BY <1>8, <2>1, <2>2, <2>3
<1>10. ASSUME NEW w \in Workers, FinalizeCancelledAnalysis(w) PROVE BodiesStay
  <2>1. task[w] \in Jobs /\ status[task[w]] \notin Gone /\ status'[task[w]] = "cancelled"
    BY <1>0, <1>10 DEF FinalizeCancelledAnalysis, FinalizeCancelled, CancelSeen, EndJob, Gone,
                       LifecycleTypeOK, TypeOK
  <2>2. \A i \in Jobs : chunks'[i] = chunks[i] \/ i \in {task[w]}
    BY <1>0, <1>10 DEF FinalizeCancelledAnalysis, ClearChunks, LifecycleTypeOK
  <2>3. {Doc(w)} = {DocOf[i] : i \in {task[w]}} /\ EraseText({Doc(w)})
    BY <1>10 DEF FinalizeCancelledAnalysis, Doc
  <2> QED
    BY <1>8, <2>1, <2>2, <2>3
<1>11. CASE FinishCancelledJobs
  <2>1. \A j \in AbandonedCancellations :
           j \in Jobs /\ status[j] \notin Gone /\ status'[j] = "cancelled"
    BY <1>11 DEF FinishCancelledJobs, FinishCancellations, AbandonedCancellations, Gone
  <2>2. chunks' = chunks /\ EraseText({DocOf[j] : j \in AbandonedCancellations})
    BY <1>11 DEF FinishCancelledJobs, bodyVars
  <2> QED
    BY <1>8, <2>1, <2>2
<1>12. ASSUME NEW w \in Workers, PublishReport(w) PROVE BodiesStay
  <2>1. task[w] \in Jobs /\ status[task[w]] = "rendering" /\ status'[task[w]] = "completed"
    BY <1>0, <1>12 DEF PublishReport, SaveReport, EndJob, LifecycleTypeOK, TypeOK
  <2>2. text' = text
    BY <1>12 DEF PublishReport, InputAfterReport
  <2>3. \A i \in Jobs \ {task[w]} : chunks'[i] = chunks[i]
    BY <1>0, <1>12 DEF PublishReport, ClearChunks, LifecycleTypeOK
  <2> QED
    BY <1>2, <2>1, <2>2, <2>3 DEF BodiesStay, Terminal
<1>13. ASSUME NEW d \in Docs, NEW s \in {"stored", "gone"}, DropSource(d, s),
              \A j \in Jobs : status[j] \notin Gone /\ DocOf[j] = d =>
                 status[j] \in Terminal /\ status'[j] \in Settling \cup {"deleted"},
              \A j \in Jobs : chunks'[j] = chunks[j] \/ DocOf[j] = d
       PROVE  BodiesStay
  <2>1. \A e \in Docs \ {d} : text'[e] = text[e] /\ expiry'[e] = expiry[e]
    BY <1>0, <1>13, DropSourceEffect
  <2>2. PendingJobs(d) = {}
    BY <1>2, <1>13
  <2> QED
    BY <1>2, <1>13, <2>1, <2>2 DEF BodiesStay
<1>14. ASSUME NEW d \in Docs, DeleteDocument(d) PROVE BodiesStay
  <2>1. /\ \A j \in JobsOf(d) : status[j] \in Terminal
        /\ \A j \in Jobs : j \in JobsOf(d) => status'[j] = "deleted"
        /\ DropSource(d, "gone")
    BY <1>14 DEF DeleteDocument, MayDelete, DeleteJobs
  <2>2. \A j \in Jobs : chunks'[j] = chunks[j] \/ j \in JobsOf(d)
    BY <1>0, <1>14 DEF DeleteDocument, DropBodies, ClearChunks, LifecycleTypeOK
  <2> QED
    BY <1>13, <2>1, <2>2 DEF JobsOf, Gone
<1>15. ASSUME NEW j \in Jobs, DeleteAnalysis(j) PROVE BodiesStay
  <2>1. /\ DocOf[j] \in Docs /\ status[j] \in Terminal /\ status'[j] = "deleted"
    BY <1>15 DEF DeleteAnalysis, DeleteJobs
  <2>2. JobsOf(DocOf[j]) = {j}
    BY <1>4, <2>1 DEF JobsOf, Gone, Terminal
  <2>3. DropSource(DocOf[j], "gone")
    BY <1>15, <2>2 DEF DeleteAnalysis
  <2>4. \A i \in Jobs : chunks'[i] = chunks[i] \/ i = j
    BY <1>0, <1>15 DEF DeleteAnalysis, DropBodies, ClearChunks, LifecycleTypeOK
  <2> QED
    BY <1>4, <1>13, <2>1, <2>3, <2>4 DEF Gone, Terminal
<1>16. ASSUME NEW j \in Jobs, DeleteReport(j) PROVE BodiesStay
  <2>1. /\ DocOf[j] \in Docs /\ status[j] = "completed" /\ status'[j] = "expired" /\ chunks' = chunks
    BY <1>0, <1>16 DEF DeleteReport, ExpireReport, LifecycleTypeOK, TypeOK
  <2>2. JobsOf(DocOf[j]) = {j}
    BY <1>4, <2>1 DEF JobsOf, Gone
  <2>3. DropSource(DocOf[j], "stored")
    BY <1>16, <2>2 DEF DeleteReport, OtherConsumer
  <2> QED
    BY <1>4, <1>13, <2>1, <2>3 DEF Gone, Terminal, Settling
<1>17. ASSUME NEW j \in Jobs, ExpireOldReport(j) PROVE BodiesStay
  <2> DEFINE needed == \E i \in JobsOf(DocOf[j]) \ {j} : NeedsText(i)
             kept   == text[DocOf[j]] /\ needed
  <2>1. status[j] = "completed" /\ expiry' = expiry /\ DocOf[j] \in Docs
    BY <1>17 DEF ExpireOldReport, ExpireReport
  <2>2. text' = [text EXCEPT ![DocOf[j]] = kept]
    BY <1>17 DEF ExpireOldReport
  <2>3. \A i \in Jobs \ {j} : chunks'[i] = chunks[i]
    BY <1>0, <1>17 DEF ExpireOldReport, ClearChunks, LifecycleTypeOK
  <2> HIDE DEF kept
  <2>4. \A e \in Docs \ {DocOf[j]} : text'[e] = text[e]
    BY <1>0, <2>2 DEF LifecycleTypeOK
  <2>5. \A i \in Jobs : status[i] \notin Gone \cup Terminal => DocOf[i] # DocOf[j] /\ i # j
    BY <1>4, <2>1 DEF Gone, Terminal
  <2>6. BodiesStay
    BY <1>2, <2>3, <2>4, <2>5 DEF BodiesStay
  <2> QED
    BY <2>6
<1>18. CASE PurgeCancelledChunks
  <2>1. text' = text /\ expiry' = expiry
    BY <1>18 DEF PurgeCancelledChunks, inputVars
  <2>2. \A j \in Jobs : chunks'[j] = chunks[j] \/ status[j] = "cancelled"
    BY <1>0, <1>18 DEF PurgeCancelledChunks, ClearChunks, CancelledWithChunks, LifecycleTypeOK
  <2> QED
    BY <1>2, <1>3, <2>1, <2>2 DEF BodiesStay, Terminal
<1>19. CASE LifecycleTick
  BY <1>19 DEF LifecycleTick, BodiesStay
<1>20. ASSUME NEW w \in Workers, SaveExtracted(w) PROVE BodiesStay
  <2>1. /\ text' = [text EXCEPT ![Doc(w)] = TRUE] /\ expiry' = [expiry EXCEPT ![Doc(w)] = InputTicks]
        /\ chunks' = chunks
    BY <1>20 DEF SaveExtracted, bodyVars
  <2>2. /\ \A e \in Docs : text[e] => text'[e]
        /\ \A e \in Docs : expiry'[e] >= expiry[e]
    BY <1>0, <2>1 DEF LifecycleTypeOK, NoTime
  <2> QED
    BY <2>1, <2>2 DEF BodiesStay
<1>21. ASSUME NEW w \in Workers, CommitReplaceChunks(w) PROVE BodiesStay
  <2>1. text' = text /\ expiry' = expiry /\ chunks' = [chunks EXCEPT ![task[w]] = TRUE]
    BY <1>21 DEF CommitReplaceChunks, inputVars
  <2>2. \A i \in Jobs : chunks[i] => chunks'[i]
    BY <1>0, <2>1 DEF LifecycleTypeOK
  <2> QED
    BY <1>3, <2>1, <2>2 DEF BodiesStay
<1>22. ASSUME \/ \E w \in Workers : QueueStep(w) \/ ExtractText(w) \/ BeginReplaceChunks(w) \/ ReportProgress(w)
              \/ \E j \in Jobs : CreateAnalysis(j) \/ RetryAnalysis(j) \/ CancelRunningAnalysis(j) \/ CancelAgain(j)
              \/ \E d \in Docs : RemoveFile(d) \/ DropRemoval(d) \/ DeletionFails(d)
              \/ RecoverJobs \/ UNCHANGED allVars
       PROVE  text' = text /\ expiry' = expiry /\ chunks' = chunks
  BY <1>22 DEF QueueStep, ExtractText, BeginReplaceChunks, ReportProgress, CreateAnalysis, RetryAnalysis,
               CancelRunningAnalysis, CancelAgain, RemoveFile, DropRemoval, DeletionFails, RecoverJobs,
               inputVars, bodyVars, allVars
<1> QED
  <2>1. ASSUME NEW d \in Docs,
               UploadNext(d) \/ CleanDocument(d) \/ RemovalNext(d) \/ DeleteDocument(d) \/ DeletionFails(d)
        PROVE  BodiesStay
    BY <1>1, <1>5, <1>6, <1>7, <1>14, <1>22, <2>1 DEF RemovalNext
  <2>2. ASSUME NEW j \in Jobs, AnalysisNext(j) \/ ExpireOldReport(j) PROVE BodiesStay
    BY <1>1, <1>9, <1>15, <1>16, <1>17, <1>22, <2>2 DEF AnalysisNext
  <2>3. ASSUME NEW w \in Workers, SlotNext(w) PROVE BodiesStay
    BY <1>1, <1>10, <1>12, <1>20, <1>21, <1>22, <2>3 DEF SlotNext
  <2> QED
    BY <1>1, <1>11, <1>18, <1>19, <1>22, <2>1, <2>2, <2>3 DEF LifecycleNext

-----------------------------------------------------------------------------
(* Slots                                                                   *)

(* Only an idle slot becomes the owner of a row.                           *)
LEMMA OwnerStep ==
  TypeOK /\ [Next]_vars =>
  \A j \in Jobs : \/ owner'[j] \in {owner[j], NoWorker}
                  \/ \E w \in Workers : phase[w] = "idle" /\ owner'[j] = w
<1> SUFFICES ASSUME TypeOK, [Next]_vars, NEW j \in Jobs
             PROVE  \/ owner'[j] \in {owner[j], NoWorker}
                    \/ \E w \in Workers : phase[w] = "idle" /\ owner'[j] = w
  OBVIOUS
<1> USE DEF TypeOK, rowVars, workerVars
<1>1. ASSUME NEW i \in Jobs, ApiNext(i) PROVE owner'[j] \in {owner[j], NoWorker}
  BY <1>1 DEF ApiNext, Create, Retry, CancelQueued, RequestCancellation, ExpireReport, EndJob
<1>2. ASSUME NEW J \in SUBSET Jobs, DeleteJobs(J) PROVE owner'[j] \in {owner[j], NoWorker}
  BY <1>2 DEF DeleteJobs
<1>3. ASSUME NEW w \in Workers, WorkerNext(w)
      PROVE  owner'[j] = owner[j] \/ (phase[w] = "idle" /\ owner'[j] = w)
  <2>1. CASE ClaimJob(w)
    BY <2>1 DEF ClaimJob, Claimable
  <2>2. CASE ~ClaimJob(w)
    BY <1>3, <2>2
    DEF WorkerNext, ExpireQueued, Start, Heartbeat, MarkVerifying, RefreshLease, LoseLease, SeeCancellation,
        Fail, Timeout, SaveReport, Return, CheckCancelled, FinalizeCancelled, MarkFailed, GiveUp, Crash, EndJob
  <2> QED
    BY <2>1, <2>2
<1>4. CASE RecoveryNext \/ Tick \/ UNCHANGED vars
  BY <1>4 DEF RecoveryNext, RequeueLapsed, FailTimedOut, FinishCancellations, Tick, vars
<1> QED
  BY <1>1, <1>2, <1>3, <1>4 DEF Next

(* A run of process_job that lost its job does not get it back.            *)
LEMMA HeldBefore ==
  ASSUME QueueInv, [Next]_vars, NEW w \in Workers, phase[w] = "running",
         owner'[task[w]] = w, status'[task[w]] \in Running
  PROVE  HoldsRunning(w)
<1>1. task[w] \in Jobs
  BY DEF QueueInv, TypeOK
<1>2. owner[task[w]] = w
  BY <1>1, OwnerStep, JobQueueAssumption DEF QueueInv
<1>3. status[task[w]] # "queued"
  BY <1>1, <1>2, JobQueueAssumption DEF QueueInv, UnclaimedRows
<1>4. Moved(status[task[w]], status'[task[w]])
  BY <1>1, StatusStep DEF QueueInv
<1> QED
  BY <1>2, <1>3, <1>4 DEF Moved, Running, Terminal, HoldsRunning

Written == {"saved", "replacing", "chunked"}

(* How far a run has come with its input grows by its own steps, and its   *)
(* job is the one it began with.                                           *)
SlotGoesOn(w) ==
  /\ step'[w] # "start" => phase'[w] = "running"
  /\ phase'[w] # "idle" => \/ phase[w] # "idle" /\ task'[w] = task[w]
                           \/ status'[task'[w]] # "none"
  /\ step'[w] \in Written =>
       /\ phase[w] = "running" /\ task'[w] = task[w]
       /\ step[w] \in Written \/ SaveExtracted(w)

LEMMA SlotsGoOn ==
  LifecycleTypeOK /\ StepsOfRuns /\ [LifecycleNext]_allVars => \A w \in Workers : SlotGoesOn(w)
<1> SUFFICES ASSUME LifecycleTypeOK, StepsOfRuns, [LifecycleNext]_allVars, NEW v \in Workers
             PROVE  SlotGoesOn(v)
  OBVIOUS
<1>0. /\ phase \in [Workers -> Phases] /\ task \in [Workers -> Jobs \cup {NoJob}]
      /\ budget \in [Workers -> 0 .. JobTicks] /\ step \in [Workers -> Steps]
      /\ status \in [Jobs -> Statuses]
  BY DEF LifecycleTypeOK, TypeOK
<1>1. step[v] # "start" => phase[v] = "running"
  BY DEF StepsOfRuns
<1>2. ASSUME phase'[v] = phase[v], task'[v] = task[v], budget'[v] = budget[v], step'[v] = step[v]
      PROVE  SlotGoesOn(v)
  BY <1>1, <1>2 DEF SlotGoesOn, Written
<1>3. ASSUME UNCHANGED workerVars, step' = step PROVE SlotGoesOn(v)
  BY <1>2, <1>3 DEF workerVars
<1>4. ASSUME NEW d \in Docs,
             UploadNext(d) \/ CleanDocument(d) \/ RemovalNext(d) \/ DeleteDocument(d) \/ DeletionFails(d)
      PROVE  SlotGoesOn(v)
  BY <1>3, <1>4
  DEF UploadNext, WriteUpload, InsertDocument, RejectUpload, AbandonUpload, LoseUpload, CleanDocument,
      RemovalNext, RemoveFile, ConfirmRemoved, DropRemoval, DeleteDocument, DeleteJobs, DeletionFails, vars
<1>5. ASSUME NEW j \in Jobs, AnalysisNext(j) \/ ExpireOldReport(j) PROVE SlotGoesOn(v)
  BY <1>3, <1>5
  DEF AnalysisNext, CreateAnalysis, Create, RetryAnalysis, Retry, CancelQueuedAnalysis, CancelQueued,
      CancelRunningAnalysis, RequestCancellation, CancelAgain, DeleteAnalysis, DeleteJobs, DeleteReport,
      ExpireReport, ExpireOldReport, vars
<1>6. ASSUME RecoverJobs \/ FinishCancelledJobs \/ PurgeCancelledChunks \/ UNCHANGED allVars
      PROVE  SlotGoesOn(v)
  BY <1>3, <1>6
  DEF RecoverJobs, RequeueLapsed, FailTimedOut, FinishCancelledJobs, FinishCancellations,
      PurgeCancelledChunks, allVars, vars
<1>7. CASE LifecycleTick
  <2>1. phase' = phase /\ task' = task /\ step' = step /\ budget'[v] = Down(budget[v])
    BY <1>7 DEF LifecycleTick, Tick
  <2> QED
    BY <1>1, <1>7, <2>1 DEF SlotGoesOn, Written
<1>8. ASSUME NEW w \in Workers, SlotNext(w), w # v PROVE SlotGoesOn(v)
  <2>1. CASE QueueStep(w)
    <3>1. phase'[v] = phase[v] /\ task'[v] = task[v] /\ budget'[v] = budget[v]
      BY <1>0, <1>8, <2>1
      DEF QueueStep, ClaimJob, ExpireQueued, Start, MarkVerifying, RefreshLease, SeeLeaseGranted, LoseLease,
          SeeCancellation, Fail, Timeout, Return, CheckCancelled, MarkFailed, GiveUp, Crash, Enter, Release,
          workerVars
    <3>2. step'[v] = step[v]
      BY <1>0, <1>8, <2>1 DEF QueueStep, KeepStep
    <3> QED
      BY <1>2, <3>1, <3>2
  <2>2. CASE ~QueueStep(w)
    BY <1>0, <1>2, <1>8, <2>2
    DEF SlotNext, ExtractText, SaveExtracted, BeginReplaceChunks, CommitReplaceChunks, ReportProgress,
        Heartbeat, SeeLeaseGranted, PublishReport, SaveReport, FinalizeCancelledAnalysis, FinalizeCancelled,
        AtStep, KeepStep, Enter, Release, vars, workerVars
  <2> QED
    BY <2>1, <2>2
<1>9. CASE QueueStep(v)
  <2>1. step'[v] = IF phase'[v] = "running" THEN step[v] ELSE "start"
    BY <1>0, <1>9 DEF QueueStep, KeepStep
  <2>2. CASE ClaimJob(v)
    <3>1. phase[v] = "idle" /\ \/ UNCHANGED workerVars
                               \/ phase'[v] = "claimed" /\ status'[task'[v]] # "none"
      BY <1>0, <2>2 DEF ClaimJob, Claimable
    <3> QED
      BY <1>1, <2>1, <3>1 DEF SlotGoesOn, Written, workerVars
  <2>3. CASE Start(v)
    <3>1. phase[v] = "claimed" /\ phase'[v] # "idle" /\ task' = task
      BY <1>0, <2>3 DEF Start, Enter
    <3> QED
      BY <1>1, <2>1, <3>1 DEF SlotGoesOn, Written
  <2>4. CASE ~ClaimJob(v) /\ ~Start(v)
    <3>1. \/ phase'[v] = phase[v] /\ task'[v] = task[v] /\ budget'[v] = budget[v]
          \/ phase[v] # "idle" /\ phase'[v] # "running" /\ (phase'[v] = "idle" \/ task'[v] = task[v])
      BY <1>0, <1>9, <2>4
      DEF QueueStep, ExpireQueued, MarkVerifying, RefreshLease, SeeLeaseGranted, LoseLease,
          SeeCancellation, Fail, Timeout, Return, CheckCancelled, MarkFailed, GiveUp, Crash, Enter, Release,
          workerVars
    <3> QED
      BY <1>1, <2>1, <3>1 DEF SlotGoesOn, Written
  <2> QED
    BY <2>2, <2>3, <2>4
<1>10. CASE SaveExtracted(v)
  <2>1. phase[v] = "running" /\ phase' = phase /\ task' = task /\ budget' = budget
    BY <1>10 DEF SaveExtracted, vars, workerVars
  <2> QED
    BY <1>10, <2>1 DEF SlotGoesOn
<1>11. CASE ExtractText(v) \/ BeginReplaceChunks(v) \/ CommitReplaceChunks(v)
  <2>1. phase[v] = "running" /\ phase' = phase /\ task' = task /\ budget' = budget
    BY <1>11 DEF ExtractText, BeginReplaceChunks, CommitReplaceChunks, vars, workerVars
  <2>2. \/ step'[v] = "extracted"
        \/ step'[v] = "replacing" /\ step[v] = "saved"
        \/ step'[v] = "chunked" /\ step[v] = "replacing"
    BY <1>0, <1>11 DEF ExtractText, BeginReplaceChunks, CommitReplaceChunks, AtStep
  <2> QED
    BY <2>1, <2>2 DEF SlotGoesOn, Written
<1>12. CASE ReportProgress(v)
  BY <1>2, <1>12 DEF ReportProgress, Heartbeat, SeeLeaseGranted
<1>13. CASE PublishReport(v) \/ FinalizeCancelledAnalysis(v)
  <2>1. phase'[v] # "running" /\ (phase'[v] = "idle" \/ (phase[v] # "idle" /\ task'[v] = task[v]))
    BY <1>0, <1>13 DEF PublishReport, SaveReport, FinalizeCancelledAnalysis, FinalizeCancelled, Enter, Release
  <2>2. step'[v] = "start"
    BY <1>0, <1>13, <2>1 DEF PublishReport, FinalizeCancelledAnalysis, KeepStep
  <2> QED
    BY <2>1, <2>2 DEF SlotGoesOn, Written
<1> QED
  BY <1>4, <1>5, <1>6, <1>7, <1>8, <1>9, <1>10, <1>11, <1>12, <1>13 DEF LifecycleNext, SlotNext

LEMMA SlotStep ==
  LifecycleInv /\ LifecycleTypeOK' /\ [LifecycleNext]_allVars => SlotInv'
<1> SUFFICES ASSUME LifecycleInv, LifecycleTypeOK', [LifecycleNext]_allVars PROVE SlotInv'
  OBVIOUS
<1> USE LifecycleAssumption, JobQueueAssumption
<1>0. /\ LifecycleTypeOK /\ TypeOK /\ TypeOK' /\ QueueInv /\ StepsOfRuns /\ SavedTextStays
      /\ [Next]_vars /\ BodiesStay
  BY StepIsQueueStep, KeptStep DEF LifecycleInv, LifecycleTypeOK, SlotInv
<1>1. ASSUME NEW w \in Workers
      PROVE  /\ SlotGoesOn(w)
             /\ phase[w] # "idle" => /\ task[w] \in Jobs /\ DocOf[task[w]] \in Docs
                                     /\ Moved(status[task[w]], status'[task[w]])
                                     /\ status[task[w]] # "none"
  BY <1>0, SlotsGoOn, StatusStep DEF TypeOK, QueueInv, StepsOfRuns
<1>2. StepsOfRuns'
  BY <1>0, <1>1 DEF StepsOfRuns, SlotGoesOn, Moved, Running, Terminal
<1>3. SavedTextStays'
  <2> SUFFICES ASSUME NEW w \in Workers, step'[w] \in Written,
                      owner'[task'[w]] = w, status'[task'[w]] \in Running
               PROVE  text'[DocOf[task'[w]]]
    BY DEF SavedTextStays, HoldsRunning, Doc, Written
  <2>1. phase[w] = "running" /\ task'[w] = task[w] /\ (step[w] \in Written \/ SaveExtracted(w))
    BY <1>1 DEF SlotGoesOn
  <2>2. HoldsRunning(w)
    BY <1>0, <2>1, HeldBefore
  <2>3. CASE SaveExtracted(w)
    BY <1>0, <1>1, <2>1, <2>3 DEF SaveExtracted, LifecycleTypeOK, Doc
  <2>4. CASE step[w] \in Written
    <3>1. text[DocOf[task[w]]]
      BY <1>0, <2>2, <2>4 DEF SavedTextStays, Written, Doc
    <3>2. task[w] \in PendingJobs(DocOf[task[w]]) /\ status'[task[w]] \notin Terminal
      BY <1>1, <2>1, <2>2 DEF HoldsRunning, PendingJobs, JobsOf, Running, Terminal
    <3> QED
      BY <1>0, <1>1, <2>1, <3>1, <3>2 DEF BodiesStay
  <2> QED
    BY <2>1, <2>3, <2>4
<1> QED
  BY <1>2, <1>3 DEF SlotInv

-----------------------------------------------------------------------------
(* The theorems                                                            *)

(* LifecycleInv is inductive.                                              *)
THEOREM LifecycleInvariant == LifecycleSpec => []LifecycleInv
<1>1. LifecycleInit => LifecycleInv
  BY LifecycleInvInit
<1>2. LifecycleInv /\ QueueInv' /\ [LifecycleNext]_allVars => LifecycleInv'
  <2> SUFFICES ASSUME LifecycleInv, QueueInv', [LifecycleNext]_allVars PROVE LifecycleInv'
    OBVIOUS
  <2>1. LifecycleTypeOK'
    BY LifecycleTypesStep DEF LifecycleInv, QueueInv
  <2> QED
    BY <2>1, DataStep, SlotStep DEF LifecycleInv
<1>3. LifecycleSpec => []QueueInv
  BY LifecycleImplementsQueue, QueueInvariant, PTL
<1> QED
  BY <1>1, <1>2, <1>3, PTL DEF LifecycleSpec

(* The types of all variables.                                             *)
THEOREM LifecycleTypeCorrect == LifecycleSpec => []LifecycleTypeOK
<1>1. LifecycleInv => LifecycleTypeOK
  BY DEF LifecycleInv
<1> QED
  BY <1>1, LifecycleInvariant, PTL

(* A queued, running or cancelling job keeps its document row, its path    *)
(* and its file, whatever removals are under way.                          *)
THEOREM PendingInputs == LifecycleSpec => []PendingInputStays
<1>1. LifecycleInv => PendingInputStays
  <2> SUFFICES ASSUME LifecycleInv, NEW d \in Docs, NEW j \in PendingJobs(d)
               PROVE  document[d] = "stored" /\ path[d] /\ (file[d] \/ d \in missing)
    BY DEF PendingInputStays
  <2>1. j \in Jobs /\ DocOf[j] = d /\ status[j] \in Pending /\ status[j] \notin Gone
    BY DEF PendingJobs, JobsOf, Pending, Gone, LifecycleInv, LifecycleTypeOK, TypeOK
  <2> QED
    BY <2>1 DEF LifecycleInv, DataInv, InputPresent, OneJobPerDocument
<1> QED
  BY <1>1, LifecycleInvariant, PTL

(* A report that can be read has its source text.                          *)
THEOREM ReportsKeepSources == LifecycleSpec => []ReportKeepsItsSource
<1>1. LifecycleInv => ReportKeepsItsSource
  BY DEF LifecycleInv, DataInv, ReportsComplete, ReportKeepsItsSource
<1> QED
  BY <1>1, LifecycleInvariant, PTL

(* Whatever holds the user's text has an event that erases it, except for  *)
(* the bodies a stale slot wrote after the end of its job.                 *)
THEOREM NothingIsForgotten == LifecycleSpec => []NothingForgotten
<1>1. LifecycleInv => NothingForgotten
  BY DEF LifecycleInv, DataInv, InputPresent, NothingLeft, NothingForgotten
<1> QED
  BY <1>1, LifecycleInvariant, PTL

(* Cleanup, recovery and removals leave pending jobs their text and bodies. *)
THEOREM PendingBodies == LifecycleSpec => PendingBodyUntouched
<1>1. LifecycleInv /\ [LifecycleNext]_allVars => BodiesStay
  BY KeptStep
<1> QED
  BY <1>1, LifecycleInvariant, PTL DEF LifecycleSpec, PendingBodyUntouched, BodiesStay
=============================================================================

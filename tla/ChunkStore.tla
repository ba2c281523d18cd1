----------------------------- MODULE ChunkStore -----------------------------
(***************************************************************************)
(* The text blocks (chunks) of one analysis job: how workers cut the text, *)
(* store each block's model outputs, and reuse them after a failure, a     *)
(* lost worker or a retry.  worker.rs process_job and analyze_chunk, with  *)
(* the statements of db.rs they run.                                       *)
(*                                                                         *)
(* The job row keeps only what fences a worker: "running" stands for the   *)
(* five running states, ownership may be lost at any time (JobQueue says   *)
(* when the lease allows it).  A worker that lost the job goes on until a  *)
(* statement guarded by Owns refuses it: the error ends process_job (Stop). *)
(***************************************************************************)
EXTENDS Integers, Sequences, FiniteSets

CONSTANTS
  Workers,        \* worker slots; every process start draws fresh slot ids
  NoWorker,
  Releases,       \* the program versions, 1..n, run one after another
  Plan(_),        \* Plan(r): the texts of the chunks version r cuts
  PerJob,         \* per_job_chunk_concurrency
  MaxClaims       \* bound: how often the job is claimed

ASSUME NoWorkerAssumption  == NoWorker \notin Workers
ASSUME ReleaseAssumption   == 1 \in Releases /\ Releases \subseteq Nat
ASSUME ClaimsAssumption    == MaxClaims \in Nat

VARIABLES
  release,        \* the version the workers run
  job,            \* the analysis_jobs row: state, worker_id, progress
  row,            \* the analysis_chunks rows, by chunk_index
  billed,         \* model_usage rows: which pass over which text was paid
  pc,             \* where each worker is in process_job
  seen,           \* what replace_chunks read of every row
  task,           \* the chunk futures of the worker
  results,        \* all_issues: the chunks whose issues were collected
  report,         \* the chunks the saved report was built from
  claims

vars == <<release, job, row, billed, pc, seen, task, results, report, claims>>
local == <<pc, seen, task, results>>

Indices   == UNION {1 .. Len(Plan(r)) : r \in Releases}
Texts     == UNION {{Plan(r)[i] : i \in 1 .. Len(Plan(r))} : r \in Releases}
Passes    == {"candidate", "verification"}

(* A plan is a sequence of texts, and no version cuts infinitely many.     *)
ASSUME PlanAssumption == IsFiniteSet(Indices) /\ \A r \in Releases : Plan(r) \in Seq(Texts)

Absent    == [state |-> "absent"]
NoOutput  == [none |-> TRUE]
Output    == [text : Texts, release : Releases, verified : BOOLEAN]
Row       == [state : {"pending", "analyzing", "verifying", "completed", "failed"},
              text : Texts, out : Output \cup {NoOutput}]

Own       == Plan(release)                 \* what the running version cuts
OwnIndex  == 1 .. Len(Own)
NoTask    == [i \in Indices |-> "none"]
Unread    == [i \in Indices |-> "unread"]
NoReport  == {<<0, "none">>}

(* The types.  The progress the API shows never exceeds the number of      *)
(* chunks, also after the text was cut into fewer chunks than before.      *)
ChunkTypeOK ==
  /\ release \in Releases
  /\ job \in [state : {"queued", "running", "cancel_requested", "failed", "completed"},
              owner : Workers \cup {NoWorker},
              completed : 0 .. Cardinality(Indices), total : 0 .. Cardinality(Indices)]
  /\ job.state = "running" => job.completed <= job.total
  /\ row \in [Indices -> Row \cup {Absent}]
  /\ billed \subseteq Texts \X Passes
  /\ pc \in [Workers -> {"idle", "check", "read", "write", "load",
                         "run", "merge"}]
  /\ seen \in [Workers -> [Indices -> {"unread", "absent", "reusable", "other"}]]
  /\ task \in [Workers -> [Indices -> {"none", "todo", "analyzing", "clean", "found",
                                       "verifying", "verified", "done", "failing",
                                       "failed", "collected"}]]
  /\ results \in [Workers -> SUBSET (Indices \X Texts)]
  /\ report \in {NoReport} \cup SUBSET (Indices \X Texts)
  /\ claims \in 0 .. MaxClaims

Init ==
  /\ release = 1
  /\ job = [state |-> "queued", owner |-> NoWorker, completed |-> 0, total |-> 0]
  /\ row = [i \in Indices |-> Absent]
  /\ billed = {}
  /\ pc = [w \in Workers |-> "idle"]
  /\ seen = [w \in Workers |-> Unread]
  /\ task = [w \in Workers |-> NoTask]
  /\ results = [w \in Workers |-> {}]
  /\ report = NoReport
  /\ claims = 0

Owns(w) == job.state = "running" /\ job.owner = w

Go(w, next) == pc' = [pc EXCEPT ![w] = next]

(* The futures of a process_job that returned or was dropped are gone.     *)
Leave(w) ==
  /\ pc' = [pc EXCEPT ![w] = "idle"]
  /\ seen' = [seen EXCEPT ![w] = Unread]
  /\ task' = [task EXCEPT ![w] = NoTask]
  /\ results' = [results EXCEPT ![w] = {}]
-----------------------------------------------------------------------------
(* The queue's side: claim, loss of the lease, the user's retry and cancel. *)

Claim(w) ==
  /\ pc[w] = "idle" /\ job.state = "queued" /\ claims < MaxClaims
  /\ job' = [job EXCEPT !.state = "running", !.owner = w]
  /\ claims' = claims + 1
  /\ Go(w, "check")
  /\ UNCHANGED <<release, row, billed, seen, task, results, report>>

(* recover_expired_leases gives the job back to the queue.                 *)
LoseLease ==
  /\ job.state = "running"
  /\ job' = [job EXCEPT !.state = "queued", !.owner = NoWorker]
  /\ UNCHANGED <<release, row, billed, report, claims, local>>

(* The worker crashes, is told to stop, or gets an error it cannot store.  *)
Stop(w) ==
  /\ pc[w] # "idle"
  /\ Leave(w)
  /\ UNCHANGED <<release, job, row, billed, report, claims>>

(***************************************************************************)
(* An error of a step, or the first error of a chunk's future: the loop is *)
(* left, the other futures are dropped where they are, and mark_failed     *)
(* ends the job of the worker that still owns it.                          *)
(***************************************************************************)
JobError(w) ==
  /\ pc[w] # "idle" /\ Owns(w)
  /\ Leave(w)
  /\ job' = [job EXCEPT !.state = "failed"]
  /\ UNCHANGED <<release, row, billed, report, claims>>

Retry ==
  /\ job.state = "failed"
  /\ job' = [job EXCEPT !.state = "queued", !.owner = NoWorker, !.completed = 0]
  /\ UNCHANGED <<release, row, billed, report, claims, local>>

CancelRequest ==
  /\ job.state = "running"
  /\ job' = [job EXCEPT !.state = "cancel_requested"]
  /\ UNCHANGED <<release, row, billed, report, claims, local>>

(* The workers are stopped and started again with the next version.        *)
Upgrade ==
  /\ release + 1 \in Releases
  /\ release' = release + 1
  /\ pc' = [w \in Workers |-> "idle"]
  /\ seen' = [w \in Workers |-> Unread]
  /\ task' = [w \in Workers |-> NoTask]
  /\ results' = [w \in Workers |-> {}]
  /\ UNCHANGED <<job, row, billed, report, claims>>
-----------------------------------------------------------------------------
(* process_job up to the stored plan                                       *)

(***************************************************************************)
(* set_job_configuration and save_extracted_document are guarded by the    *)
(* owner; then replace_chunks reads the ownership once, without a lock on  *)
(* the job row.                                                            *)
(***************************************************************************)
ReplaceCheck(w) ==
  /\ pc[w] = "check" /\ Owns(w)
  /\ Go(w, "read")
  /\ UNCHANGED <<release, job, row, billed, seen, task, results, report, claims>>

Reusable(i) ==
  /\ row[i] # Absent
  /\ row[i].state = "completed" /\ row[i].out # NoOutput

(* Variant for StoredWorkIsKept: stored outputs are never recognised.      *)
ReplaceReadBlind(w) ==
  /\ pc[w] = "read"
  /\ seen' = [seen EXCEPT ![w] = [i \in Indices |->
                IF row[i] = Absent THEN "absent" ELSE "other"]]
  /\ Go(w, "write")
  /\ UNCHANGED <<release, job, row, billed, task, results, report, claims>>

(* The SELECT of every row of the plan, before the row is written.         *)
ReplaceRead(w) ==
  /\ pc[w] = "read"
  /\ seen' = [seen EXCEPT ![w] = [i \in Indices |->
                CASE row[i] = Absent -> "absent"
                  [] i \in OwnIndex /\ Reusable(i) /\ row[i].text = Own[i] -> "reusable"
                  [] OTHER -> "other"]]
  /\ Go(w, "write")
  /\ UNCHANGED <<release, job, row, billed, task, results, report, claims>>

(* Variant for OutputsMatchText: the new text keeps the old outputs.       *)
ReplacedInPlace(w) == [i \in Indices |->
  CASE i \notin OwnIndex -> Absent
    [] i \in OwnIndex /\ row[i] # Absent -> [row[i] EXCEPT !.text = Own[i]]
    [] OTHER -> [state |-> "pending", text |-> Own[i], out |-> NoOutput]]

(* DELETE of the rows past the plan, INSERT or reset of the others.        *)
Replaced(w) == [i \in Indices |->
  CASE i \notin OwnIndex -> Absent
    [] i \in OwnIndex /\ seen[w][i] = "reusable" -> row[i]
    [] i \in OwnIndex /\ seen[w][i] = "other" /\ row[i] = Absent -> Absent
    [] OTHER -> [state |-> "pending", text |-> Own[i], out |-> NoOutput]]

Completed(rows) == Cardinality({i \in Indices : rows[i].state = "completed"})

(* The transaction commits; an INSERT of a row that appeared since fails.  *)
ReplaceWrite(w) ==
  /\ pc[w] = "write"
  /\ \A i \in OwnIndex : seen[w][i] = "absent" => row[i] = Absent
  /\ row' = Replaced(w)
  /\ job' = IF job.owner = w
              THEN [job EXCEPT !.total = Len(Own), !.completed = Completed(row')]
              ELSE job
  /\ seen' = [seen EXCEPT ![w] = Unread]
  /\ Go(w, "load")
  /\ UNCHANGED <<release, billed, task, results, report, claims>>

(* Variant for ReportFromWholeText: an unreadable output is not run again. *)
LoadSkippingDamaged(w) ==
  /\ pc[w] = "load" /\ Owns(w)
  /\ \E unreadable \in SUBSET {i \in OwnIndex : Reusable(i) /\ row[i].out.release # release} :
       LET stored == {i \in OwnIndex : Reusable(i)}
       IN /\ results' = [results EXCEPT ![w] =
                           {<<i, row[i].out.text>> : i \in stored \ unreadable}]
          /\ task' = [task EXCEPT ![w] = [i \in Indices |->
                        IF i \in OwnIndex \ stored THEN "todo" ELSE "none"]]
          /\ job' = [job EXCEPT !.completed = Cardinality(stored)]
  /\ Go(w, "run")
  /\ UNCHANGED <<release, row, billed, seen, report, claims>>

(* Variant for PaidOnlyWhenNeeded: every chunk is analysed again.          *)
LoadNothing(w) ==
  /\ pc[w] = "load" /\ Owns(w)
  /\ task' = [task EXCEPT ![w] = [i \in Indices |->
                 IF i \in OwnIndex THEN "todo" ELSE "none"]]
  /\ job' = [job EXCEPT !.completed = 0]
  /\ Go(w, "run")
  /\ UNCHANGED <<release, row, billed, seen, results, report, claims>>

(***************************************************************************)
(* load_reusable_chunk_outputs: a stored output that this version can read *)
(* yields its issues at once, any other chunk is to be analysed.  Only the *)
(* outputs of an earlier version may be unreadable.  The heartbeat that    *)
(* follows refuses a worker that lost the job.                             *)
(***************************************************************************)
Load(w) ==
  /\ pc[w] = "load" /\ Owns(w)
  /\ \E unreadable \in SUBSET {i \in OwnIndex : Reusable(i) /\ row[i].out.release # release} :
       LET reused == {i \in OwnIndex : Reusable(i)} \ unreadable
       IN /\ results' = [results EXCEPT ![w] = {<<i, row[i].out.text>> : i \in reused}]
          /\ task' = [task EXCEPT ![w] = [i \in Indices |->
                        IF i \in OwnIndex \ reused THEN "todo" ELSE "none"]]
          /\ job' = [job EXCEPT !.completed = Cardinality(reused)]
  /\ Go(w, "run")
  /\ UNCHANGED <<release, row, billed, seen, report, claims>>
-----------------------------------------------------------------------------
(* analyze_chunk, for at most PerJob chunks of the job at a time           *)

Busy(w) == {i \in Indices : task[w][i] \notin {"none", "todo", "collected"}}

TaskGo(w, i, next) == task' = [task EXCEPT ![w][i] = next]

(* check_cancel and mark_chunk_analyzing.                                  *)
BeginChunk(w, i) ==
  /\ pc[w] = "run" /\ task[w][i] = "todo" /\ Cardinality(Busy(w)) < PerJob
  /\ Owns(w)
  /\ row' = [row EXCEPT ![i].state = "analyzing"]
  /\ TaskGo(w, i, "analyzing")
  /\ UNCHANGED <<release, job, billed, pc, seen, results, report, claims>>

Bill(w, i, pass) == billed' = billed \cup {<<Own[i], pass>>}

(***************************************************************************)
(* The candidate call and its record_usage: no locatable candidates        *)
(* ("clean"), some ("found"), or an error of the model or the database.    *)
(***************************************************************************)
CallCandidates(w, i) ==
  /\ pc[w] = "run" /\ task[w][i] = "analyzing"
  /\ \/ /\ \E answer \in {"clean", "found"} : TaskGo(w, i, answer)
        /\ Bill(w, i, "candidate")
     \/ /\ TaskGo(w, i, "failing")
        /\ billed' = billed
  /\ UNCHANGED <<release, job, row, pc, seen, results, report, claims>>

MarkVerifying(w, i) ==
  /\ pc[w] = "run" /\ task[w][i] = "found" /\ Owns(w)
  /\ row' = [row EXCEPT ![i].state = "verifying"]
  /\ TaskGo(w, i, "verifying")
  /\ UNCHANGED <<release, job, billed, pc, seen, results, report, claims>>

CallVerifier(w, i) ==
  /\ pc[w] = "run" /\ task[w][i] = "verifying"
  /\ \/ TaskGo(w, i, "verified") /\ Bill(w, i, "verification")
     \/ TaskGo(w, i, "failing") /\ billed' = billed
  /\ UNCHANGED <<release, job, row, pc, seen, results, report, claims>>

(* Both outputs are stored in one statement.                               *)
SaveOutputs(w, i) ==
  /\ pc[w] = "run" /\ task[w][i] \in {"clean", "verified"} /\ Owns(w)
  /\ row' = [row EXCEPT ![i].state = "completed",
                        ![i].out = [text |-> Own[i], release |-> release,
                                    verified |-> task[w][i] = "verified"]]
  /\ TaskGo(w, i, "done")
  /\ UNCHANGED <<release, job, billed, pc, seen, results, report, claims>>

(* mark_chunk_failed keeps the outputs; its own failure is only logged.    *)
MarkFailed(w, i) ==
  /\ pc[w] = "run" /\ task[w][i] = "failing"
  /\ row' \in {row} \cup (IF Owns(w) THEN {[row EXCEPT ![i].state = "failed"]} ELSE {})
  /\ TaskGo(w, i, "failed")
  /\ UNCHANGED <<release, job, billed, pc, seen, results, report, claims>>
-----------------------------------------------------------------------------
(* Collecting the results and saving the report                            *)

(* Variant for ChunkTypeOK: the heartbeat adds to the stored progress.     *)
CollectAdding(w, i) ==
  /\ pc[w] = "run" /\ task[w][i] = "done" /\ Owns(w)
  /\ results' = [results EXCEPT ![w] = @ \cup {<<i, Own[i]>>}]
  /\ TaskGo(w, i, "collected")
  /\ job' = [job EXCEPT !.completed = @ + Cardinality(results'[w])]
  /\ UNCHANGED <<release, row, billed, pc, seen, report, claims>>

(* A chunk's issues join the list; a heartbeat reports the progress.       *)
Collect(w, i) ==
  /\ pc[w] = "run" /\ task[w][i] = "done" /\ Owns(w)
  /\ results' = [results EXCEPT ![w] = @ \cup {<<i, Own[i]>>}]
  /\ TaskGo(w, i, "collected")
  /\ job' = [job EXCEPT !.completed = Cardinality(results'[w])]
  /\ UNCHANGED <<release, row, billed, pc, seen, report, claims>>

Merge(w) ==
  /\ pc[w] = "run" /\ Owns(w)
  /\ \A i \in Indices : task[w][i] \in {"none", "collected"}
  /\ Go(w, "merge")
  /\ UNCHANGED <<release, job, row, billed, seen, task, results, report, claims>>

(* The report transaction completes the job and clears the chunks.         *)
SaveReport(w) ==
  /\ pc[w] = "merge" /\ Owns(w)
  /\ report' = results[w]
  /\ job' = [job EXCEPT !.state = "completed"]
  /\ row' = [i \in Indices |->
               IF row[i] = Absent THEN Absent ELSE [row[i] EXCEPT !.out = NoOutput]]
  /\ Leave(w)
  /\ UNCHANGED <<release, billed, claims>>

Next ==
  \/ LoseLease \/ Retry \/ CancelRequest \/ Upgrade
  \/ \E w \in Workers :
       \/ Claim(w) \/ Stop(w) \/ JobError(w)
       \/ ReplaceCheck(w) \/ ReplaceRead(w) \/ ReplaceWrite(w) \/ Load(w)
       \/ Merge(w) \/ SaveReport(w)
       \/ \E i \in Indices :
            \/ BeginChunk(w, i) \/ CallCandidates(w, i) \/ MarkVerifying(w, i)
            \/ CallVerifier(w, i) \/ SaveOutputs(w, i) \/ MarkFailed(w, i)
            \/ Collect(w, i)

Spec == Init /\ [][Next]_vars
-----------------------------------------------------------------------------
(* Stored outputs were computed from the text stored beside them, whatever *)
(* workers, retries and upgrades wrote the row, and every pass they come   *)
(* from is in model_usage: a reused result is never an unbilled one.       *)
OutputsMatchText ==
  \A i \in Indices : Reusable(i) =>
    /\ row[i].out.text = row[i].text
    /\ <<row[i].text, "candidate">> \in billed
    /\ row[i].out.verified => <<row[i].text, "verification">> \in billed

(* The report of a completed job is built from every chunk of one version's *)
(* plan, reused or fresh, each with the result for its own text.           *)
ReportFromWholeText ==
  job.state = "completed" =>
    \E r \in Releases : report = {<<i, Plan(r)[i]>> : i \in 1 .. Len(Plan(r))}

(* A worker pays for no chunk whose output is stored and can be read: a    *)
(* retry runs only failed, unfinished or damaged chunks.                   *)
PaidOnlyWhenNeeded ==
  [][\A w \in Workers, i \in Indices :
       (task[w][i] = "todo" /\ task'[w][i] = "analyzing" /\ Reusable(i))
          => row[i].out.release # release]_vars

(* A stored result for the text of the running version is discarded only   *)
(* when the job completes, when it cannot be read, or by the writes of     *)
(* replace_chunks of a worker that lost the job after its ownership check. *)
StoredWorkIsKept ==
  [][\A i \in OwnIndex :
       (Reusable(i) /\ row[i].text = Own[i] /\ ~Reusable(i)')
          => \/ job'.state = "completed"
             \/ row[i].out.release # release
             \/ \E w \in Workers : pc[w] = "write" /\ pc'[w] = "load" /\ ~Owns(w)]_vars

(* A worker that lost its lease no longer overwrites the results of the    *)
(* worker that took the job over (docs/architecture.md:21).                *)
OwnersResultsStay ==
  \A w \in Workers, i \in Indices :
     (Owns(w) /\ pc[w] = "run" /\ task[w][i] \in {"done", "collected"})
        => Reusable(i) /\ row[i].text = Own[i]
=============================================================================

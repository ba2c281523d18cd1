# TextComb: specifications in TLA+

TextComb analyses documents with language models. An HTTP API (`apps/textcomb-api`)
stores uploads and queues analysis jobs in PostgreSQL; worker processes
(`apps/textcomb-worker`, logic in `crates/textcomb-core`) claim jobs, extract the
text, send its chunks to model providers, verify the candidate issues and publish a
report. There is no broker and no lock service: rows, conditional `UPDATE`s and
leases carry the coordination, and files live outside the transactions.

These specifications model that coordination (who owns a job, how it ends, what
becomes of the text the user uploaded, how requests, logins and model calls overlap)
and the pipeline that turns a file into a report (how it is read, cut, quoted by
models that answer freely, graded and merged). Paths below are relative to the
repository; `db.rs`, `worker.rs`, `provider.rs`, `auth.rs`, `model_limits.rs`,
`analysis/mod.rs` and `documents/` are in `crates/textcomb-core/src/`; `analyses.rs`,
`documents.rs`, `deletion.rs`, `models.rs` and `admin.rs` in `apps/textcomb-api/src/api/`.

## 1. Inventory

| Component | State it keeps | Operations | What is hard | What makes it correct | Modelled in |
|---|---|---|---|---|---|
| **Job queue** (`db.rs`, `analyses.rs`, table `analysis_jobs`) | `status`, `worker_id`, `lease_until`, `timeout_at` | create, retry, cancel, claim, heartbeat, renew, complete, fail, recover | slots that stall or die between any two statements, answers of a COMMIT that get lost, three parties that may end one job | one owner per lease; a late statement changes nothing; a deadline is never extended; every job ends; a cancellation wins | `JobQueue` |
| **Worker slots** (`worker.rs`) | the claimed job, its time budget, `lease_lost`, the stop tokens | `process_claimed` with its heartbeat task and timeout, `process_job`, `recovery_loop` | the heartbeat runs beside the work; status is read in one statement and used in a later one | stop when the lease is lost; leave exactly one outcome | `JobQueue`, `InputLifecycle`, `ChunkStore` |
| **Document and report lifecycle** (`db.rs`, `documents.rs`, `deletion.rs`, `storage.rs`) | the file in `uploads/`, `documents`, `analysis_chunks`, `reports` | upload, extract, replace chunks, publish, cancel, clean up, delete, remove the file | file system and database cannot commit together; cleanup reads candidates before it locks them | a pending job keeps its input, a report its source; whatever holds the user's text has an event that erases it | `InputLifecycle` |
| **Model call limits** (`model_limits.rs`) | `in_flight` and waiters per profile, the global semaphore, `max_concurrency` in the database | acquire, recheck, start, reject, cancel, drop | the limit changes under waiting calls; a notification may come before the sleep | no permit lost or doubled; no release missed; a lowered limit drains first; nobody blocks for ever | `ProfileLimit` |
| **Chunk pipeline** (`worker.rs`, `db.rs`) | chunk rows with their outputs, usage rows, progress | plan, reuse, concurrent chunk tasks, save, report | one task fails while others are in flight; takeovers; a version that cuts or reads differently | outputs are reused only for their text; nothing stored is paid for twice; the report covers the whole text | `ChunkStore` |
| **Idempotent creation** (`analyses.rs`, `db.rs`) | jobs with their key and snapshot, the pool of connections | `create`, `freeze`, `set_job_configuration` | two requests with one key or one document; a profile edited meanwhile; answers that get lost | one job per document and key; one configuration per job; no call waits for ever | `AnalysisRequests` |
| **Document extraction** (`documents/`) | none | decode, collect paragraphs and pages, number lines, locate | blank lines, page borders, deleted text, hidden text | nothing a reader sees is left out; positions lead back | `SourceText` |
| **Analysis algorithms** (`analysis/mod.rs`) | none | paragraphs, chunks, locating quotes, grading, narrowing, merging | borders, overlaps, repeated quotes, protected spans | every character in one core; no issue lost, doubled or misplaced | `TextAnalysis`, `AnalysisPipeline` |
| **Model providers** (`provider.rs`) | none | call, retry, accept, one JSON repair, validate | which failures are retried how often; half answers | bounded number of paid calls; only whole answers count | `ModelCall` |
| **Authentication, sessions** (`auth.rs`, `session.rs`, `admin.rs`, command line) | `users`, `sessions`, `login_attempts`, `audit_events` | login, logout, disable, reset, bootstrap, cleanup | statements of two requests interleave | no session outlives what revoked it; failures stay bounded | `Sessions` |
| **Model profile administration** (`models.rs`) | `model_profiles` | edit, enable, disable | jobs and calls use the profile meanwhile | frozen jobs do not notice | in part: `AnalysisRequests`, `ProfileLimit` |
| **Reports, feedback, history, metrics, configuration, web, tools** | single rows, files, none | queries, formatting, start-up | little interaction | | section 7 |

Interactions: the API writes `analysis_jobs` and `documents` while workers hold
leases on them; a worker's heartbeat task shares the lease with its work and tells
it through a token; recovery (every 30 s) and cleanup (hourly) of *every* worker
process act on everybody's rows; the code commits a transaction first and removes
the file afterwards; all chunk tasks of a process share the `ProfileLimit`s and the
semaphore; each of them makes the two calls of `ModelCall` and hands their answers to
the algorithms. `PROJECT.json` lists the hazards with their lines and the properties
that would notice them.

## 2. Modules

```
JobPromise       what the API promises of a job            (abstract)
   ^ implements
JobQueue         rows, slots, leases, recovery, clock      --- InputLifecycleProofs
   ^ extends
InputLifecycle   JobQueue + file, document, text, chunks, report  --- InputLifecycleProofs

ChunkStore       the chunks of one job across workers, retries, versions  --- ChunkStoreProofs
ProfileLimit     the gates in front of a model call        --- ProfileLimitProofs
ModelCall        the requests of one chunk's two passes    --- ModelCallProofs

SourceText       files to texts, positions in files        --- SourceTextProofs
   ^ extends
TextAnalysis     chunks, quotes, grades, merging           (operators)
   ^ extends
AnalysisPipeline a document read, cut, analysed, merged   --- AnalysisPipelineProofs

AnalysisRequests create calls, profiles, frozen configuration, connection pool
                                                          --- AnalysisRequestsProofs
Sessions         accounts, logins, sessions, operations    --- SessionsProofs

MCJobQueue, MCInputLifecycle, MCChunkStore, MCProfileLimit, MCModelCall,
MCAnalysisPipeline, MCAnalysisRequests, MCSessions: instances for TLC
```

The modules meet at the rows they share. `ChunkStore` and `AnalysisRequests` keep of
`JobQueue` that a worker may lose its job at any moment (`LoseLease`, `RequeueJob`);
`JobQueue` tells when the lease allows it. `ProfileLimit` admits what `ModelCall`
sends. `ChunkStore` treats the result of a chunk as a value; `AnalysisPipeline` says
how the values of all chunks become the report.

### JobPromise
One variable, `outcome`, and the set `Moves` of what may happen to a job as the API
shows it: a completed job never runs again, an accepted cancellation ends only in
`cancelled`, only a failed job is queued again. Its liveness: every accepted job
ends (`Ends`), every accepted cancellation takes effect (`CancelTakesEffect`).

### JobQueue
`status`, `owner`, `lease`, `deadline` are the columns `status`, `worker_id`,
`lease_until`, `timeout_at`. `phase`, `task`, `budget`, `lost` are the locals of one
slot's `process_claimed`: the part of the function it is in, the job, the ticks its
`time::timeout` has left, and the `lease_lost` token. `renewed` is a history variable:
the ticks left of the lease the slot last *saw* granted, which is what a slot may
rely on, since a renewal whose answer was lost does not count.

Each action that touches a row is one SQL statement or transaction. Their `WHERE`
clauses are the guards, so an action of a slot that lost its job finds nothing to
update. The clock counts down: `lease[j] = 0` is `lease_until < now()`. A slot
that stalls simply takes no step while `Tick` does. The outcomes of
`process_claimed` are modelled in the order of the code: lease lost, success, error
(is it a cancellation? else `mark_failed`), timeout; each statement may fail
(`GiveUp`), the process may die anywhere (`Crash`), and `save_report` may commit and
lose its answer (`SaveReport` into `errored`).

### InputLifecycle
Composes `JobQueue` with the data: every transaction is the `JobQueue` action on the
row conjoined with what the same transaction does to `documents`, `analysis_chunks`
and `reports`, and with the file removal that its caller starts afterwards. Removal and
its confirmation are steps of their own (`RemoveFile`, `ConfirmRemoved`) that a crash or
an error drops (`DropRemoval`). `replace_chunks` is two steps, because it checks
ownership in one statement without a lock and writes in later ones. `missing` is a
history variable that names the documents whose file an API request removed before
its transaction failed (`DeletionFails`) or whose `INSERT` lost its answer
(`LoseUpload`): the code neither restores nor marks them, so `PendingInputStays`
excepts exactly these. `stale` names the jobs into which a slot that had lost them wrote
chunks after they had ended with an input that was due (section 6): `NothingForgotten`
excepts the bodies of this one write, and asks of all others that a completed or expired
job has none and that the rest have a cancellation or an expiry time.

### ProfileLimit
One worker process. `in_flight` and the registered waiters are the fields of
`ProfileLimit`, `free` and `line` the tokio semaphore, which serves first come first
served, `maximum` the column users change. A call's place in `acquire` and
`acquire_for_call` is `at[c]`; steps lie between await points and atomic operations,
so a release may fall between the failed `fetch_update` (`"full"`) and the sleep
(`"waiting"`), and between the decrement and the notification of a drop (`"leaving"`,
`"notifying"`). Every await is a place where the stop token may end the call.
The limits are per worker process by design (`docs/architecture.md:38`).

### ChunkStore
The job row as far as it fences a worker, the `analysis_chunks` and `model_usage` rows,
and for each worker its place in `process_job` (`pc`), what `replace_chunks` read of each
row (`seen`), the chunk futures (`task`) and the collected results. `replace_chunks` is
three kinds of steps (ownership check, one read per row, the writes), because none of
them locks what the previous one saw. Every other statement carries its owner guard. `Stop`
is the error a refused statement raises, `JobError` one failed chunk, which drops the
futures beside it. An `Upgrade` starts a version that may cut the text differently and may
not read older outputs. A model call is billed where it returns, before its output is
stored.

### AnalysisRequests
`create` statement by statement (`at`): key lookup, profile, snapshot, begin, lock of the
document row, existing jobs, insert with its two unique indexes, the second look after a
lost race, commit. A transaction holds a connection (`free`) and the lock on its document
(`lock`); a call outside a transaction needs a free connection for each statement. A call
may lose its answer before or after the commit (`LoseCall`) and be sent again; with a key it
is answered with the job of that key only if document, model profile and scenario are the
same (`SameRequest`). Workers claim rows, load the profile of a row without a snapshot, extend the prompts of an older
guidance version and store the result by `worker_id` (`SetConfiguration`).

### ModelCall
One chunk (or the connection test): the two passes, each a `post_with_retry` loop of three
attempts and at most one repair with three more. Bodies are records of what the three
protocols' acceptance looks at; the service may send any of them with any status, answer
late, or not at all. The operators `ExtractChat`, `ExtractResponses`, `ExtractAnthropic`
follow the order of the checks in `provider.rs`; texts are the pieces of a JSON object, so
that joining parts in the wrong way is seen. `located` names the candidates the first pass
located, in their order; `Remapped` gives the verifier's numbers back the places they stand for.

### SourceText, TextAnalysis, AnalysisPipeline
Operators for the pure code, on sequences of character numbers in which line breaks,
spaces and sentence marks are told apart. `SourceText` builds a text and its source map
(the page, line and paragraph at which each piece starts) from decoded characters, XML
events or page texts, and finds positions again. `TextAnalysis` follows `analysis/mod.rs`:
paragraphs, windows, chunks with cores, occurrences of a quote with its contexts, protected
spans (`FindIter`: of the places where a pattern matches the chunk's own text, those that
start inside no earlier match), grading, narrowing a literal edit, and the stable merge. `AnalysisPipeline` runs
them: `Read` extracts, `CutParagraph` and `CutWindow` are the body of `chunk_text`'s loop and
of the loop over one long paragraph, with the open chunk, the paragraph before and the window
as variables, `EndCut` pushes the last chunk; `Analyze` is one answer per chunk in any order and
any choice of what the models quote and think, `Merge` makes the report. The merge is a fold
over the sorted issues, written as a function of how many it has taken. `scenario` is the input: a file, its mistakes, how
freely models quote them, and what they may think.

### Sessions
`login` is four places (limit, read, record, insert), with other operations in between.
A reset or a disabling is a transaction of two steps: `Revoke` is its `UPDATE`, which waits for
another transaction on the row, and its `DELETE`, which sees the sessions of that moment;
`Commit` lets others see the account's new state and the sessions gone. In between, logins
read the old account and insert sessions, sessions that are being deleted still authenticate,
and statements that delete the same rows wait (`Locked`); the transaction may be rolled back.
Histories name what the code cannot know: `change[n].late` the sessions inserted after the
`DELETE`, `overtaken` a login that had read its account before a commit and whose session the
`DELETE` did not see, `raced` that two bootstrap commands were past their check together.
Administrators' operations are extraction of the user, the statement or transaction, the audit
event; each may be the last one (`LoseOperation`).

## 3. Runs

| Run | Instance | Shows |
|---|---|---|
| `queue_safety` | 2 jobs, 2 slots, leases of 2 ticks, deadlines of 3; symmetric | `LeaseExclusion`, `RunningJobsAreLeased`, `OnlyOwnerEndsLeasedJob`, `DeadlineFixed`, and that the queue implements `JobPromise` |
| `input_safety` | 1 document, 1 job, 2 slots, leases of 1 tick, deadlines of 3, inputs of 2, reports of 3; symmetric | `PendingInputStays`, `ReportKeepsItsSource`, `NothingForgotten`, `PendingBodyUntouched` |
| `input_liveness` | 1 document, 1 job, 1 slot | every job ends, every cancellation takes effect, cancelled bodies and unneeded inputs are erased although removals fail and are dropped again and again, with *no* fairness of the slots |
| `limit_calls` | 2 calls of one profile and 1 of another, 2 global slots, limits 1..2 | `PermitsAccounted`, `ReleaseNotMissed`, `StartsWithinLimit`, and `NoStandstill`: a throttled profile blocks neither itself nor the other one |
| `chunk_store` | 2 workers, 3 versions that cut one text into 2, 2 and 1 chunks, 2 concurrent calls, 3 claims; symmetric | stored outputs belong to their text and are paid for, the report is built from the whole text, nothing stored is paid for again or thrown away |
| `model_call` | the three protocols, bodies of up to 2 parts or items, 2 candidates, 3 verdicts | at most 3 requests and 3 for the repair, only whole answers count, verdicts fit the located candidates, an answered request is not sent again |
| `analysis` | chunks of 6 to 8 characters that share 4; texts of up to 3 paragraphs, one to three mistakes anywhere, TXT, DOCX and PDF files | chunks cover the text, extraction leaves nothing out, a mistake is reported once and in any order of the chunks, stands where it was quoted and leads back to the file, protected spans hold, merging keeps the best |
| `analysis_requests` | 2 create calls, or 4 claims by workers of two versions, or one of each; 2 documents, 2 model profiles, 1 key, 2 scenarios, a pool of 2 connections | one job per document and key, answers match their request, a repeated request is no conflict, one configuration per job, every call ends |
| `sessions` | 2 accounts, 2 bootstrap commands, 2 logins that may be repeated, 1 operation, limit of 2 failures, 1 reset; symmetric | failures stay near their limit, old sessions end, one first administrator |
| `completed_chunks` | as `input_safety`, deadlines of 2, inputs of 3 | a disagreement, section 6 |
| `orphan_upload` | as `completed_chunks` | a disagreement, section 6 |
| `stale_replace` | as `chunk_store`, one version, 2 claims | a disagreement, section 6 |

*Why the bounds suffice to meet the cases.* Two slots are the owner and the one that
takes over; while the first stalls, the second claims, completes or fails the job. Two
jobs let a slot carry its stale knowledge from one job into the next and let a batch
statement hit two rows. A lease of two ticks can be renewed halfway; a deadline of three
lets a job be taken over once and still time out in either order with its
lease. In `input_safety` the input's retention is shorter than the job's timeout, which the
configuration allows (`config.rs:103-104` accepts one hour beside the default timeout of two),
so jobs outlive their inputs; in `input_liveness` it is longer, as 24 hours and 120 minutes are. In both a retry
shortly before the expiry meets the cleanup that has collected the document already. With limits of one and two, the two calls
of one profile are running and waiting when the limit drops, and the third competes for the
global slots. Slots, jobs, calls of one profile, accounts and logins are only compared for equality and
never ordered or chosen, so permuting them is sound; runs with liveness use no symmetry.
The time domains are finite because times are the remaining ticks of configured intervals.

Three claims (`MaxClaims`) are a first attempt, a takeover or failure, and a retry after an
upgrade; the three plans keep a chunk, change one, and drop one. In `AnalysisPipeline` the
sizes keep the order of the real ones (overlap below target below hard limit, edits far
below the overlap) and every shape of paragraph lies on both sides of each limit: shorter
than the overlap, joined with the next one, split once, split twice at a sentence mark or
without one. Protected spans of every shape stand at every place of a paragraph that is cut into
windows: whole beside a border, across it, and with a window that begins inside one and takes
its end for the beginning of the next. `MaxText` = 60 and `SparsePage` = 3 stand for the limits of 20 000 and 10
characters in the same way. A pool of two is the smallest in which a transaction leaves one
connection to share; `EveryCallEnds` fails if a call in a transaction waits for a second
one. `MaxFailures` is 2 in place of 5: two logins can then both pass the limit. `MaxResets`,
`MaxEdits`, `MaxClaims` and `Budgets` bound what users may repeat and are the only bounds on
counters.

Deadlock is checked in every run, except `chunk_store`, `stale_replace`, `model_call`,
`analysis` and `analysis_requests`, where the one job, call or document comes to its end,
or the bounded budget of the users is used up.

## 4. Fairness

* `JobQueue`: weak fairness of the clock and of the three statements of
  `recover_expired_leases`. `recovery_loop` (`worker.rs:580-593`) logs an error and
  tries again after 30 s for ever. Nothing is assumed of slots, users or the API: the
  liveness properties hold though every slot dies on every job.
* `InputLifecycle`: in addition weak fairness of the hourly cleanup, which starts the
  same way, and strong fairness of removing a file and confirming it: a removal may
  be dropped any number of times, cleanup starts it again, and storage and database
  errors are taken to be transient. A user may retry a failed job for ever, so
  `InputsGo` allows a pending job as its outcome.
* `ProfileLimit`: the runtime polls every task that can go on; a waiting call wakes
  after a second at the latest; every model call ends, by its own timeout. Nobody has
  to make calls or stop them. `NoStandstill` is about the time when users have
  stopped changing limits and stopping calls: a limit that toggles for
  ever may reject for ever.
* `AnalysisRequests`: the runtime polls every call that can go on, and the pool serves its
  waiters in order, so weak fairness of each call's next statement. Users, workers and
  failures need not do anything.
* The other modules state no liveness.

## 5. Proofs

TLC checks the instances above; TLAPS checks the theorems for every number of jobs,
slots, documents, calls, profiles, accounts and logins and every interval, from the assumptions named
in the modules (`JobQueueAssumption`, `ProfileLimitAssumption`: intervals and limits are
positive, the null values differ from the rest, and there are finitely many calls;
`LifecycleAssumption`: retention periods are positive, whatever the timeout of a job is; `BootstrapsAssumption`, `LoginsAssumption`, `BoundsAssumption`:
finitely many logins, a positive failure limit; `PoolAssumption`, `BudgetsAssumption`,
`VersionsAssumption`, `OldRowsAssumption`: finitely many calls and connections, versions of the
guidance that differ from "not frozen", rows from before of the right shape; `PlanAssumption`,
`ReleaseAssumption`, `ClaimsAssumption`, `NoWorkerAssumption`: plans of finitely many chunks,
versions numbered from 1; `SizesAssumption`: the sizes of chunks are positive and the overlap is at most
half the hard limit, as 500 and 4000 are; `FilesAssumption`: files
are of the three formats, the XML of a DOCX closes what it opens and nothing else, and what
`pdftotext` reports of a page, hidden or not, is painted on it;
`ScenariosAssumption`: mistakes are ranges, there are finitely many of them, profiles, categories and
confidences are of their types; `ModelCallAssumption`: the protocols are the three of `provider.rs`).

**InputLifecycleProofs, the queue.** `LeaseExclusion` says what a slot may rely on, but the steps
that could break it look at the row. The inductive invariant `QueueInv` relates the two:

* `HeldJobs`: while a slot is within its lease and budget, the row names it, is running
  or asked to cancel, and its lease lasts at least as long as the slot believes. This
  is why recovery, which wants a lapsed lease, cannot take the job over.
* `BudgetBounded`: a slot's own timeout fires no later than its job's deadline, so
  recovery cannot fail a job for its deadline under a slot within its budget.
* `UnclaimedRows`: rows that wait in the queue, or do not exist, name no worker, so a
  claim or a retry meets no slot that still believes it owns the job.
* `RunningJobsAreLeased`: a running row has an owner and a lease.

`OnlyOwnerEndsLeasedJob` also says whose step it is: the slot that moves on in `process_claimed`
is the owner (`StepOf`), so a late `mark_failed` of another slot on the same row is excluded.

From it: `LeasesExclude`, `RunningLeased`, `OnlyOwnerEnds`, `DeadlineKept`,
`TypeCorrect`, and `QueueImplementsPromise`, the refinement of `JobPromise`: each step
is split by what it may do to the status of a job, and every such pair of
statuses maps to a move of the promise or to a stutter.

**ProfileLimitProofs.** `LimitInv` adds to the types and the accounting that the
queue for the semaphore holds only calls that are `"queued"`, each once. Without it, a
grant could move a call that already holds a permit, and the counters would drift from
the sets they count. From it: `LimitTypeCorrect` (no counter wraps),
`PermitsConserved`, and `LowerLimitDrains`: the running calls are among the holders
of reservations, whose number the recheck compared. `NoReleaseMissed` is proved with
`Heard`, the same statement from the moment the profile was found full: a release in
the gap before the sleep either lies ahead of its announcement or has been noted.

**SessionsProofs.** `OldSessionsEnd` speaks of sessions, but what makes it true are the
logins that have not inserted one yet. The inductive invariant `Inv` therefore says of both
that their row of `users` exists and that what they read of it still holds unless they were
overtaken (`RowsCurrent`). A commit must not leave one that is neither deleted nor marked, so
`Accounted` says of an open transaction that every session of its account is one its `DELETE` saw or
one inserted since. The limit needs a count: `FailuresCounted` bounds the failures *plus the logins in flight*, since
every login that has passed the limit may still add one; a new login passes it only below
the maximum, and one that records its failure is no longer in flight. `Bootstrapped` says
where administrators come from. From it: `SessionsTypeCorrect`, `OldSessionsGone`,
`FirstAdmin`.

**InputLifecycleProofs, the inputs.** `LifecycleImplementsQueue`: each action is an action of `JobQueue`
or leaves `vars` alone, so the theorems above, the promise among them, carry over and `QueueInv` may
be used at every step. The properties of the data are not inductive because a removal
outlives the transaction that started it, and a slot may stall between two statements.
`LifecycleInv` adds:

* `RemovalsAreFinal`: while anybody is about to remove a file or to confirm it, its input's
  retention is over and no job of it is pending. A retry wants a retention that still
  runs, so no pending job can appear under a removal; and `CancelledInputDue` lets a
  cancelled job's file be removed again and again.
* `OneJobPerDocument`: a document has at most one job, so ending a job never takes the
  text of another one.
* `InputPresent`, `ReportsComplete`, `NothingLeft`: the three properties with what they need
  of usable inputs and completed jobs.
* `StepsOfRuns`, `SavedTextStays`: a run of `process_job` that saved the text and still holds
  its job finds it, since a run that lost its job does not get it back (`HeldBefore`).

Each group of actions has a lemma that keeps the data (`UploadKeepsData` to `WrittenKeepsData`),
`KeptStep` shows what any step leaves to a job that goes on, and `SlotStep` follows the
slots through it. From it: `LifecycleTypeCorrect`, `PendingInputs`, `ReportsKeepSources`,
`NothingIsForgotten`, `PendingBodies`.

**AnalysisRequestsProofs.** `OneJob` holds because a lock is held from the check to the
commit. The inductive invariant `Inv` says so statement by statement: transactions that are open are
the connections taken (`Pooled`); a call past its lock holds it, and past its check the
document is still free of jobs (`Locked`); the job a call is answered with has the document, model
profile and scenario it asked for (`Answered`); and what a slot read of a configuration still is the job's,
as long as it owns the job (`Configured`). From it: `RequestsTypeCorrect`, `OneJobAlways`,
`AnswersAlwaysMatch`, `OneConfigurationAlways`. `RacesAreNoConflict` is an action property: a
conflict is answered in one place only, after the second look, and that look finds any job with
the request's key, document, model profile and scenario.

**ChunkStoreProofs.** A worker that lost the job keeps running until a guarded statement stops
it, and `replace_chunks` writes without a guard after its first check. So the inductive invariant
`Inv` says what any worker may rely on and what only the owner may:

* `ReadStays`, `PlanWritten`: workers of one version cut the same plan, so what one of them read
  of a row's text is still true when it writes, and once one of them wrote, the rows are the plan
  whoever writes again.
* `OwnerKnows`: outputs are stored by the owner only, so a chunk the owner has not finished has
  no output it could read, and the total it set is still the job's.
* `TasksPaid`, `Gathered`: a future that has an answer has paid for it, and the results in hand
  are those of the chunks without an open future.

From it: `ChunksTypeCorrect`, `StoredOutputsMatch`, `ReportsAreWhole`, `NothingPaidTwice`,
`StoredWorkStays`, for any versions and plans.

**ModelCallProofs.** `RequestsBounded` follows from counting: the inductive invariant `Inv`
says that the attempt of a call is the number of its requests, one less before it is sent, that
only a call with an attempt left sleeps, and that a repair follows a call with exactly one
answer. From it: `RequestsAreBounded`, `AnswersPaidOnce`, for any bodies and `Retry-After`
values. `AcceptedAnswersAreWhole` goes through the acceptance of each protocol, check by check, and
shows that what it returns ended normally and says something; bodies are any records the service may
send. `VerdictsJudgeTheLocated` rests on a pigeonhole argument (`DistinctIndexesAreAll`): valid
verdicts carry as many distinct numbers as there are located candidates, all below that count, so they
are all of them, and the remapping reaches every located candidate, for any number of candidates.
`Judged` adds that nothing is stored before the call ends.

**SourceTextProofs.** About the operators of `SourceText`, for any file.

*Reading.* `Readables` of a text are its characters other than white space, and `Follows` says that
those of a joined text are those of its parts in turn, which carries over from parts to lines to the
text (`LinesRead`, `PiecesRead`, `LaidReads`). For DOCX, the invariant of the event loop is `Reader`: the three
flags of `parse_document_xml` agree with how deep the events so far are inside `w:p`, `w:t` and
`w:del`, and what has been collected (`ReadSoFar`) reads as the visible runs of the events
so far (`SeenRuns`). It needs well-formed XML without text boxes, since a
`w:p` inside another takes its place. For PDF, a page
that hides text must draw it, by an image or by more glyphs than it reports, so the check of sparse
pages refuses it (`HidesNothing`). Together: `ExtractedIsSeen`.

*Places.* `Laid` says of any lines what `build_document` makes of them: each line stands at its
start in the text, two breaks after it where a paragraph ends and one elsewhere, and the source map has
one segment for each line that is not empty, in order, with its page, line and paragraph
(`BuildDocumentLays`, from what one line adds, `AddLineAdds`). So the first and the last segment that meet a
range are those of the lines that hold its ends (`LinesFollow`, `FirstHolds`, `LastHolds`);
two positions have paragraphs that differ where a blank line that lies in no line's content is between
them, and sentences that differ by the marks between them (`PlacesCompare`). The three
extractions give lines that mirror the file's (`TxtGives`, `PdfGives`, `DocxGives`).

**AnalysisPipelineProofs.** Four arguments, each for any text and any sizes.

*Files.* `DocInv` says that from the extraction on the document is the one of the file, hence
`NothingLeftUnreadHolds`. The lines that an issue names read what it quotes (`LineReads`,
`LinesHoldQuote`). `PlaceInv` says that every issue has a position, since one without is an edit of
line breaks alone (`UnlocatedIsBare`) and stops the job. With `PlacesCompare` and
`IssuesWithinQuotes`: `IssuesAreLocated`.

*Cutting.* `CutInv` says of every state of the two loops that the text is divided up to a front
(`Reached`): the start of the open chunk's or window's core, or the end of the paragraphs taken. `Divided`
says that the cores follow each other, that every character of a paragraph before the front is in
one of them (or at the middle of nothing but blanks, since blank chunks are dropped), and that each chunk
`Shows` its paragraphs: it holds a paragraph entirely, or lies in it and its core keeps half an overlap
away from where it cuts the paragraph. That half is what makes a short quote whose middle is in the
core visible in full (`QuotesShown`). `OpenFits` and `WindowFits` say where the open chunk and the next
window begin. From it: `TextIsCovered`, and `CuttingMovesOn`: each step takes a paragraph, ends one,
or moves its window on, so `chunk_text` ends (the `max(cursor + 1)` of the code is never needed).

*Findings.* `FindInv` says that chunks are pending or have been answered, that what was picked of a
mistake could be picked, that each issue is made of a pick its chunk keeps, and that each pick that is kept
has a trace among the issues. From it: `IssuesWithinQuotes`, and
`ProtectedIsRespected`: the owner of a quote's middle shows half an overlap beside it, hence the span
(`SpanShown`). A window has the marks of the text (`SameMarks`), so it has the same matches
(`MatchInWindow`, `MatchOfWindow`), and where it begins inside no match that `find_iter` finds in the
text, `find_iter` finds each of those that the window shows in it as well (`FoundInWindow`).
Exactly-once (`ReportedOnceHolds`) needs both invariants: one chunk accepts the quote
(`OneChunkAccepts`, from the division), it locates it where it was read (`LocatesAt`), no other chunk keeps
it, and the merge keeps one issue of it.

*Merging.* `StableSortSorts` shows that the sort by counting is a permutation in order. The fold
keeps, after each issue taken, that the kept ones are `Apart` and that each issue taken `Stands`: overlaps
of the same problem lead from it to one kept that is at least as sure. This gives `MergeKeeps`. For the
independence from the order of arrival, `Take` is what one more finding does to the findings kept
for its problem. Two arrivals of the same issues, once sorted, differ only in the order of issues with equal
findings; taking a finding again that is `Upheld` changes nothing, so the two folds agree problem by
problem (`RunsAgree`). Together: `ReportIsOfTheText`.

The library's induction theorems cannot be used (they take an operator); where a fold is followed
step by step, the proofs use that a set of numbers that is not empty has a least one
(`LeastNumber`, from `WFMin`).

Model-checked only: all liveness (`EveryJobEnds`, `CancellationEnds`, `CancelledBodyErased`, `InputsGo`,
`NoStandstill`, `EveryCallEnds`): fairness is beyond the prover. Every other property of a passing
run is proved.
Type invariants: `TypeOK` of `JobQueue` and `ProfileLimit`, `LifecycleTypeOK` and
`RequestsTypeOK` are proved rather than run.

## 6. Where code and documentation disagree

* `completed_chunks`. `replace_chunks` checks ownership once, without a lock, and
  writes the chunk texts in later statements. A slot that stalls there beyond its lease
  writes them into a job that another slot has completed meanwhile, after `save_report`
  cleared them. `docs/architecture.md:27` promises that success clears them and `:21`
  that a worker without its lease stops writing. The expiry of the report still erases
  them; if the user deletes the report first, nothing does, although `docs/operations.md:41`
  leaves only metadata without content after such a deletion. `NothingForgotten` names the write
  (`stale`) and holds of everything else.
* `orphan_upload`. The upload writes the file before the row that carries its expiry. A
  crash in between leaves a file cleanup cannot see, though `docs/operations.md:34`
  gives uploads 24 hours.
* `stale_replace`. The same gap in `replace_chunks`, for stored results: a worker that
  stalls between reading a row and writing it resets the results the worker that took the
  job over has stored meanwhile, though `docs/architecture.md:21` says a worker that lost its
  lease does not overwrite them. The report is not affected (`ReportFromWholeText`); a later
  retry pays again.

Seen while modelling, without a run of their own:

* An upheld typo or punctuation edit that is narrowed to a line break alone has no position
  (`documents/mod.rs:38-46`), so `finalize_issues` returns an error and the whole job fails,
  where `docs/PROJECT.md:24` speaks of dropping what cannot be located. `FailsForBareBreaks`
  says it is the only such failure.
* Paragraph numbers of DOCX and PDF files skip one at each blank paragraph or line, which
  are counted twice. Line breaks inside a DOCX paragraph (`w:br`) do not change its number, even
  two in a row, although `paragraph_ranges` ends a paragraph there (`BlankLineInside`).
* Of a `w:p` that contains another one (a text box), what comes before the inner one is
  cleared with it and what comes after is dropped (`docx.rs:77-86`); XML that ends inside a
  paragraph is accepted without it. `NothingLeftUnread` is about files without either.
* Issues that overlap in a chain are merged pairwise in text order: of a chain A-B-C with B
  the surest, C is compared with B only. `MergeKeepsTheBest` states what remains true.
* The *level* of a finding may depend on which chunk returns first: of two equally sure issues that
  were narrowed to the same edit the first stays, and their quotes may be graded differently
  (`deduplicate_issues` sorts by position, category and confidence, and replaces only by a surer issue).
  `OrderFree` speaks of range, class, suggestion and confidence, and of these it is proved.
* Two chunks that quote one mistake *differently* may report it twice, or each leave it to
  the other; `ReportedOnce` (a part of `ReportOfTheText`) requires that they quote it alike.
* Protected spans are searched in the text of the chunk alone (`analysis/mod.rs:247-253`). A span cut
  by the border of a window of a paragraph over 4000 characters is not recognised. A window that
  begins inside `$...$` or quoted code takes the end of that span for the beginning of one, so it pairs
  the marks anew and misses the next complete span as well. A typo or punctuation issue in such a
  span may be confirmed, where `docs/architecture.md:24-25` and `CHANGELOG.md:45` say it becomes a
  suspected one. `ConfirmedOutsideProtected` holds for windows that begin inside no span: there
  every span is recognised that the chunk shows, or for which there is room beside half the quote in
  half of the overlap and two characters more (`ShownBeside`; TLC finds that three are too many).
* Chunks of short paragraphs have a context before them only, and none if the paragraph
  before is longer than 500 characters (`docs/architecture.md:23`).
* A login that had read its account before a reset or a disabling commits may insert its session
  after the `DELETE` of that transaction (`OldSessionsEnd` names it). After a reset it is usable at once, although the
  command line says all sessions are revoked (`main.rs:32,71`).
* Two `bootstrap-admin` commands on an empty table can both create an administrator.
* A create request that was past its check of the profile is accepted after the profile was
  disabled. A retry request has no key of its own.
* An audit event is written after the commit; a lost answer can leave an applied operation
  without one.

## 7. Abstractions, and what is not modelled

* One SQL statement is atomic. `save_extracted_document` guards an `UPDATE` of
  `documents` with an `EXISTS` over `analysis_jobs`; its snapshot may grow stale
  while it waits for a lock. That window is not modelled.
* A statement that was in flight when its future was dropped is taken not to run later,
  except the COMMIT of `save_report`.
* In `JobQueue` and `InputLifecycle` the chunk tasks between extraction and publication are
  one stretch in which the slot may beat, stall, fail or be cancelled; `ChunkStore` is that
  stretch in detail.
* Documents that several jobs share (rows older than the rule of one job per document)
  are not modelled: `CreateAnalysis` requires that the document has no job.
* `AnalysisRequests`: settings and prompts of a model profile are one version number; all requests are
  one user's; the pool of
  20 connections is one of 2; a timeout of the pool is a lost call. A worker whose job has
  ended may still write a snapshot into the row, since the statement asks for `worker_id`
  only (`db.rs:658`); `OneConfiguration` speaks of jobs that have not ended.
* `ModelCall`: request bodies, headers and field lengths are left out; 408 is among the
  statuses that are retried; a repair records its usage as attempt 1, and a failed call
  none. Only one chunk's calls are followed.
* `SourceText`: archives, XML and Poppler are the environment. That an archive is within
  its limits is a flag (`intact`), that the Poppler tools answered in time is another
  (`usable`), decoding is the flag `encoding`. Pages of PDF files with at least 10
  characters are not inspected for hidden text, and `NothingLeftUnread` says so; of the others it is
  assumed that one glyph shows one character (`Painted`). A byte order mark is among the
  characters nobody sees, wherever it stands. The detection of the format at upload is
  left out.
* `TextAnalysis`: characters are numbers; one stands for each thing the patterns of protected spans
  look for (what a link starts with, what opens and what closes a formula, a digit, a unit, ...), and of
  alternatives of the same shape (`\(...\)` and `\[...\]`, amounts and dates, citations and DOIs) there is
  one. What a model writes as a suggestion is `literal`
  or not. Evidence references, wording and the similarity of messages are left out.
* `Sessions`: hashing and cookies are left out; all logins come from one address, so
  that the limit, which counts failures of the name or of the address, counts them all.
* Not modelled: reports, feedback and export (reads, formatting, single rows), history,
  metrics and HTTP wiring (queries), creation, ownership and sharing of model profiles
  (single-row writes), configuration, secrets and migrations (start-up), the web front end
  (polls the API and keeps no state the server relies on), evaluation, security and release
  tools (offline).

## 8. Plan

Done: everything in section 2. What would add most next:

1. Shared documents in `InputLifecycle`.
2. `ChunkStore` composed with the leases of `JobQueue`, so that `LoseLease` becomes the
   recovery of that module.

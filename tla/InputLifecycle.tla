--------------------------- MODULE InputLifecycle ---------------------------
(***************************************************************************)
(* The life of the text a user uploads: the stored file, the documents     *)
(* row, the extracted text, the chunk bodies and the report, through       *)
(* upload, analysis, cancellation, retry, expiry, cleanup and deletion.    *)
(*                                                                         *)
(* This module composes JobQueue with that data: each transaction of the   *)
(* code is the JobQueue action on the analysis_jobs row conjoined with     *)
(* what the same transaction does to the other tables, and with the file   *)
(* removal its caller starts.  Files are removed outside transactions, so  *)
(* removing a file and confirming it in the database are steps of their    *)
(* own that a crash or a storage error may drop.                           *)
(***************************************************************************)
EXTENDS JobQueue, FiniteSets

CONSTANTS
  Docs,          \* ids of documents rows
  DocOf,         \* [Jobs -> Docs]: the document_id a create request names
  InputTicks,    \* config.failed_input_retention_hours
  ReportTicks    \* config.report_retention_days

(* The configuration allows a retention of one hour beside a timeout of    *)
(* two: an input may be over before the job that reads it.                 *)
ASSUME LifecycleAssumption ==
  /\ DocOf \in [Jobs -> Docs]
  /\ InputTicks \in Nat \ {0}
  /\ ReportTicks \in Nat \ {0}

VARIABLES
  document,      \* [Docs -> {"none", "uploading", "stored", "gone"}]
  file,          \* the file exists in uploads/
  path,          \* documents.storage_path IS NOT NULL
  text,          \* documents.extracted_text IS NOT NULL
  expiry,        \* ticks until documents.input_expires_at, NoTime for NULL
  chunks,        \* [Jobs -> BOOLEAN]: some analysis_chunks row holds content or outputs
  report,        \* [Jobs -> ticks until reports.expires_at], NoTime without a report
  step,          \* how far the slot's process_job has come with the input
  toRemove,      \* documents whose path some process is about to remove
  toConfirm,     \* documents whose file was removed, not yet confirmed
  missing,       \* history: an API request lost the file but left the row
  stale          \* history: jobs whose chunks a stale slot wrote after their input was due

inputVars == <<document, file, path, text, expiry, missing>>
bodyVars  == <<chunks, report, stale>>
removals  == <<toRemove, toConfirm>>
allVars   == <<vars, inputVars, bodyVars, step, removals>>

NoTime == -1

Steps == {"start", "extracted", "saved", "replacing", "chunked"}

LifecycleTypeOK ==
  /\ TypeOK
  /\ document \in [Docs -> {"none", "uploading", "stored", "gone"}]
  /\ file \in [Docs -> BOOLEAN]
  /\ path \in [Docs -> BOOLEAN]
  /\ text \in [Docs -> BOOLEAN]
  /\ expiry \in [Docs -> NoTime .. InputTicks]
  /\ chunks \in [Jobs -> BOOLEAN]
  /\ report \in [Jobs -> NoTime .. ReportTicks]
  /\ step \in [Workers -> Steps]
  /\ toRemove \subseteq Docs /\ toConfirm \subseteq Docs /\ missing \subseteq Docs
  /\ stale \subseteq Jobs

LifecycleInit ==
  /\ Init
  /\ document = [d \in Docs |-> "none"]
  /\ file     = [d \in Docs |-> FALSE]
  /\ path     = [d \in Docs |-> FALSE]
  /\ text     = [d \in Docs |-> FALSE]
  /\ expiry   = [d \in Docs |-> NoTime]
  /\ chunks   = [j \in Jobs |-> FALSE]
  /\ report   = [j \in Jobs |-> NoTime]
  /\ step     = [w \in Workers |-> "start"]
  /\ toRemove = {} /\ toConfirm = {} /\ missing = {} /\ stale = {}

-----------------------------------------------------------------------------
(* Helpers                                                                 *)

(* The rows of a document: WHERE document_id = $1.                         *)
JobsOf(d) == {j \in Jobs : DocOf[j] = d /\ status[j] \notin {"none", "deleted"}}

Doc(w) == DocOf[task[w]]

(* A report of the document that readers can still open.                   *)
LiveReport(d) == \E j \in JobsOf(d) : report[j] > 0

(* storage_path IS NOT NULL AND input_expires_at > clock_timestamp()       *)
InputUsable(d) == document[d] = "stored" /\ path[d] /\ expiry[d] > 0

(* input_expires_at = CASE WHEN storage_path IS NULL THEN NULL ELSE now()  *)
Due(d) == IF path[d] THEN 0 ELSE NoTime

AtStep(w, s) == step' = [step EXCEPT ![w] = s]

(* Variant for NothingForgotten: the chunks' bodies are not set to NULL.   *)
ClearChunks_Kept(J) == UNCHANGED <<chunks, stale>>

(* A transaction that ends job j for good: the bodies of its chunks are    *)
(* cleared, its input is due, and the caller goes on to remove the file.   *)
ClearChunks(J) ==
  /\ chunks' = [j \in Jobs |-> chunks[j] /\ j \notin J]
  /\ UNCHANGED stale

EraseText(D) ==
  /\ text'   = [d \in Docs |-> text[d] /\ d \notin D]
  /\ expiry' = [d \in Docs |-> IF d \in D THEN Due(d) ELSE expiry[d]]
  /\ UNCHANGED <<document, file, path, missing>>

ThenRemove(D) ==
  /\ toRemove' = toRemove \cup {d \in D : path[d]}
  /\ UNCHANGED toConfirm

-----------------------------------------------------------------------------
(* Upload: persist_document writes the file, then inserts the row          *)

WriteUpload(d) ==
  /\ document[d] = "none"
  /\ document' = [document EXCEPT ![d] = "uploading"]
  /\ file'     = [file EXCEPT ![d] = TRUE]
  /\ UNCHANGED <<path, text, expiry, missing, bodyVars, step, removals, vars>>

InsertDocument(d) ==
  /\ document[d] = "uploading"
  /\ document' = [document EXCEPT ![d] = "stored"]
  /\ path'     = [path EXCEPT ![d] = TRUE]
  /\ expiry'   = [expiry EXCEPT ![d] = InputTicks]
  /\ UNCHANGED <<file, text, missing, bodyVars, step, removals, vars>>

(* The INSERT fails and the file is removed again.                         *)
RejectUpload(d) ==
  /\ document[d] = "uploading"
  /\ document' = [document EXCEPT ![d] = "gone"]
  /\ file'     = [file EXCEPT ![d] = FALSE]
  /\ UNCHANGED <<path, text, expiry, missing, bodyVars, step, removals, vars>>

(* The API process dies after fs::write, or the removal after a failed     *)
(* INSERT fails too (its result is dropped): the file has no row.          *)
AbandonUpload(d) ==
  /\ document[d] = "uploading"
  /\ document' = [document EXCEPT ![d] = "gone"]
  /\ UNCHANGED <<file, path, text, expiry, missing, bodyVars, step, removals, vars>>

(* The INSERT commits but its answer is lost: the row keeps its path, the  *)
(* request removes the file.                                               *)
LoseUpload(d) ==
  /\ document[d] = "uploading"
  /\ document' = [document EXCEPT ![d] = "stored"]
  /\ path'     = [path EXCEPT ![d] = TRUE]
  /\ expiry'   = [expiry EXCEPT ![d] = InputTicks]
  /\ file'     = [file EXCEPT ![d] = FALSE]
  /\ missing'  = missing \cup {d}
  /\ UNCHANGED <<text, bodyVars, step, removals, vars>>

-----------------------------------------------------------------------------
(* API requests on jobs                                                    *)

(* create locks the document, checks that it is usable and has no job.     *)
CreateAnalysis(j) ==
  /\ InputUsable(DocOf[j]) /\ JobsOf(DocOf[j]) = {}
  /\ Create(j)
  /\ UNCHANGED <<inputVars, bodyVars, step, removals>>

(* Variant for PendingInputStays: an expired input may still be retried.   *)
MayRetry_Expired(d) == document[d] = "stored" /\ path[d]

MayRetry(d) == InputUsable(d)

RetryAnalysis(j) ==
  /\ MayRetry(DocOf[j])
  /\ Retry(j)
  /\ UNCHANGED <<inputVars, bodyVars, step, removals>>

(* cancel of a queued job: request_cancellation erases, then the handler   *)
(* removes the file.                                                       *)
CancelQueuedAnalysis(j) ==
  /\ CancelQueued(j)
  /\ ClearChunks({j}) /\ UNCHANGED report
  /\ EraseText({DocOf[j]})
  /\ ThenRemove({DocOf[j]})
  /\ UNCHANGED step

CancelRunningAnalysis(j) ==
  /\ RequestCancellation(j)
  /\ UNCHANGED <<inputVars, bodyVars, step, removals>>

(* cancel of a job that is already cancelled removes its file once more.   *)
CancelAgain(j) ==
  /\ status[j] = "cancelled"
  /\ ThenRemove({DocOf[j]})
  /\ UNCHANGED <<inputVars, bodyVars, step, vars>>

-----------------------------------------------------------------------------
(* The worker                                                              *)

(* The input steps belong to one run of process_job.                       *)
KeepStep(w) ==
  step' = [step EXCEPT ![w] = IF phase'[w] = "running" THEN step[w] ELSE "start"]

(* Steps of process_claimed that touch no input.                           *)
QueueStep(w) ==
  /\ \/ ClaimJob(w) \/ ExpireQueued(w) \/ Start(w) \/ MarkVerifying(w) \/ RefreshLease(w)
     \/ LoseLease(w) \/ SeeCancellation(w) \/ Fail(w) \/ Timeout(w) \/ Return(w)
     \/ CheckCancelled(w) \/ MarkFailed(w) \/ GiveUp(w) \/ Crash(w)
  /\ KeepStep(w)
  /\ UNCHANGED <<inputVars, bodyVars, removals>>

(* load_document and documents::extract read the row and the stored file.  *)
ExtractText(w) ==
  /\ phase[w] = "running" /\ step[w] = "start"
  /\ path[Doc(w)] /\ file[Doc(w)]
  /\ AtStep(w, "extracted")
  /\ UNCHANGED <<inputVars, bodyVars, removals, vars>>

(* save_extracted_document, if the job is still held: the text is stored   *)
(* and the input is kept for another retention period.                     *)
SaveExtracted(w) ==
  /\ phase[w] = "running" /\ step[w] = "extracted" /\ HoldsRunning(w)
  /\ text'   = [text EXCEPT ![Doc(w)] = TRUE]
  /\ expiry' = [expiry EXCEPT ![Doc(w)] = InputTicks]
  /\ AtStep(w, "saved")
  /\ UNCHANGED <<document, file, path, missing, bodyVars, removals, vars>>

(* replace_chunks checks the job once, without locking it, ...             *)
BeginReplaceChunks(w) ==
  /\ phase[w] = "running" /\ step[w] = "saved" /\ HoldsRunning(w)
  /\ AtStep(w, "replacing")
  /\ UNCHANGED <<inputVars, bodyVars, removals, vars>>

(* A job that has ended, with an input that no job can use again.          *)
EndedAndDue(j) == status[j] \in Terminal /\ expiry[DocOf[j]] <= 0

(* ... and writes and commits the rows in later statements of the same     *)
(* transaction, whatever became of the job; only a deleted job refuses     *)
(* them (foreign key), and a slot whose time is up sends no more.          *)
CommitReplaceChunks(w) ==
  /\ phase[w] = "running" /\ step[w] = "replacing"
  /\ status[task[w]] # "deleted" /\ budget[w] > 0
  /\ chunks' = [chunks EXCEPT ![task[w]] = TRUE]
  /\ stale' = IF EndedAndDue(task[w]) THEN stale \cup {task[w]} ELSE stale
  /\ AtStep(w, "chunked")
  /\ UNCHANGED <<inputVars, report, removals, vars>>

(* db::heartbeat comes after the chunks.                                   *)
ReportProgress(w) ==
  /\ step[w] = "chunked" /\ Heartbeat(w)
  /\ UNCHANGED <<inputVars, bodyVars, step, removals>>

(* Variant for ReportKeepsItsSource: success erases like a cancellation.   *)
InputAfterReport_Erased(d) == EraseText({d})

InputAfterReport(d) ==
  /\ expiry' = [expiry EXCEPT ![d] = Due(d)]
  /\ UNCHANGED <<document, file, path, text, missing>>

(* save_report, then remove_finalized_input.                               *)
PublishReport(w) ==
  /\ step[w] = "chunked" /\ SaveReport(w) /\ KeepStep(w)
  /\ report' = [report EXCEPT ![task[w]] = ReportTicks]
  /\ ClearChunks({task[w]})
  /\ InputAfterReport(Doc(w))
  /\ ThenRemove({Doc(w)})

(* cancel_and_purge: finalize_cancelled, then remove_finalized_input.      *)
FinalizeCancelledAnalysis(w) ==
  /\ FinalizeCancelled(w) /\ KeepStep(w)
  /\ ClearChunks({task[w]}) /\ UNCHANGED report
  /\ EraseText({Doc(w)})
  /\ ThenRemove({Doc(w)})

-----------------------------------------------------------------------------
(* Recovery                                                                *)

RecoverJobs ==
  /\ RequeueLapsed \/ FailTimedOut
  /\ UNCHANGED <<inputVars, bodyVars, step, removals>>

FinishCancelledJobs ==
  /\ FinishCancellations
  /\ EraseText({DocOf[j] : j \in AbandonedCancellations})
  /\ UNCHANGED <<bodyVars, step, removals>>

(* Variant for CancelledBodyErased: the purge looks for the wrong status.   *)
CancelledWithChunks_Requested == {j \in Jobs : status[j] = "cancel_requested" /\ chunks[j]}

CancelledWithChunks == {j \in Jobs : status[j] = "cancelled" /\ chunks[j]}

(* The last statement of recover_expired_leases.                           *)
PurgeCancelledChunks ==
  /\ CancelledWithChunks # {}
  /\ ClearChunks(CancelledWithChunks)
  /\ UNCHANGED <<inputVars, report, step, removals, vars>>

-----------------------------------------------------------------------------
(* Cleanup: cleanup_expired locks the jobs, then the document, and checks  *)
(* again; the files it returns are removed after its transactions          *)

(* Variant for InputsGo: uploads that were never analysed are forgotten.   *)
MayClean_Analysed(d) ==
  /\ document[d] = "stored" /\ expiry[d] = 0
  /\ \E j \in JobsOf(d) : status[j] \in Terminal

(* Variant for PendingBodyUntouched: only the expiry is checked again.     *)
MayClean_Expired(d) == document[d] = "stored" /\ expiry[d] = 0

MayClean(d) ==
  /\ document[d] = "stored" /\ expiry[d] = 0
  /\ \A j \in JobsOf(d) : status[j] \in Terminal

(* extracted_text survives only beside a report that can still be read.    *)
KeepTextOfReports(d) == text' = [text EXCEPT ![d] = text[d] /\ LiveReport(d)]

CleanDocument(d) ==
  /\ MayClean(d)
  /\ ClearChunks(JobsOf(d)) /\ UNCHANGED report
  /\ KeepTextOfReports(d)
  /\ expiry' = [expiry EXCEPT ![d] = Due(d)]
  /\ ThenRemove({d})
  /\ UNCHANGED <<document, file, path, missing, step, vars>>

(* storage.remove: a file that is already gone is fine.                    *)
RemoveFile(d) ==
  /\ d \in toRemove
  /\ file' = [file EXCEPT ![d] = FALSE]
  /\ toRemove' = toRemove \ {d} /\ toConfirm' = toConfirm \cup {d}
  /\ UNCHANGED <<document, path, text, expiry, missing, bodyVars, step, vars>>

(* confirm_document_file_removed: WHERE storage_path = $1.                 *)
ConfirmRemoved(d) ==
  /\ d \in toConfirm
  /\ toConfirm' = toConfirm \ {d} /\ UNCHANGED toRemove
  /\ IF path[d]
     THEN /\ path' = [path EXCEPT ![d] = FALSE]
          /\ expiry' = [expiry EXCEPT ![d] = NoTime]
          /\ KeepTextOfReports(d)
          /\ UNCHANGED <<document, file, missing>>
     ELSE UNCHANGED inputVars
  /\ UNCHANGED <<bodyVars, step, vars>>

(* The removal or its confirmation fails, or the process that was about to *)
(* do it dies: "cleanup will retry".                                       *)
DropRemoval(d) ==
  /\ d \in toRemove \cup toConfirm
  /\ toRemove' = toRemove \ {d} /\ toConfirm' = toConfirm \ {d}
  /\ UNCHANGED <<inputVars, bodyVars, step, vars>>

(* Who still needs extracted_text when a report goes: a pending job, a     *)
(* failed job that can be retried, or another readable report.             *)
NeedsText(j) ==
  \/ status[j] \notin Terminal
  \/ status[j] = "failed" /\ InputUsable(DocOf[j])
  \/ report[j] > 0

(* confirm_cleanup_target for an expired report.                           *)
ExpireOldReport(j) ==
  /\ report[j] = 0
  /\ ExpireReport(j)
  /\ report' = [report EXCEPT ![j] = NoTime]
  /\ ClearChunks({j})
  /\ text' = [text EXCEPT ![DocOf[j]] =
                 text[DocOf[j]] /\ \E i \in JobsOf(DocOf[j]) \ {j} : NeedsText(i)]
  /\ UNCHANGED <<document, file, path, expiry, missing, step, removals>>

-----------------------------------------------------------------------------
(* Deletion: deletion::remove locks the reports, the jobs and the document, *)
(* refuses while a job is pending, removes the file, then the rows          *)

MayDelete(d) ==
  /\ document[d] = "stored"
  /\ \A j \in JobsOf(d) : status[j] \in Terminal

(* Another analysis of the document (from before one job per document was  *)
(* enforced) that can be retried or has a report keeps the source.         *)
OtherConsumer(j) ==
  \E i \in JobsOf(DocOf[j]) \ {j} : status[i] = "failed" \/ report[i] # NoTime

(* storage_path, extracted_text and input_expires_at become NULL, or go    *)
(* with the row; the file was removed before.                              *)
DropSource(d, s) ==
  /\ document' = [document EXCEPT ![d] = s]
  /\ file'     = [file EXCEPT ![d] = file[d] /\ ~path[d]]
  /\ path'     = [path EXCEPT ![d] = FALSE]
  /\ text'     = [text EXCEPT ![d] = FALSE]
  /\ expiry'   = [expiry EXCEPT ![d] = NoTime]
  /\ UNCHANGED missing

(* Deleting a job deletes its chunks and its report with it.               *)
DropBodies(J) ==
  /\ ClearChunks(J)
  /\ report' = [j \in Jobs |-> IF j \in J THEN NoTime ELSE report[j]]

DeleteDocument(d) ==
  /\ MayDelete(d)
  /\ DropSource(d, "gone") /\ DropBodies(JobsOf(d))
  /\ IF JobsOf(d) = {} THEN UNCHANGED vars ELSE DeleteJobs(JobsOf(d))
  /\ UNCHANGED <<step, removals>>

DeleteAnalysis(j) ==
  LET d == DocOf[j] IN
  /\ MayDelete(d)
  /\ DeleteJobs({j}) /\ DropBodies({j})
  /\ IF JobsOf(d) = {j} THEN DropSource(d, "gone")
     ELSE IF OtherConsumer(j) THEN UNCHANGED inputVars ELSE DropSource(d, "stored")
  /\ UNCHANGED <<step, removals>>

(* Deleting a report expires its job, and keeps the rows of its chunks.    *)
DeleteReport(j) ==
  LET d == DocOf[j] IN
  /\ MayDelete(d) /\ report[j] # NoTime
  /\ ExpireReport(j)
  /\ report' = [report EXCEPT ![j] = NoTime]
  /\ IF OtherConsumer(j) THEN UNCHANGED inputVars ELSE DropSource(d, "stored")
  /\ UNCHANGED <<chunks, stale, step, removals>>

(* The file is removed, then a statement or the commit fails: the rows are *)
(* rolled back, the file is not.                                           *)
DeletionFails(d) ==
  /\ MayDelete(d) /\ path[d]
  /\ file'    = [file EXCEPT ![d] = FALSE]
  /\ missing' = missing \cup {d}
  /\ UNCHANGED <<document, path, text, expiry, bodyVars, step, removals, vars>>

-----------------------------------------------------------------------------
LifecycleTick ==
  /\ Tick
  /\ expiry' = [d \in Docs |-> Down(expiry[d])]
  /\ report' = [j \in Jobs |-> Down(report[j])]
  /\ UNCHANGED <<document, file, path, text, missing, chunks, stale, step, removals>>

UploadNext(d) ==
  WriteUpload(d) \/ InsertDocument(d) \/ RejectUpload(d) \/ AbandonUpload(d) \/ LoseUpload(d)

AnalysisNext(j) ==
  \/ CreateAnalysis(j) \/ RetryAnalysis(j) \/ CancelQueuedAnalysis(j)
  \/ CancelRunningAnalysis(j) \/ CancelAgain(j) \/ DeleteAnalysis(j) \/ DeleteReport(j)

SlotNext(w) ==
  \/ QueueStep(w) \/ ExtractText(w) \/ SaveExtracted(w)
  \/ BeginReplaceChunks(w) \/ CommitReplaceChunks(w) \/ ReportProgress(w)
  \/ PublishReport(w) \/ FinalizeCancelledAnalysis(w)

RemovalNext(d) == RemoveFile(d) \/ ConfirmRemoved(d) \/ DropRemoval(d)

LifecycleNext ==
  \/ \E d \in Docs : UploadNext(d) \/ CleanDocument(d) \/ RemovalNext(d)
                     \/ DeleteDocument(d) \/ DeletionFails(d)
  \/ \E j \in Jobs : AnalysisNext(j) \/ ExpireOldReport(j)
  \/ \E w \in Workers : SlotNext(w)
  \/ RecoverJobs \/ FinishCancelledJobs \/ PurgeCancelledChunks
  \/ LifecycleTick

LifecycleSpec == LifecycleInit /\ [][LifecycleNext]_allVars

(* The recovery and cleanup loops never return, and storage and database   *)
(* errors do not last: a removal that is tried again and again succeeds.   *)
LifecycleFairness ==
  /\ WF_allVars(LifecycleTick)
  /\ WF_allVars(RequeueLapsed /\ RecoverJobs)
  /\ WF_allVars(FailTimedOut /\ RecoverJobs)
  /\ WF_allVars(FinishCancelledJobs)
  /\ WF_allVars(PurgeCancelledChunks)
  /\ \A d \in Docs : /\ WF_allVars(CleanDocument(d))
                     /\ SF_allVars(RemoveFile(d))
                     /\ SF_allVars(ConfirmRemoved(d))
  /\ \A j \in Jobs : WF_allVars(ExpireOldReport(j))

FairLifecycle == LifecycleSpec /\ LifecycleFairness

-----------------------------------------------------------------------------
(* Safety                                                                  *)

PendingJobs(d) == {j \in JobsOf(d) : status[j] \notin Terminal}

(* A queued, running or cancelling job still has its document row, its     *)
(* path and its file: no removal started by an earlier cancellation,       *)
(* cleanup or retry overtakes it.  Only a request that removed the file    *)
(* itself and then failed leaves a job without one.                        *)
PendingInputStays ==
  \A d \in Docs : PendingJobs(d) # {} =>
     document[d] = "stored" /\ path[d] /\ (file[d] \/ d \in missing)

(* A report that can be read has the source text its page shows beside the *)
(* issues: removing the uploaded file and cleaning up leave it in place.   *)
ReportKeepsItsSource == \A j \in Jobs : report[j] > 0 => text[DocOf[j]]

(* Nothing that holds the user's text is left without the event that will  *)
(* erase it: a path has an expiry time, extracted text an expiry time or a *)
(* report, and chunk bodies a cancellation, which recovery purges, or an   *)
(* expiry time.  A completed or expired job has no bodies at all.  The one *)
(* exception is a single write: the bodies that replace_chunks of a stale  *)
(* slot commits after the job has ended and its input is due, see          *)
(* CompletedKeepsNoChunks.                                                 *)
NothingForgotten ==
  /\ \A d \in Docs :
       /\ path[d] => document[d] = "stored" /\ expiry[d] # NoTime
       /\ text[d] => expiry[d] # NoTime \/ \E j \in JobsOf(d) : report[j] # NoTime
  /\ \A j \in Jobs : chunks[j] /\ j \notin stale =>
       \/ status[j] = "cancelled"
       \/ status[j] \notin {"completed", "expired"} /\ expiry[DocOf[j]] # NoTime

(* Cleanup, recovery and the removals they start never take the text or    *)
(* the chunk bodies of a job that has not ended.                           *)
PendingBodyUntouched ==
  [][\A d \in Docs : \A j \in PendingJobs(d) :
       status'[j] \notin Terminal =>
          /\ text[d] => text'[d]
          /\ chunks[j] => chunks'[j]]_allVars

-----------------------------------------------------------------------------
(* Liveness                                                                *)

(* After a cancellation the text, the chunk bodies and the file are erased *)
(* even if every process that tried it first died or failed.               *)
CancelledBodyErased ==
  \A j \in Jobs : status[j] = "cancelled" ~>
     ~chunks[j] /\ ~text[DocOf[j]] /\ ~file[DocOf[j]]

(* An uploaded file, analysed or not, does not stay once no job needs it,  *)
(* and its text does not stay once no job and no report needs it.          *)
InputsGo ==
  \A d \in Docs : document[d] = "stored" /\ (file[d] \/ text[d]) ~>
     \/ ~file[d] /\ (text[d] => LiveReport(d))
     \/ PendingJobs(d) # {}

-----------------------------------------------------------------------------
(* What the documentation says and the code does not keep                  *)

(* docs/architecture.md: success clears the contents of the chunks.        *)
CompletedKeepsNoChunks == \A j \in Jobs : status[j] = "completed" => ~chunks[j]

(* docs/operations.md: an uploaded file expires after 24 hours.  A file    *)
(* without a documents row has no expiry that cleanup could find.          *)
FilesHaveARow == \A d \in Docs : file[d] => document[d] \in {"uploading", "stored"}
=============================================================================

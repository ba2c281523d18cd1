-------------------------- MODULE AnalysisRequests --------------------------
(***************************************************************************)
(* From a request to a configured job: POST /analyses with its             *)
(* idempotency key, the model profiles that users edit meanwhile, and the  *)
(* configuration the job is frozen with, by the request or, for rows       *)
(* written by an older version, by the worker that claims them.            *)
(*                                                                         *)
(* The calls are those of one user.  Every statement takes a connection of *)
(* the pool for its duration, a transaction one from begin to its end.     *)
(* JobQueue tells who may end or requeue a job and when; here a job does   *)
(* so at any time.  A configuration is a version of the settings of the    *)
(* job's profile and the guidance version the prompts were extended with,  *)
(* 0 for none.                                                             *)
(***************************************************************************)
EXTENDS Integers, FiniteSets

CONSTANTS
  Calls, NoCall,        \* create calls in flight; a call may be sent again
  Keys, NoKey,          \* Idempotency-Key values
  Docs, JobIds, Workers, NoWorker,
  Profiles,             \* the ids of the model profiles
  Scenarios,            \* AnalysisProfile
  Requests,             \* the bodies the user may post, with their keys
  OldRows,              \* rows an older version may have left
  GuidanceOf,           \* the SCENARIO_GUIDANCE_VERSION of each worker
  ApiGuidance,          \* and of the API
  PoolSize,             \* max_connections
  Budgets, MaxEdits     \* bounds: the calls, claims and changes of
                        \* profiles a behaviour may have

ASSUME NamesAssumption == NoKey \notin Keys /\ NoWorker \notin Workers /\ NoCall \notin Calls
ASSUME RequestsAssumption ==
  Requests \subseteq [key : Keys \cup {NoKey}, doc : Docs, profile : Profiles,
                        scenario : Scenarios]
ASSUME JobIdsAssumption == JobIds \subseteq Nat \ {0}
ASSUME PoolAssumption == IsFiniteSet(Calls) /\ PoolSize \in Nat
ASSUME BudgetsAssumption ==
  MaxEdits \in Nat /\ Budgets \subseteq [sends : Nat, claims : Nat, edits : 0 .. MaxEdits]

Absent    == [absent |-> TRUE]
None      == [none |-> TRUE]
Guidance  == {ApiGuidance} \cup {GuidanceOf[w] : w \in Workers}
Configs   == [settings : 0 .. MaxEdits, guidance : Guidance \cup {0}]
Rows      == [doc : Docs, key : Keys \cup {NoKey}, profile : Profiles, scenario : Scenarios,
              status : {"queued", "running", "failed", "ended"},
              owner : Workers \cup {NoWorker}, snapshot : Configs \cup {None}]

ASSUME VersionsAssumption == 0 \notin Guidance
ASSUME OldRowsAssumption  == OldRows \subseteq Rows

VARIABLES
  profile,              \* the model_profiles rows
  usable,               \* documents with a file that has not expired
  job,                  \* the analysis_jobs rows
  free,                 \* connections of the pool
  lock,                 \* documents rows locked FOR UPDATE, by call
  at, request, config,  \* the calls: place, input, model_snapshot
  answer,
  worker,               \* the slots: place, ClaimedJob, job_configuration
  used,                 \* the configurations a job was processed with
  left                  \* what is left of the budget

calls   == <<free, lock, at, request, config, answer>>
workers == <<worker, used>>
vars    == <<profile, usable, job, calls, workers, left>>

InTransaction == {"lock", "check", "insert", "commit"}
Outside       == {"lookup", "profile", "snapshot", "begin", "again"}

RequestsTypeOK ==
  /\ profile \in [Profiles -> [enabled : BOOLEAN, settings : 0 .. MaxEdits]]
  /\ usable \in [Docs -> BOOLEAN] /\ lock \in [Docs -> Calls \cup {NoCall}]
  /\ job \in [JobIds -> Rows \cup {Absent}]
  /\ free = PoolSize - Cardinality({c \in Calls : at[c] \in InTransaction})
  /\ free >= 0
  /\ at \in [Calls -> InTransaction \cup Outside \cup {"idle", "answered", "lost"}]
  /\ \A c \in Calls : request[c] \in Requests \cup {None} /\ config[c] \in Configs \cup {None}
  /\ \A w \in Workers : /\ worker[w].at \in {"idle", "load", "freeze", "store", "work"}
                        /\ worker[w].job \in JobIds \cup {0}
                        /\ worker[w].profile \in Profiles \cup {None}
                        /\ worker[w].config \in Configs \cup {None}
  /\ used \in [JobIds -> SUBSET Configs]

Exists(j) == job[j] # Absent
Idle      == [at |-> "idle", job |-> 0, profile |-> None, config |-> None]

Init ==
  /\ profile = [p \in Profiles |-> [enabled |-> TRUE, settings |-> 0]]
  /\ usable = [d \in Docs |-> TRUE]
  /\ \E first \in OldRows \cup {Absent} :
       job = [j \in JobIds |-> IF j = 1 THEN first ELSE Absent]
  /\ free = PoolSize /\ lock = [d \in Docs |-> NoCall]
  /\ at = [c \in Calls |-> "idle"] /\ request = [c \in Calls |-> None]
  /\ config = [c \in Calls |-> None] /\ answer = [c \in Calls |-> None]
  /\ worker = [w \in Workers |-> Idle] /\ used = [j \in JobIds |-> {}]
  /\ left \in Budgets
-----------------------------------------------------------------------------
(* The model profiles                                                      *)

(* models::update: one row, the key kept when none is sent.                *)
EditProfile(p) ==
  /\ profile' = [profile EXCEPT ![p].settings = @ + 1]
  /\ left.edits > 0 /\ left' = [left EXCEPT !.edits = @ - 1]
  /\ UNCHANGED <<usable, job, calls, workers>>

SetEnabled(p) ==
  /\ profile' = [profile EXCEPT ![p].enabled = ~@]
  /\ left.edits > 0 /\ left' = [left EXCEPT !.edits = @ - 1]
  /\ UNCHANGED <<usable, job, calls, workers>>
-----------------------------------------------------------------------------
(* POST /analyses                                                          *)

Send(c) ==
  /\ at[c] = "idle" /\ left.sends > 0
  /\ \E r \in Requests : request' = [request EXCEPT ![c] = r]
  /\ at' = [at EXCEPT ![c] = "lookup"] /\ left' = [left EXCEPT !.sends = @ - 1]
  /\ UNCHANGED <<profile, usable, job, free, lock, config, answer, workers>>

(* The answer was lost, or the client does not know.                       *)
Resend(c) ==
  /\ at[c] \in {"answered", "lost"} /\ left.sends > 0
  /\ at' = [at EXCEPT ![c] = "lookup"] /\ left' = [left EXCEPT !.sends = @ - 1]
  /\ answer' = [answer EXCEPT ![c] = None]
  /\ UNCHANGED <<profile, usable, job, free, lock, request, config, workers>>

Go(c, place) == at' = [at EXCEPT ![c] = place] /\ UNCHANGED answer

Answer(c, code, row) ==
  /\ at' = [at EXCEPT ![c] = "answered"]
  /\ answer' = [answer EXCEPT ![c] = [code |-> code, row |-> row]]

(* The connection of the transaction goes back, and its lock with it.      *)
EndTransaction(c) ==
  /\ free' = free + 1
  /\ lock' = [d \in Docs |-> IF lock[d] = c THEN NoCall ELSE lock[d]]

(* fetch_by_idempotency                                                    *)
Keyed(c) == {j \in JobIds : Exists(j) /\ job[j].key = request[c].key /\ request[c].key # NoKey}

(* Variant for AnswersMatchRequest: the key alone decides.                 *)
SameKeyOnly(row, r) == TRUE

(* ensure_same_idempotent_request                                          *)
SameRequest(row, r) ==
  row.doc = r.doc /\ row.profile = r.profile /\ row.scenario = r.scenario

AnswerExisting(c) ==
  \E j \in Keyed(c) :
    IF SameRequest(job[j], request[c]) THEN Answer(c, "ok", job[j])
                                       ELSE Answer(c, "conflict", None)

LookUp(c) ==
  /\ at[c] = "lookup" /\ free > 0
  /\ IF Keyed(c) # {} THEN AnswerExisting(c) ELSE Go(c, "profile")
  /\ UNCHANGED <<profile, usable, job, free, lock, request, config, workers, left>>

CheckProfile(c) ==
  /\ at[c] = "profile" /\ free > 0
  /\ IF profile[request[c].profile].enabled THEN Go(c, "snapshot") ELSE Answer(c, "not_found", None)
  /\ UNCHANGED <<profile, usable, job, free, lock, request, config, workers, left>>

(* load_model_profile, load_active_prompt and from_records.                *)
TakeSnapshot(c) ==
  /\ at[c] = "snapshot" /\ free > 0
  /\ IF profile[request[c].profile].enabled
       THEN /\ config' = [config EXCEPT ![c] =
                 [settings |-> profile[request[c].profile].settings, guidance |-> ApiGuidance]]
            /\ Go(c, "begin")
       ELSE config' = config /\ Answer(c, "not_found", None)
  /\ UNCHANGED <<profile, usable, job, free, lock, request, workers, left>>

Begin(c) ==
  /\ at[c] = "begin" /\ free > 0
  /\ free' = free - 1
  /\ Go(c, "lock")
  /\ UNCHANGED <<profile, usable, job, lock, request, config, workers, left>>

(* Variant for OneJob: the document is read without FOR UPDATE.            *)
LockDocumentNot(c) ==
  /\ at[c] = "lock"
  /\ IF usable[request[c].doc]
       THEN UNCHANGED <<free, lock>> /\ Go(c, "check")
       ELSE EndTransaction(c) /\ Answer(c, "not_found", None)
  /\ UNCHANGED <<profile, usable, job, request, config, workers, left>>

(* SELECT ... FOR UPDATE: waits for the holder of the row.                 *)
LockDocument(c) ==
  /\ at[c] = "lock" /\ lock[request[c].doc] = NoCall
  /\ IF usable[request[c].doc]
       THEN /\ lock' = [lock EXCEPT ![request[c].doc] = c]
            /\ free' = free /\ Go(c, "check")
       ELSE EndTransaction(c) /\ Answer(c, "not_found", None)
  /\ UNCHANGED <<profile, usable, job, request, config, workers, left>>

Analysed(d) == \E j \in JobIds : Exists(j) /\ job[j].doc = d

(* Variant for EveryCallEnds: the second look is made with the transaction *)
(* still open, whose connection only returns with the answer.              *)
CheckJobsHolding(c) ==
  /\ at[c] = "check"
  /\ IF ~Analysed(request[c].doc) THEN Go(c, "insert") /\ UNCHANGED <<free, lock>>
     ELSE IF free = 0 THEN FALSE
     ELSE EndTransaction(c) /\ Go(c, "again")
  /\ UNCHANGED <<profile, usable, job, request, config, workers, left>>

CheckJobs(c) ==
  /\ at[c] = "check"
  /\ IF Analysed(request[c].doc) THEN EndTransaction(c) /\ Go(c, "again")
                                 ELSE UNCHANGED <<free, lock>> /\ Go(c, "insert")
  /\ UNCHANGED <<profile, usable, job, request, config, workers, left>>

(* analysis_jobs_idempotency_uq: an insert waits for a transaction that    *)
(* has inserted the same key, and is refused once the key is there.        *)
Insert(c) ==
  /\ at[c] = "insert"
  /\ \A d \in Calls \ {c} : at[d] = "commit" /\ request[d].key = request[c].key =>
       request[c].key = NoKey
  /\ IF Keyed(c) = {} THEN UNCHANGED <<free, lock>> /\ Go(c, "commit")
                      ELSE EndTransaction(c) /\ Go(c, "again")
  /\ UNCHANGED <<profile, usable, job, request, config, workers, left>>

(* Variant for RaceIsNoConflict: a document with a job is a conflict.      *)
LookAgainNot(c) ==
  /\ at[c] = "again" /\ free > 0
  /\ Answer(c, "conflict", None)
  /\ UNCHANGED <<profile, usable, job, free, lock, request, config, workers, left>>

(* Another call was first: the same request, or a conflict.                *)
LookAgain(c) ==
  /\ at[c] = "again" /\ free > 0
  /\ IF Keyed(c) # {} THEN AnswerExisting(c) ELSE Answer(c, "conflict", None)
  /\ UNCHANGED <<profile, usable, job, free, lock, request, config, workers, left>>

NewRow(c) == [doc |-> request[c].doc, key |-> request[c].key,
              profile |-> request[c].profile, scenario |-> request[c].scenario,
              status |-> "queued", owner |-> NoWorker, snapshot |-> config[c]]

(* Uuid::new_v4: never an id anyone knows.                                 *)
Fresh(j) == ~Exists(j) /\ used[j] = {} /\ \A w \in Workers : worker[w].job # j

(* The commit succeeds, whether or not the answer arrives.                 *)
Commit(c) ==
  /\ at[c] = "commit"
  /\ \E j \in JobIds : Fresh(j) /\ job' = [job EXCEPT ![j] = NewRow(c)]
  /\ config' = [config EXCEPT ![c] = None]
  /\ EndTransaction(c)
  /\ \/ Answer(c, "accepted", NewRow(c))
     \/ at' = [at EXCEPT ![c] = "lost"] /\ answer' = answer
  /\ UNCHANGED <<profile, usable, request, workers, left>>

(* The API process or the connection dies before the commit, or no         *)
(* connection is free for acquire_timeout.                                 *)
LoseCall(c) ==
  /\ at[c] \in InTransaction \cup Outside
  /\ at' = [at EXCEPT ![c] = "lost"]
  /\ IF at[c] \in InTransaction THEN EndTransaction(c) ELSE UNCHANGED <<free, lock>>
  /\ UNCHANGED <<profile, usable, job, request, config, answer, workers, left>>
-----------------------------------------------------------------------------
(* The rest of the life of a job                                           *)

Change(j, row) == job' = [job EXCEPT ![j] = row]

(* A statement that updates a documents row waits for its lock.            *)
DropInput(d) == lock[d] = NoCall /\ usable' = [usable EXCEPT ![d] = FALSE]

ExpireInput(d) ==
  /\ usable[d] /\ DropInput(d)
  /\ UNCHANGED <<profile, job, calls, workers, left>>

(* Completed or cancelled: the snapshot and the input go.                  *)
EndJob(j) ==
  /\ Exists(j) /\ job[j].status \in {"queued", "running"}
  /\ Change(j, [job[j] EXCEPT !.status = "ended", !.snapshot = None])
  /\ DropInput(job[j].doc)
  /\ UNCHANGED <<profile, calls, workers, left>>

(* By its worker or by its deadline; the row keeps its worker_id.          *)
FailJob(j) ==
  /\ Exists(j) /\ job[j].status \in {"queued", "running"}
  /\ Change(j, [job[j] EXCEPT !.status = "failed"])
  /\ UNCHANGED <<profile, usable, calls, workers, left>>

RequeueJob(j) ==
  /\ Exists(j) /\ job[j].status = "running"
  /\ Change(j, [job[j] EXCEPT !.status = "queued", !.owner = NoWorker])
  /\ UNCHANGED <<profile, usable, calls, workers, left>>

(* POST /analyses/{id}/retry: the snapshot stays.                          *)
Retry(j) ==
  /\ Exists(j) /\ job[j].status = "failed" /\ usable[job[j].doc]
  /\ Change(j, [job[j] EXCEPT !.status = "queued", !.owner = NoWorker])
  /\ UNCHANGED <<profile, usable, calls, workers, left>>

(* DELETE of the analysis: its only document goes with it.                 *)
DeleteJob(j) ==
  /\ Exists(j) /\ job[j].status \in {"failed", "ended"}
  /\ Change(j, Absent) /\ DropInput(job[j].doc)
  /\ UNCHANGED <<profile, calls, workers, left>>
-----------------------------------------------------------------------------
(* process_job up to its first model call                                  *)

Set(w, state) == worker' = [worker EXCEPT ![w] = state]
Mine(w)       == worker[w].job
Owns(w)       == Exists(Mine(w)) /\ job[Mine(w)].owner = w

Claim(w, j) ==
  /\ worker[w] = Idle /\ Exists(j) /\ job[j].status = "queued"
  /\ left.claims > 0 /\ left' = [left EXCEPT !.claims = @ - 1]
  /\ Change(j, [job[j] EXCEPT !.status = "running", !.owner = w])
  /\ Set(w, [at |-> IF job[j].snapshot = None THEN "load" ELSE "freeze",
             job |-> j, profile |-> job[j].profile, config |-> job[j].snapshot])
  /\ UNCHANGED <<profile, usable, calls, used>>

(* No snapshot: the profile as it is now, extended by from_records.        *)
LoadProfile(w) ==
  /\ worker[w].at = "load"
  /\ LET now == profile[worker[w].profile]
     IN Set(w, IF now.enabled
               THEN [worker[w] EXCEPT !.at = "store",
                       !.config = [settings |-> now.settings, guidance |-> GuidanceOf[w]]]
               ELSE Idle)
  /\ UNCHANGED <<profile, usable, job, calls, used, left>>

(* freeze_profile_guidance: a snapshot is extended once.                   *)
FreezeGuidance(w) ==
  /\ worker[w].at = "freeze"
  /\ Set(w, IF worker[w].config.guidance = 0
            THEN [worker[w] EXCEPT !.at = "store", !.config.guidance = GuidanceOf[w]]
            ELSE [worker[w] EXCEPT !.at = "work"])
  /\ UNCHANGED <<profile, usable, job, calls, used, left>>

(* Variant for OneConfiguration: the row of the job, whoever has it.       *)
SetConfigurationAny(w) ==
  /\ worker[w].at = "store"
  /\ IF Exists(Mine(w))
       THEN /\ Change(Mine(w), [job[Mine(w)] EXCEPT !.snapshot = worker[w].config])
            /\ Set(w, [worker[w] EXCEPT !.at = "work"])
       ELSE job' = job /\ Set(w, Idle)
  /\ UNCHANGED <<profile, usable, calls, used, left>>

(* set_job_configuration: WHERE worker_id = $2.                            *)
SetConfiguration(w) ==
  /\ worker[w].at = "store"
  /\ IF Owns(w)
       THEN /\ Change(Mine(w), [job[Mine(w)] EXCEPT !.snapshot = worker[w].config])
            /\ Set(w, [worker[w] EXCEPT !.at = "work"])
       ELSE job' = job /\ Set(w, Idle)
  /\ UNCHANGED <<profile, usable, calls, used, left>>

(* The guarded writes and model calls that follow.                         *)
Work(w) ==
  /\ worker[w].at = "work"
  /\ IF Owns(w) /\ job[Mine(w)].status = "running"
       THEN /\ used' = [used EXCEPT ![Mine(w)] = @ \cup {worker[w].config}]
            /\ worker' = worker
       ELSE Set(w, Idle) /\ used' = used
  /\ UNCHANGED <<profile, usable, job, calls, left>>

(* process_job ends, or the slot dies and a fresh one takes its place.     *)
LeaveJob(w) ==
  /\ worker[w] # Idle
  /\ Set(w, Idle)
  /\ UNCHANGED <<profile, usable, job, calls, used, left>>
-----------------------------------------------------------------------------
CreateStep(c) ==
  \/ LookUp(c) \/ CheckProfile(c) \/ TakeSnapshot(c) \/ Begin(c)
  \/ LockDocument(c) \/ CheckJobs(c) \/ Insert(c) \/ LookAgain(c) \/ Commit(c)

Next ==
  \/ \E p \in Profiles : EditProfile(p) \/ SetEnabled(p)
  \/ \E c \in Calls : Send(c) \/ Resend(c) \/ CreateStep(c) \/ LoseCall(c)
  \/ \E d \in Docs : ExpireInput(d)
  \/ \E j \in JobIds : EndJob(j) \/ FailJob(j) \/ RequeueJob(j) \/ Retry(j) \/ DeleteJob(j)
  \/ \E w \in Workers : \/ \E j \in JobIds : Claim(w, j)
                        \/ LoadProfile(w) \/ FreezeGuidance(w) \/ SetConfiguration(w)
                        \/ Work(w) \/ LeaveJob(w)

(* The runtime polls every call that can go on; the pool serves its        *)
(* waiters in order.  Nothing is asked of users, workers or failures.      *)
Spec     == Init /\ [][Next]_vars
FairSpec == Spec /\ \A c \in Calls : WF_vars(CreateStep(c))
-----------------------------------------------------------------------------
(* A document has one job at most, and so has a key: whichever way two     *)
(* create calls overlap, with or without keys.                             *)
OneJob ==
  \A i, j \in JobIds : i # j /\ Exists(i) /\ Exists(j) =>
    /\ job[i].doc # job[j].doc
    /\ job[i].key = job[j].key => job[i].key = NoKey

(* A successful answer names a job of the request: its document, model     *)
(* profile, scenario and key, even where another call created it.          *)
AnswersMatchRequest ==
  \A c \in Calls : answer[c] # None /\ answer[c].code \in {"ok", "accepted"} =>
    LET row == answer[c].row
    IN /\ row.key = request[c].key /\ row.doc = request[c].doc
       /\ row.profile = request[c].profile /\ row.scenario = request[c].scenario

(* A client that repeats a request, or sends it twice at once, is not told *)
(* of a conflict while the job that its request created exists.            *)
RaceIsNoConflict ==
  [][\A c \in Calls : answer'[c] # answer[c] /\ answer'[c] # None /\ answer'[c].code = "conflict" =>
       \A j \in Keyed(c) : \/ job[j].doc # request[c].doc
                            \/ job[j].profile # request[c].profile
                            \/ job[j].scenario # request[c].scenario]_vars

(* Whatever users do to the profile and whichever versions of the program  *)
(* claim, lose, fail and retry the job: it is processed with one           *)
(* configuration, the one its row keeps.                                   *)
OneConfiguration ==
  \A j \in JobIds :
    /\ \A a, b \in used[j] : a = b
    /\ Exists(j) /\ job[j].status # "ended" => used[j] \subseteq {job[j].snapshot}

(* No call waits for ever for a row, a key or a connection that another    *)
(* waiting call has.                                                       *)
EveryCallEnds ==
  \A c \in Calls : at[c] \in InTransaction \cup Outside ~> at[c] \in {"answered", "lost"}
=============================================================================

-------------------------- MODULE ChunkStoreProofs --------------------------
(***************************************************************************)
(* Theorems about ChunkStore for any number of workers, any versions with  *)
(* any plans, and any number of claims.                                    *)
(*                                                                         *)
(* The rows are written by workers that may have lost the job between a    *)
(* check and a statement.  The inductive invariant says what a worker that *)
(* overslept may still rely on, and what only the owner may.               *)
(***************************************************************************)
EXTENDS ChunkStore, FiniteSetTheorems, TLAPS

Stored(i) == row[i] # Absent /\ row[i].text = Own[i]

(* A future belongs to a chunk of the plan, and has paid for its answers.  *)
TasksPaid ==
  \A w \in Workers, i \in Indices :
    /\ task[w][i] # "none" => i \in OwnIndex /\ pc[w] \in {"run", "merge"}
    /\ task[w][i] \in {"clean", "found", "verifying", "verified"}
         => <<Own[i], "candidate">> \in billed
    /\ task[w][i] = "verified" => <<Own[i], "verification">> \in billed

(* What replace_chunks read of the rows of the plan stays true of their    *)
(* texts until it writes: no worker of the same version deletes them.      *)
ReadStays ==
  \A w \in Workers : pc[w] = "write" =>
    \A i \in OwnIndex :
      /\ seen[w][i] = "other" => row[i] # Absent
      /\ seen[w][i] = "reusable" => Stored(i)

(* Once a worker of this version wrote the plan, the rows are the plan.    *)
PlanWritten ==
  \A w \in Workers : pc[w] \in {"load", "run", "merge"} =>
    \A i \in Indices : IF i \in OwnIndex THEN Stored(i) ELSE row[i] = Absent

(* What the owner knows: nobody else stores outputs, so a chunk it has not *)
(* finished has none that it can read.                                     *)
OwnerKnows ==
  \A w \in Workers : Owns(w) =>
    /\ pc[w] \in {"load", "run", "merge"} => job.total = Len(Own)
    /\ pc[w] = "write" =>
         \A i \in OwnIndex : (Reusable(i) /\ row[i].text = Own[i]) => seen[w][i] = "reusable"
    /\ pc[w] = "run" =>
         \A i \in Indices : Reusable(i) =>
           \/ task[w][i] \in {"none", "done", "collected"}
           \/ task[w][i] = "todo" /\ row[i].out.release # release

(* The collected results are those of the chunks without an open future.   *)
Gathered ==
  \A w \in Workers :
    /\ pc[w] \in {"run", "merge"} =>
         results[w] = {<<i, Own[i]>> : i \in {j \in OwnIndex : task[w][j] \in {"none", "collected"}}}
    /\ pc[w] = "merge" => \A i \in Indices : task[w][i] \in {"none", "collected"}

Inv ==
  /\ ChunkTypeOK /\ job.completed <= job.total
  /\ TasksPaid /\ ReadStays /\ PlanWritten /\ OwnerKnows /\ Gathered
  /\ OutputsMatchText /\ ReportFromWholeText
-----------------------------------------------------------------------------
(* The plan of the running version.                                        *)
LEMMA OwnPlan ==
  ASSUME release \in Releases
  PROVE  /\ Own \in Seq(Texts) /\ Len(Own) \in Nat /\ OwnIndex \subseteq Indices
         /\ \A i \in OwnIndex : Own[i] \in Texts
         /\ IsFiniteSet(OwnIndex) /\ Cardinality(OwnIndex) = Len(Own)
         /\ Cardinality(Indices) \in Nat /\ Len(Own) <= Cardinality(Indices)
<1>1. Own \in Seq(Texts) /\ IsFiniteSet(Indices)
  BY PlanAssumption DEF Own
<1>2. Len(Own) \in Nat /\ \A i \in OwnIndex : Own[i] \in Texts
  BY <1>1 DEF OwnIndex
<1>3. OwnIndex \subseteq Indices
  BY DEF OwnIndex, Own, Indices
<1>4. IsFiniteSet(OwnIndex) /\ Cardinality(OwnIndex) = Len(Own)
  BY <1>2, FS_Interval DEF OwnIndex
<1>5. Cardinality(OwnIndex) <= Cardinality(Indices) /\ Cardinality(Indices) \in Nat
  BY <1>1, <1>3, FS_Subset, FS_CardinalityType
<1> QED
  BY <1>1, <1>2, <1>3, <1>4, <1>5

(* No more chunks can be counted than the plan has.                        *)
LEMMA CountOfPlan ==
  ASSUME release \in Releases, NEW S \in SUBSET OwnIndex
  PROVE  Cardinality(S) \in 0 .. Len(Own) /\ Len(Own) \in 0 .. Cardinality(Indices)
         /\ Cardinality(S) \in 0 .. Cardinality(Indices)
<1>1. IsFiniteSet(S) /\ Cardinality(S) <= Len(Own)
  BY OwnPlan, FS_Subset
<1>2. Cardinality(S) \in Nat
  BY <1>1, FS_CardinalityType
<1> QED
  BY <1>1, <1>2, OwnPlan

LEMMA CountOfResults ==
  ASSUME release \in Releases, NEW S \in SUBSET OwnIndex
  PROVE  LET R == {<<i, Own[i]>> : i \in S}
         IN  Cardinality(R) \in 0 .. Len(Own) /\ Cardinality(R) \in 0 .. Cardinality(Indices)
<1> DEFINE R == {<<i, Own[i]>> : i \in S}
           f == [i \in S |-> <<i, Own[i]>>]
<1>1. f \in Surjection(S, R)
  BY DEF Surjection
<1>2. IsFiniteSet(S)
  BY OwnPlan, FS_Subset
<1>3. IsFiniteSet(R) /\ Cardinality(R) <= Cardinality(S)
  BY <1>1, <1>2, FS_Surjection
<1>4. Cardinality(R) \in Nat
  BY <1>3, FS_CardinalityType
<1> QED
  BY <1>3, <1>4, CountOfPlan, OwnPlan

JobType == [state : {"queued", "running", "cancel_requested", "failed", "completed"},
            owner : Workers \cup {NoWorker},
            completed : 0 .. Cardinality(Indices), total : 0 .. Cardinality(Indices)]

(* The rest of the types, when the job row has its own.                    *)
LEMMA TypesOfRest ==
  ASSUME Inv, job' \in JobType, job'.completed <= job'.total,
         UNCHANGED <<release, row, billed, report>>, claims' \in 0 .. MaxClaims,
         pc' \in [Workers -> {"idle", "check", "read", "write", "load", "run", "merge"}],
         seen' \in [Workers -> [Indices -> {"unread", "absent", "reusable", "other"}]],
         task' \in [Workers -> [Indices -> {"none", "todo", "analyzing", "clean", "found",
                                       "verifying", "verified", "done", "failing",
                                       "failed", "collected"}]],
         results' \in [Workers -> SUBSET (Indices \X Texts)]
  PROVE  ChunkTypeOK'
  BY DEF Inv, ChunkTypeOK, JobType

(* A row that exists has a state of its own.                               *)
LEMMA RowExists ==
  ASSUME ChunkTypeOK, NEW i \in Indices, row[i] # Absent
  PROVE  row[i] \in Row
  BY DEF ChunkTypeOK

LEMMA AbsentIsNoRow == Absent \notin Row /\ Absent.state = "absent"
  BY DEF Absent, Row

LEMMA ChunkInit == Init => Inv
<1> SUFFICES ASSUME Init PROVE Inv
  OBVIOUS
<1>1. 1 \in Releases /\ release = 1
  BY ReleaseAssumption DEF Init
<1>2. ChunkTypeOK
  <2>1. Cardinality(Indices) \in Nat
    BY <1>1, OwnPlan
  <2>2. row \in [Indices -> Row \cup {Absent}] /\ seen \in [Workers -> [Indices -> {"unread"}]]
        /\ task \in [Workers -> [Indices -> {"none"}]] /\ results \in [Workers -> {{}}]
        /\ pc \in [Workers -> {"idle"}]
    BY DEF Init, Unread, NoTask
  <2> QED
    BY <1>1, <2>1, <2>2, ClaimsAssumption DEF Init, ChunkTypeOK
<1>3. TasksPaid /\ ReadStays /\ PlanWritten /\ OwnerKnows /\ Gathered
  BY DEF Init, TasksPaid, ReadStays, PlanWritten, OwnerKnows, Gathered, NoTask, Owns
<1>4. OutputsMatchText /\ ReportFromWholeText
  BY DEF Init, OutputsMatchText, ReportFromWholeText, Reusable
<1> QED
  BY <1>2, <1>3, <1>4 DEF Init, Inv
-----------------------------------------------------------------------------
(* Steps of the queue and of the checks: the rows stay, every worker goes  *)
(* on where it was, or starts afresh with nothing in hand.                 *)
Afresh(w) == /\ pc'[w] \in {"idle", "check", "read"} /\ \A i \in Indices : task'[w][i] = "none"

Goes(w) == /\ pc'[w] = pc[w] /\ seen'[w] = seen[w] /\ task'[w] = task[w]
           /\ results'[w] = results[w] /\ (Owns(w)' => Owns(w))

LEMMA QuietStep ==
  ASSUME Inv, UNCHANGED <<release, row, billed, report>>,
         ChunkTypeOK', job'.completed <= job'.total, job'.total = job.total,
         job'.state = "completed" => job.state = "completed",
         \A w \in Workers : Afresh(w) \/ Goes(w)
  PROVE  Inv'
<1>1. Own' = Own /\ OwnIndex' = OwnIndex /\ Indices' = Indices
      /\ \A i : (Reusable(i)' <=> Reusable(i)) /\ (Stored(i)' <=> Stored(i))
  BY DEF Own, OwnIndex, Reusable, Stored
<1>2. TasksPaid'
  BY <1>1 DEF Inv, TasksPaid, Afresh, Goes
<1>3. ReadStays'
  BY <1>1 DEF Inv, ReadStays, Afresh, Goes
<1>4. PlanWritten'
  BY <1>1 DEF Inv, PlanWritten, Afresh, Goes
<1>5. OwnerKnows'
  BY <1>1 DEF Inv, OwnerKnows, Afresh, Goes
<1>6. Gathered'
  BY <1>1 DEF Inv, Gathered, Afresh, Goes
<1>7. OutputsMatchText' /\ ReportFromWholeText'
  BY <1>1 DEF Inv, OutputsMatchText, ReportFromWholeText
<1> QED
  BY <1>2, <1>3, <1>4, <1>5, <1>6, <1>7 DEF Inv

(* A worker that leaves takes its futures and results with it.             *)
LEMMA LeaveAfresh ==
  ASSUME ChunkTypeOK, NEW w \in Workers, Leave(w)
  PROVE  /\ Afresh(w)
         /\ \A v \in Workers \ {w} : /\ pc'[v] = pc[v] /\ seen'[v] = seen[v]
                                     /\ task'[v] = task[v] /\ results'[v] = results[v]
         /\ pc' \in [Workers -> {"idle", "check", "read", "write", "load", "run", "merge"}]
         /\ seen' \in [Workers -> [Indices -> {"unread", "absent", "reusable", "other"}]]
         /\ task' \in [Workers -> [Indices -> {"none", "todo", "analyzing", "clean", "found",
                                       "verifying", "verified", "done", "failing",
                                       "failed", "collected"}]]
         /\ results' \in [Workers -> SUBSET (Indices \X Texts)]
<1>1. NoTask \in [Indices -> {"none"}] /\ Unread \in [Indices -> {"unread"}]
  BY DEF NoTask, Unread
<1> QED
  BY <1>1 DEF ChunkTypeOK, Leave, Afresh

LEMMA QueueKeeps ==
  ASSUME Inv, NEW w \in Workers, Claim(w) \/ Stop(w) \/ JobError(w) \/ ReplaceCheck(w)
  PROVE  Inv'
<1> USE DEF Inv
<1>1. CASE Claim(w)
  <2>0. job' \in JobType /\ job'.completed <= job'.total /\ job'.total = job.total /\ job'.state # "completed"
    BY <1>1 DEF Claim, ChunkTypeOK, JobType
  <2>5. claims' \in 0 .. MaxClaims
    BY <1>1, ClaimsAssumption DEF Claim, ChunkTypeOK
  <2>1. ChunkTypeOK'
    <3>1. pc' \in [Workers -> {"idle", "check", "read", "write", "load", "run", "merge"}]
          /\ seen' = seen /\ task' = task /\ results' = results
      BY <1>1 DEF Claim, Go, ChunkTypeOK
    <3> QED
      BY <1>1, <2>0, <2>5, <3>1, TypesOfRest DEF Claim, ChunkTypeOK
  <2>2. Afresh(w)
    BY <1>1 DEF Claim, Go, ChunkTypeOK, TasksPaid, Afresh
  <2>3. \A v \in Workers \ {w} : Goes(v)
    BY <1>1 DEF Claim, Go, ChunkTypeOK, Goes, Owns
  <2> QED
    BY <1>1, <2>0, <2>1, <2>2, <2>3, QuietStep DEF Claim
<1>2. CASE Stop(w)
  <2>1. ChunkTypeOK'
    BY <1>2, LeaveAfresh DEF Stop, ChunkTypeOK
  <2>2. Afresh(w) /\ \A v \in Workers \ {w} : Goes(v)
    BY <1>2, LeaveAfresh DEF Stop, Goes, Owns
  <2> QED
    BY <1>2, <2>1, <2>2, QuietStep DEF Stop
<1>3. CASE JobError(w)
  <2>0. job' \in JobType /\ job'.completed <= job'.total /\ job'.total = job.total /\ job'.state # "completed"
    BY <1>3 DEF JobError, ChunkTypeOK, JobType
  <2>1. ChunkTypeOK'
    BY <1>3, <2>0, LeaveAfresh, TypesOfRest DEF JobError, ChunkTypeOK
  <2>2. Afresh(w) /\ \A v \in Workers \ {w} : Goes(v)
    BY <1>3, LeaveAfresh DEF JobError, Goes, Owns, ChunkTypeOK
  <2> QED
    BY <1>3, <2>0, <2>1, <2>2, QuietStep DEF JobError
<1>4. CASE ReplaceCheck(w)
  <2>1. ChunkTypeOK'
    BY <1>4 DEF ReplaceCheck, Go, ChunkTypeOK
  <2>2. Afresh(w)
    BY <1>4 DEF ReplaceCheck, Go, ChunkTypeOK, TasksPaid, Afresh
  <2>3. \A v \in Workers \ {w} : Goes(v)
    BY <1>4 DEF ReplaceCheck, Go, ChunkTypeOK, Goes, Owns
  <2> QED
    BY <1>4, <2>1, <2>2, <2>3, QuietStep DEF ReplaceCheck
<1> QED
  BY <1>1, <1>2, <1>3, <1>4

LEMMA RowKeeps ==
  ASSUME Inv, LoseLease \/ Retry \/ CancelRequest
  PROVE  Inv'
<1> USE DEF Inv
<1>1. UNCHANGED <<release, row, billed, report, claims, local>>
  BY DEF LoseLease, Retry, CancelRequest
<1>2. /\ job' \in JobType /\ job'.completed <= job'.total /\ job'.total = job.total
      /\ job'.state \notin {"completed", "running"}
  <2>1. job \in JobType /\ 0 <= job.total /\ 0 \in 0 .. Cardinality(Indices)
    BY OwnPlan DEF ChunkTypeOK, JobType
  <2>2. CASE LoseLease
    BY <2>1, <2>2 DEF LoseLease, JobType
  <2>3. CASE Retry
    BY <2>1, <2>3 DEF Retry, JobType
  <2>4. CASE CancelRequest
    BY <2>1, <2>4 DEF CancelRequest, JobType
  <2> QED
    BY <2>2, <2>3, <2>4
<1>3. ChunkTypeOK'
  BY <1>1, <1>2, TypesOfRest DEF ChunkTypeOK, local
<1>4. \A v \in Workers : Goes(v)
  BY <1>1, <1>2 DEF Goes, Owns, local
<1> QED
  BY <1>1, <1>2, <1>3, <1>4, QuietStep

LEMMA UpgradeKeeps == ASSUME Inv, Upgrade PROVE Inv'
<1> USE DEF Inv
<1>1. \A w \in Workers : pc'[w] = "idle" /\ task'[w] = NoTask
  BY DEF Upgrade
<1>2. ChunkTypeOK' /\ job'.completed <= job'.total
  <2>1. NoTask \in [Indices -> {"none"}] /\ Unread \in [Indices -> {"unread"}]
    BY DEF NoTask, Unread
  <2> QED
    BY <2>1 DEF Upgrade, ChunkTypeOK
<1>3. TasksPaid'
  BY <1>1 DEF TasksPaid, NoTask
<1>4. ReadStays' /\ PlanWritten' /\ OwnerKnows' /\ Gathered'
  BY <1>1 DEF ReadStays, PlanWritten, OwnerKnows, Gathered
<1>5. OutputsMatchText' /\ ReportFromWholeText'
  BY DEF Upgrade, OutputsMatchText, ReportFromWholeText, Reusable
<1> QED
  BY <1>2, <1>3, <1>4, <1>5
-----------------------------------------------------------------------------
(* The SELECTs: what was read is true when it is read.                     *)
LEMMA ReadKeeps == ASSUME Inv, NEW w \in Workers, ReplaceRead(w) PROVE Inv'
<1> USE DEF Inv
<1>1. UNCHANGED <<release, job, row, billed, task, results, report, claims>>
  BY DEF ReplaceRead
<1>2. Own' = Own /\ OwnIndex' = OwnIndex /\ OwnIndex \subseteq Indices
      /\ \A i : (Reusable(i)' <=> Reusable(i)) /\ (Stored(i)' <=> Stored(i))
  BY <1>1, OwnPlan DEF Own, OwnIndex, Reusable, Stored, ChunkTypeOK
<1>3. /\ seen' \in [Workers -> [Indices -> {"unread", "absent", "reusable", "other"}]]
      /\ pc' \in [Workers -> {"idle", "check", "read", "write", "load", "run", "merge"}]
      /\ pc[w] = "read" /\ pc'[w] = "write"
      /\ \A v \in Workers \ {w} : pc'[v] = pc[v] /\ seen'[v] = seen[v]
      /\ \A i \in Indices : seen'[w][i] =
           IF row[i] = Absent THEN "absent"
             ELSE IF i \in OwnIndex /\ Reusable(i) /\ row[i].text = Own[i] THEN "reusable"
             ELSE "other"
  <2>1. /\ seen' \in [Workers -> [Indices -> {"unread", "absent", "reusable", "other"}]]
        /\ pc' \in [Workers -> {"idle", "check", "read", "write", "load", "run", "merge"}]
        /\ pc[w] = "read" /\ pc'[w] = "write"
        /\ \A v \in Workers \ {w} : pc'[v] = pc[v] /\ seen'[v] = seen[v]
    BY DEF ReplaceRead, Go, ChunkTypeOK
  <2>2. ASSUME NEW i \in Indices
        PROVE  seen'[w][i] =
                 CASE row[i] = Absent -> "absent"
                   [] i \in OwnIndex /\ Reusable(i) /\ row[i].text = Own[i] -> "reusable"
                   [] OTHER -> "other"
    BY DEF ReplaceRead, ChunkTypeOK
  <2>3. \A i \in Indices : Reusable(i) => row[i] # Absent
    BY DEF Reusable
  <2>4. ASSUME NEW i \in Indices
        PROVE  seen'[w][i] =
                 IF row[i] = Absent THEN "absent"
                   ELSE IF i \in OwnIndex /\ Reusable(i) /\ row[i].text = Own[i] THEN "reusable"
                   ELSE "other"
    <3>1. CASE row[i] = Absent
      BY <2>2, <2>3, <3>1
    <3>2. CASE row[i] # Absent /\ i \in OwnIndex /\ Reusable(i) /\ row[i].text = Own[i]
      BY <2>2, <3>2
    <3>3. CASE row[i] # Absent /\ ~(i \in OwnIndex /\ Reusable(i) /\ row[i].text = Own[i])
      BY <2>2, <3>3
    <3> QED
      BY <3>1, <3>2, <3>3
  <2> QED
    BY <2>1, <2>4
<1>4. ChunkTypeOK'
  BY <1>1, <1>3 DEF ChunkTypeOK
<1>5. TasksPaid'
  BY <1>1, <1>2, <1>3 DEF TasksPaid
<1>6. ReadStays'
  <2>1. \A i \in OwnIndex : (seen'[w][i] = "other" => row[i] # Absent)
                           /\ (seen'[w][i] = "reusable" => Stored(i))
    BY <1>2, <1>3 DEF Stored
  <2>2. \A v \in Workers \ {w} : pc'[v] = "write" =>
          \A i \in OwnIndex : (seen'[v][i] = "other" => row[i] # Absent)
                            /\ (seen'[v][i] = "reusable" => Stored(i))
    BY <1>3 DEF ReadStays
  <2> QED
    BY <1>1, <1>2, <2>1, <2>2 DEF ReadStays
<1>7. PlanWritten'
  BY <1>1, <1>2, <1>3 DEF PlanWritten
<1>8. OwnerKnows'
  BY <1>1, <1>2, <1>3 DEF OwnerKnows, Owns, Reusable
<1>9. Gathered'
  BY <1>1, <1>2, <1>3 DEF Gathered
<1>10. OutputsMatchText' /\ ReportFromWholeText'
  BY <1>1, <1>2 DEF OutputsMatchText, ReportFromWholeText
<1> QED
  BY <1>1, <1>4, <1>5, <1>6, <1>7, <1>8, <1>9, <1>10

(* The write: the rows become the plan; a stored row is kept or begun anew. *)
LEMMA WrittenRows ==
  ASSUME Inv, NEW w \in Workers, ReplaceWrite(w)
  PROVE  /\ row' \in [Indices -> Row \cup {Absent}]
         /\ \A i \in Indices : IF i \in OwnIndex THEN row'[i] # Absent /\ row'[i].text = Own[i]
                                                 ELSE row'[i] = Absent
         /\ \A i \in Indices : Reusable(i)' => row'[i] = row[i] /\ Reusable(i)
         /\ \A i \in OwnIndex : seen[w][i] = "reusable" => row'[i] = row[i]
<1> USE DEF Inv
<1>1. pc[w] = "write" /\ row' = Replaced(w) /\ release' = release /\ OwnIndex \subseteq Indices
      /\ \A i \in OwnIndex : Own[i] \in Texts
  BY OwnPlan DEF ReplaceWrite, ChunkTypeOK
<1> DEFINE Fresh(i) == [state |-> "pending", text |-> Own[i], out |-> NoOutput]
<1>2. \A i \in OwnIndex : Fresh(i) \in Row /\ Fresh(i) # Absent /\ Fresh(i).text = Own[i]
                          /\ Fresh(i).state = "pending"
  <2>1. \A i \in OwnIndex : Fresh(i) \in Row /\ Fresh(i).text = Own[i] /\ Fresh(i).state = "pending"
    BY <1>1 DEF Row
  <2> QED
    BY <2>1, AbsentIsNoRow
<1> HIDE DEF Fresh
<1>3. \A i \in OwnIndex :
        \/ seen[w][i] = "reusable" /\ row'[i] = row[i] /\ row[i] # Absent /\ row[i].text = Own[i]
        \/ seen[w][i] # "reusable" /\ row'[i] = Fresh(i)
  BY <1>1 DEF Replaced, ReadStays, Stored, Fresh
<1>4. \A i \in Indices \ OwnIndex : row'[i] = Absent
  BY <1>1 DEF Replaced
<1>5. row' \in [Indices -> Row \cup {Absent}]
  <2>1. row' = [i \in Indices |-> row'[i]]
    BY <1>1 DEF Replaced
  <2>2. \A i \in Indices : row'[i] \in Row \cup {Absent}
    BY <1>1, <1>2, <1>3, <1>4 DEF ChunkTypeOK
  <2> QED
    BY <2>1, <2>2
<1>6. \A i \in Indices : Reusable(i)' => row'[i] = row[i] /\ Reusable(i)
  BY <1>1, <1>2, <1>3, <1>4, AbsentIsNoRow DEF Reusable
<1> QED
  BY <1>1, <1>2, <1>3, <1>4, <1>5, <1>6

LEMMA WriteKeeps == ASSUME Inv, NEW w \in Workers, ReplaceWrite(w) PROVE Inv'
<1> USE DEF Inv
<1>1. UNCHANGED <<release, billed, task, results, report, claims>> /\ release \in Releases
  BY DEF ReplaceWrite, ChunkTypeOK
<1>2. Own' = Own /\ OwnIndex' = OwnIndex /\ OwnIndex \subseteq Indices
  BY <1>1, OwnPlan DEF Own, OwnIndex
<1>3. /\ seen' \in [Workers -> [Indices -> {"unread", "absent", "reusable", "other"}]]
      /\ pc' \in [Workers -> {"idle", "check", "read", "write", "load", "run", "merge"}]
      /\ pc[w] = "write" /\ pc'[w] = "load"
      /\ \A v \in Workers \ {w} : pc'[v] = pc[v] /\ seen'[v] = seen[v]
  <2>1. Unread \in [Indices -> {"unread"}]
    BY DEF Unread
  <2> QED
    BY <2>1 DEF ReplaceWrite, Go, ChunkTypeOK
<1>4. /\ job' \in JobType /\ job'.completed <= job'.total
      /\ job'.state = job.state /\ job'.owner = job.owner
      /\ job.owner = w => job'.total = Len(Own)
      /\ job.owner # w => job' = job
  <2>1. job \in JobType
    BY DEF ChunkTypeOK, JobType
  <2>2. CASE job.owner = w
    <3>1. job' = [job EXCEPT !.total = Len(Own), !.completed = Completed(row')]
      BY <2>2 DEF ReplaceWrite
    <3>2. {i \in Indices : row'[i].state = "completed"} \subseteq OwnIndex
      BY WrittenRows, AbsentIsNoRow
    <3>3. Completed(row') \in 0 .. Len(Own) /\ Completed(row') \in 0 .. Cardinality(Indices)
          /\ Len(Own) \in 0 .. Cardinality(Indices)
      BY <1>1, <3>2, CountOfPlan DEF Completed
    <3> DEFINE count == Completed(row')
               whole == Len(Own)
    <3>4. count \in 0 .. whole /\ count \in 0 .. Cardinality(Indices) /\ whole \in 0 .. Cardinality(Indices)
          /\ job' = [job EXCEPT !.total = whole, !.completed = count]
      BY <3>1, <3>3
    <3> HIDE DEF count, whole
    <3>5. job' = [state |-> job.state, owner |-> job.owner, completed |-> count, total |-> whole]
      BY <2>1, <3>4 DEF JobType
    <3>6. job' \in JobType /\ count <= whole
      BY <2>1, <3>4, <3>5 DEF JobType
    <3> QED
      BY <2>2, <3>5, <3>6 DEF whole
  <2>3. CASE job.owner # w
    BY <2>1, <2>3 DEF ReplaceWrite
  <2> QED
    BY <2>2, <2>3
<1>5. ChunkTypeOK'
  BY <1>1, <1>3, <1>4, WrittenRows DEF ChunkTypeOK, JobType
<1>6. TasksPaid'
  BY <1>1, <1>2, <1>3 DEF TasksPaid
<1>7. ReadStays'
  BY <1>1, <1>2, <1>3, WrittenRows DEF ReadStays, Stored
<1>8. PlanWritten'
  BY <1>1, <1>2, <1>3, WrittenRows DEF PlanWritten, Stored
<1>9. OwnerKnows'
  <2> SUFFICES ASSUME NEW v \in Workers, Owns(v)'
               PROVE  /\ pc'[v] \in {"load", "run", "merge"} => job'.total = Len(Own)
                      /\ pc'[v] = "write" =>
                           \A i \in OwnIndex : (Reusable(i)' /\ row'[i].text = Own[i]) => seen'[v][i] = "reusable"
                      /\ pc'[v] = "run" =>
                           \A i \in Indices : Reusable(i)' =>
                             \/ task[v][i] \in {"none", "done", "collected"}
                             \/ task[v][i] = "todo" /\ row'[i].out.release # release
    BY <1>1, <1>2 DEF OwnerKnows
  <2>1. Owns(v)
    BY <1>4 DEF Owns
  <2>2. CASE v = w
    BY <1>3, <1>4, <2>1, <2>2 DEF Owns
  <2>3. CASE v # w
    BY <1>2, <1>3, <1>4, <2>1, <2>3, WrittenRows DEF Owns, OwnerKnows
  <2> QED
    BY <2>2, <2>3
<1>10. Gathered'
  BY <1>1, <1>2, <1>3 DEF Gathered
<1>11. OutputsMatchText' /\ ReportFromWholeText'
  BY <1>1, <1>4, WrittenRows DEF OutputsMatchText, ReportFromWholeText
<1> QED
  BY <1>4, <1>5, <1>6, <1>7, <1>8, <1>9, <1>10, <1>11

(* The stored outputs: what is loaded is the plan's, the rest is to do.    *)
LEMMA LoadKeeps == ASSUME Inv, NEW w \in Workers, Load(w) PROVE Inv'
<1> USE DEF Inv
<1>1. UNCHANGED <<release, row, billed, seen, report, claims>> /\ release \in Releases
      /\ Owns(w) /\ pc[w] = "load"
  BY DEF Load, ChunkTypeOK
<1>2. Own' = Own /\ OwnIndex' = OwnIndex /\ OwnIndex \subseteq Indices
      /\ \A i : (Reusable(i)' <=> Reusable(i)) /\ (Stored(i)' <=> Stored(i))
  BY <1>1, OwnPlan DEF Own, OwnIndex, Reusable, Stored
<1>3. PICK unreadable \in SUBSET {i \in OwnIndex : Reusable(i) /\ row[i].out.release # release} :
        LET reused == {i \in OwnIndex : Reusable(i)} \ unreadable
        IN /\ results' = [results EXCEPT ![w] = {<<i, row[i].out.text>> : i \in reused}]
           /\ task' = [task EXCEPT ![w] = [i \in Indices |->
                         IF i \in OwnIndex \ reused THEN "todo" ELSE "none"]]
           /\ job' = [job EXCEPT !.completed = Cardinality(reused)]
  BY DEF Load
<1> DEFINE reused == {i \in OwnIndex : Reusable(i)} \ unreadable
           T == [i \in Indices |-> IF i \in OwnIndex \ reused THEN "todo" ELSE "none"]
<1>4. \A i \in reused : row[i].out.text = Own[i]
  BY <1>1, <1>2 DEF OutputsMatchText, PlanWritten, Stored
<1>5. {<<i, row[i].out.text>> : i \in reused} = {<<i, Own[i]>> : i \in reused}
  BY <1>4
<1>6. T \in [Indices -> {"todo", "none"}]
      /\ \A i \in Indices : T[i] = IF i \in OwnIndex \ reused THEN "todo" ELSE "none"
  OBVIOUS
<1>7. /\ pc' \in [Workers -> {"idle", "check", "read", "write", "load", "run", "merge"}]
      /\ pc'[w] = "run" /\ \A v \in Workers \ {w} : pc'[v] = pc[v]
  BY DEF Load, Go, ChunkTypeOK
<1>8. /\ job' \in JobType /\ job'.completed <= job'.total
      /\ job'.state = job.state /\ job'.owner = job.owner /\ job'.total = job.total
  <2>1. job \in JobType /\ job.total = Len(Own)
    BY <1>1 DEF ChunkTypeOK, JobType, OwnerKnows
  <2>2. Cardinality(reused) \in 0 .. Len(Own) /\ Cardinality(reused) \in 0 .. Cardinality(Indices)
    BY <1>1, CountOfPlan
  <2> QED
    BY <1>3, <2>1, <2>2, OwnPlan DEF JobType
<1>9. /\ results' \in [Workers -> SUBSET (Indices \X Texts)]
      /\ results'[w] = {<<i, Own[i]>> : i \in reused}
      /\ \A v \in Workers \ {w} : results'[v] = results[v]
  <2>1. {<<i, Own[i]>> : i \in reused} \in SUBSET (Indices \X Texts)
    BY <1>1, <1>2, OwnPlan
  <2> QED
    BY <1>3, <1>5, <2>1 DEF ChunkTypeOK
<1>10. /\ task' \in [Workers -> [Indices -> {"none", "todo", "analyzing", "clean", "found",
                                       "verifying", "verified", "done", "failing",
                                       "failed", "collected"}]]
       /\ task'[w] = T /\ \A v \in Workers \ {w} : task'[v] = task[v]
  BY <1>3, <1>6 DEF ChunkTypeOK
<1> HIDE DEF T
<1>11. ChunkTypeOK'
  BY <1>1, <1>7, <1>8, <1>9, <1>10 DEF ChunkTypeOK, JobType
<1>12. TasksPaid'
  BY <1>1, <1>2, <1>6, <1>7, <1>10 DEF TasksPaid
<1>13. ReadStays'
  BY <1>1, <1>2, <1>7 DEF ReadStays
<1>14. PlanWritten'
  BY <1>1, <1>2, <1>7 DEF PlanWritten
<1>15. OwnerKnows'
  <2> SUFFICES ASSUME NEW v \in Workers, Owns(v)'
               PROVE  v = w /\ job'.total = Len(Own)
                      /\ \A i \in Indices : Reusable(i) =>
                             \/ T[i] \in {"none", "done", "collected"}
                             \/ T[i] = "todo" /\ row[i].out.release # release
    BY <1>1, <1>2, <1>7, <1>10 DEF OwnerKnows
  <2>1. v = w /\ job'.total = Len(Own)
    BY <1>1, <1>8 DEF Owns, OwnerKnows
  <2>2. \A i \in OwnIndex : Reusable(i) => i \in reused \/ row[i].out.release # release
    OBVIOUS
  <2> QED
    BY <1>6, <2>1, <2>2
<1>16. Gathered'
  <2>1. reused = {j \in OwnIndex : T[j] \in {"none", "collected"}}
    BY <1>2, <1>6
  <2> QED
    BY <1>1, <1>2, <1>7, <1>9, <1>10, <2>1 DEF Gathered
<1>17. OutputsMatchText' /\ ReportFromWholeText'
  BY <1>1, <1>2, <1>8 DEF OutputsMatchText, ReportFromWholeText
<1> QED
  BY <1>8, <1>11, <1>12, <1>13, <1>14, <1>15, <1>16, <1>17
-----------------------------------------------------------------------------
(* The futures.  What a step of one may do to the rows: only the owner     *)
(* touches them, only its own chunk, and only outputs it paid for make a   *)
(* row reusable.                                                           *)
Open == {"todo", "analyzing", "clean", "found", "verifying", "verified", "done", "failing", "failed"}

Touches(w, i, to) ==
  /\ row' \in [Indices -> Row \cup {Absent}]
  /\ \A j \in Indices : /\ row'[j] = Absent <=> row[j] = Absent
                        /\ row[j] # Absent => row'[j].text = row[j].text
                        /\ j # i => row'[j] = row[j]
  /\ \/ row' = row /\ to # "done"
     \/ Owns(w) /\ to # "done" /\ ~Reusable(i)'
     \/ Owns(w) /\ to = "done" /\ row'[i].out.text = Own[i]
        /\ <<Own[i], "candidate">> \in billed
        /\ (row'[i].out.verified => <<Own[i], "verification">> \in billed)

LEMMA FutureStep ==
  ASSUME Inv, NEW w \in Workers, NEW i \in Indices, NEW to \in Open \ {"todo"},
         pc[w] = "run", task[w][i] \in Open, TaskGo(w, i, to),
         UNCHANGED <<release, job, pc, seen, results, report, claims>>,
         Touches(w, i, to),
         billed \subseteq billed', billed' \subseteq Texts \X Passes,
         to \in {"clean", "found", "verifying", "verified"} => <<Own[i], "candidate">> \in billed',
         to = "verified" => <<Own[i], "verification">> \in billed',
         task[w][i] = "todo" => Owns(w) /\ ~Reusable(i)',
         task[w][i] \notin {"done", "failed"}
  PROVE  Inv'
<1> USE DEF Inv
<1>1. Own' = Own /\ OwnIndex' = OwnIndex /\ Indices' = Indices /\ OwnIndex \subseteq Indices
      /\ \A v : Owns(v)' <=> Owns(v)
  BY OwnPlan DEF Own, OwnIndex, ChunkTypeOK, Owns
<1>2. i \in OwnIndex
  BY DEF TasksPaid, Open
<1>3. /\ task' \in [Workers -> [Indices -> {"none"} \cup Open \cup {"collected"}]]
      /\ task'[w][i] = to
      /\ \A j \in Indices \ {i} : task'[w][j] = task[w][j]
      /\ \A v \in Workers \ {w} : task'[v] = task[v]
  BY DEF TaskGo, ChunkTypeOK, Open
<1>4. \A j \in Indices : Stored(j) => Stored(j)'
  BY <1>1 DEF Touches, Stored
<1>5. \A j \in Indices \ {i} : Reusable(j)' <=> Reusable(j)
  BY DEF Touches, Reusable
<1>6. ChunkTypeOK'
  BY <1>3 DEF ChunkTypeOK, Touches, Open
<1>7. TasksPaid'
  <2> SUFFICES ASSUME NEW v \in Workers, NEW j \in Indices
               PROVE  /\ task'[v][j] # "none" => j \in OwnIndex /\ pc[v] \in {"run", "merge"}
                      /\ task'[v][j] \in {"clean", "found", "verifying", "verified"}
                           => <<Own[j], "candidate">> \in billed'
                      /\ task'[v][j] = "verified" => <<Own[j], "verification">> \in billed'
    BY <1>1 DEF TasksPaid
  <2>1. CASE v = w /\ j = i
    BY <1>2, <1>3, <2>1
  <2>2. CASE ~(v = w /\ j = i)
    <3>1. task'[v][j] = task[v][j]
      BY <1>3, <2>2
    <3> QED
      BY <3>1 DEF TasksPaid
  <2> QED
    BY <2>1, <2>2
<1>8. ReadStays'
  BY <1>1, <1>4 DEF ReadStays, Touches
<1>9. PlanWritten'
  BY <1>1, <1>4 DEF PlanWritten, Touches
<1>10. OwnerKnows'
  <2> SUFFICES ASSUME NEW v \in Workers, Owns(v)
               PROVE  /\ pc[v] \in {"load", "run", "merge"} => job.total = Len(Own)
                      /\ pc[v] = "write" =>
                           \A j \in OwnIndex : (Reusable(j)' /\ row'[j].text = Own[j]) => seen[v][j] = "reusable"
                      /\ pc[v] = "run" =>
                           \A j \in Indices : Reusable(j)' =>
                             \/ task'[v][j] \in {"none", "done", "collected"}
                             \/ task'[v][j] = "todo" /\ row'[j].out.release # release
    BY <1>1 DEF OwnerKnows
  <2>1. CASE v = w
    <3>1. \A j \in Indices \ {i} : Reusable(j)' =>
             \/ task'[w][j] \in {"none", "done", "collected"}
             \/ task'[w][j] = "todo" /\ row'[j].out.release # release
      BY <1>3, <1>5, <2>1 DEF OwnerKnows, Touches
    <3>2. Reusable(i)' => to = "done"
      <4>1. CASE row' = row
        <5>1. Reusable(i)' <=> Reusable(i)
          BY <4>1 DEF Reusable
        <5>2. task[w][i] # "todo" => (Reusable(i) => task[w][i] = "done")
          BY <2>1 DEF OwnerKnows, Open
        <5> QED
          BY <5>1, <5>2
      <4>2. CASE row' # row
        BY <4>2 DEF Touches
      <4> QED
        BY <4>1, <4>2
    <3> QED
      BY <1>3, <2>1, <3>1, <3>2 DEF OwnerKnows
  <2>2. CASE v # w
    <3>1. row' = row
      BY <2>2 DEF Touches, Owns
    <3>2. task'[v] = task[v] /\ \A j : Reusable(j)' <=> Reusable(j)
      BY <1>3, <2>2, <3>1 DEF Reusable
    <3> QED
      BY <3>1, <3>2 DEF OwnerKnows
  <2> QED
    BY <2>1, <2>2
<1>11. Gathered'
  <2>1. to \notin {"none", "collected"} /\ task[w][i] \notin {"none", "collected"}
    BY DEF Open
  <2>2. \A v \in Workers, j \in Indices :
          task'[v][j] \in {"none", "collected"} <=> task[v][j] \in {"none", "collected"}
    BY <1>3, <2>1
  <2> QED
    BY <1>1, <2>2 DEF Gathered
<1>12. OutputsMatchText'
  <2> SUFFICES ASSUME NEW j \in Indices, Reusable(j)'
               PROVE  /\ row'[j].out.text = row'[j].text
                      /\ <<row'[j].text, "candidate">> \in billed'
                      /\ row'[j].out.verified => <<row'[j].text, "verification">> \in billed'
    BY <1>1 DEF OutputsMatchText
  <2>1. CASE row'[j] = row[j]
    BY <2>1 DEF OutputsMatchText, Reusable
  <2>2. CASE row'[j] # row[j]
    <3>1. j = i /\ row'[i].out.text = Own[i] /\ <<Own[i], "candidate">> \in billed
          /\ (row'[i].out.verified => <<Own[i], "verification">> \in billed)
      BY <2>2 DEF Touches
    <3>2. row'[i].text = Own[i]
      BY <1>2 DEF PlanWritten, Stored, Touches
    <3> QED
      BY <3>1, <3>2
  <2> QED
    BY <2>1, <2>2
<1>13. ReportFromWholeText'
  BY DEF ReportFromWholeText
<1> QED
  BY <1>6, <1>7, <1>8, <1>9, <1>10, <1>11, <1>12, <1>13

(* A statement that sets the state of one row keeps its text and outputs.  *)
LEMMA StateChange ==
  ASSUME ChunkTypeOK, NEW i \in Indices, row[i] # Absent,
         NEW s \in {"analyzing", "verifying", "failed"}, row' = [row EXCEPT ![i].state = s]
  PROVE  /\ row' \in [Indices -> Row \cup {Absent}] /\ ~Reusable(i)'
         /\ \A j \in Indices : /\ row'[j] = Absent <=> row[j] = Absent
                               /\ row[j] # Absent => row'[j].text = row[j].text
                               /\ j # i => row'[j] = row[j]
<1>1. row[i] \in Row
  BY RowExists
<1> DEFINE new == [row[i] EXCEPT !.state = s]
<1>2. new \in Row /\ new.state = s /\ new.text = row[i].text
  BY <1>1 DEF Row
<1>3. row'[i] = new /\ (\A j \in Indices \ {i} : row'[j] = row[j])
      /\ row' = [row EXCEPT ![i] = new]
  BY DEF ChunkTypeOK
<1> HIDE DEF new
<1>4. new # Absent
  BY <1>2, AbsentIsNoRow
<1>5. row' \in [Indices -> Row \cup {Absent}]
  BY <1>2, <1>3 DEF ChunkTypeOK
<1>6. ~Reusable(i)'
  BY <1>2, <1>3 DEF Reusable
<1> QED
  BY <1>2, <1>3, <1>4, <1>5, <1>6

(* The chunk of a future is a row of the plan.                             *)
LEMMA FutureRow ==
  ASSUME Inv, NEW w \in Workers, NEW i \in Indices, pc[w] = "run", task[w][i] # "none"
  PROVE  i \in OwnIndex /\ row[i] # Absent /\ row[i].text = Own[i] /\ Own[i] \in Texts
  BY OwnPlan DEF Inv, TasksPaid, PlanWritten, Stored, ChunkTypeOK

LEMMA BilledGrows ==
  ASSUME Inv, NEW w \in Workers, NEW i \in OwnIndex, NEW pass \in Passes, Bill(w, i, pass)
  PROVE  billed \subseteq billed' /\ billed' \subseteq Texts \X Passes /\ <<Own[i], pass>> \in billed'
  BY OwnPlan DEF Inv, ChunkTypeOK, Bill

LEMMA ChunkKeeps ==
  ASSUME Inv, NEW w \in Workers, NEW i \in Indices,
         \/ BeginChunk(w, i) \/ CallCandidates(w, i) \/ MarkVerifying(w, i)
         \/ CallVerifier(w, i) \/ SaveOutputs(w, i) \/ MarkFailed(w, i)
  PROVE  Inv'
<1>0. billed \subseteq Texts \X Passes /\ row \in [Indices -> Row \cup {Absent}]
  BY DEF Inv, ChunkTypeOK
<1>1. CASE BeginChunk(w, i)
  <2>1. row' = [row EXCEPT ![i].state = "analyzing"] /\ row[i] # Absent /\ ChunkTypeOK
        /\ billed' = billed /\ TaskGo(w, i, "analyzing") /\ Owns(w) /\ pc[w] = "run" /\ task[w][i] = "todo"
        /\ UNCHANGED <<release, job, pc, seen, results, report, claims>>
    BY <1>1, FutureRow DEF BeginChunk, Inv
  <2>2. Touches(w, i, "analyzing") /\ ~Reusable(i)'
    BY <2>1, StateChange DEF Touches
  <2> QED
    BY <1>0, <2>1, <2>2, FutureStep DEF Open
<1>2. CASE CallCandidates(w, i)
  <2>1. PICK to \in {"clean", "found", "failing"} :
          /\ TaskGo(w, i, to)
          /\ IF to = "failing" THEN billed' = billed ELSE Bill(w, i, "candidate")
    BY <1>2 DEF CallCandidates
  <2>2. pc[w] = "run" /\ task[w][i] = "analyzing" /\ row' = row
        /\ UNCHANGED <<release, job, pc, seen, results, report, claims>>
    BY <1>2 DEF CallCandidates
  <2>3. Touches(w, i, to)
    BY <1>0, <2>2 DEF Touches
  <2>4. billed \subseteq billed' /\ billed' \subseteq Texts \X Passes
        /\ (to # "failing" => <<Own[i], "candidate">> \in billed')
    BY <1>0, <2>1, <2>2, FutureRow, BilledGrows DEF Passes
  <2> QED
    BY <2>1, <2>2, <2>3, <2>4, FutureStep DEF Open
<1>3. CASE MarkVerifying(w, i)
  <2>1. row' = [row EXCEPT ![i].state = "verifying"] /\ row[i] # Absent /\ ChunkTypeOK
        /\ billed' = billed /\ TaskGo(w, i, "verifying") /\ Owns(w) /\ pc[w] = "run" /\ task[w][i] = "found"
        /\ UNCHANGED <<release, job, pc, seen, results, report, claims>>
    BY <1>3, FutureRow DEF MarkVerifying, Inv
  <2>2. Touches(w, i, "verifying")
    BY <2>1, StateChange DEF Touches
  <2>3. <<Own[i], "candidate">> \in billed
    BY <2>1 DEF Inv, TasksPaid
  <2> QED
    BY <1>0, <2>1, <2>2, <2>3, FutureStep DEF Open
<1>4. CASE CallVerifier(w, i)
  <2>1. PICK to \in {"verified", "failing"} :
          /\ TaskGo(w, i, to)
          /\ IF to = "failing" THEN billed' = billed ELSE Bill(w, i, "verification")
    BY <1>4 DEF CallVerifier
  <2>2. pc[w] = "run" /\ task[w][i] = "verifying" /\ row' = row
        /\ UNCHANGED <<release, job, pc, seen, results, report, claims>>
    BY <1>4 DEF CallVerifier
  <2>3. Touches(w, i, to)
    BY <1>0, <2>2 DEF Touches
  <2>4. billed \subseteq billed' /\ billed' \subseteq Texts \X Passes
        /\ (to # "failing" => <<Own[i], "verification">> \in billed')
    BY <1>0, <2>1, <2>2, FutureRow, BilledGrows DEF Passes
  <2>5. <<Own[i], "candidate">> \in billed
    BY <2>2 DEF Inv, TasksPaid
  <2> QED
    BY <2>1, <2>2, <2>3, <2>4, <2>5, FutureStep DEF Open
<1>5. CASE SaveOutputs(w, i)
  <2> DEFINE out == [text |-> Own[i], release |-> release, verified |-> task[w][i] = "verified"]
             new == [row[i] EXCEPT !.state = "completed", !.out = out]
  <2>1. row' = [row EXCEPT ![i].state = "completed", ![i].out = out]
        /\ billed' = billed /\ TaskGo(w, i, "done") /\ Owns(w) /\ pc[w] = "run"
        /\ task[w][i] \in {"clean", "verified"}
        /\ UNCHANGED <<release, job, pc, seen, results, report, claims>>
    BY <1>5 DEF SaveOutputs
  <2>2. row[i] \in Row /\ Own[i] \in Texts /\ release \in Releases /\ row[i].text = Own[i]
    BY <2>1, FutureRow, RowExists DEF Inv, ChunkTypeOK
  <2>3. out \in Output /\ out.text = Own[i] /\ (out.verified <=> task[w][i] = "verified")
    BY <2>2 DEF Output
  <2>4. row' = [row EXCEPT ![i] = new]
    BY <1>0, <2>1
  <2> HIDE DEF out
  <2>5. new \in Row /\ new.out = out /\ new.text = row[i].text
    BY <2>2, <2>3 DEF Row
  <2> HIDE DEF new
  <2>6. new # Absent /\ row[i] # Absent
    BY <2>2, <2>5, AbsentIsNoRow
  <2>7. <<Own[i], "candidate">> \in billed
        /\ (task[w][i] = "verified" => <<Own[i], "verification">> \in billed)
    BY <2>1 DEF Inv, TasksPaid
  <2>8. Touches(w, i, "done")
    BY <1>0, <2>1, <2>3, <2>4, <2>5, <2>6, <2>7 DEF Touches
  <2> QED
    BY <1>0, <2>1, <2>7, <2>8, FutureStep DEF Open
<1>6. CASE MarkFailed(w, i)
  <2>1. /\ billed' = billed /\ TaskGo(w, i, "failed") /\ pc[w] = "run" /\ task[w][i] = "failing"
        /\ UNCHANGED <<release, job, pc, seen, results, report, claims>>
        /\ row' = row \/ (Owns(w) /\ row' = [row EXCEPT ![i].state = "failed"])
        /\ row[i] # Absent /\ ChunkTypeOK
    BY <1>6, FutureRow DEF MarkFailed, Inv
  <2>2. Touches(w, i, "failed")
    BY <1>0, <2>1, StateChange DEF Touches
  <2> QED
    BY <1>0, <2>1, <2>2, FutureStep DEF Open
<1> QED
  BY <1>1, <1>2, <1>3, <1>4, <1>5, <1>6
-----------------------------------------------------------------------------
(* Collecting a chunk, the merge, and the report.                          *)
LEMMA CollectKeeps ==
  ASSUME Inv, NEW w \in Workers, NEW i \in Indices, Collect(w, i)
  PROVE  Inv'
<1> USE DEF Inv
<1>1. UNCHANGED <<release, row, billed, pc, seen, report, claims>> /\ release \in Releases
      /\ Owns(w) /\ pc[w] = "run" /\ task[w][i] = "done" /\ i \in OwnIndex
  BY FutureRow DEF Collect, ChunkTypeOK
<1>2. Own' = Own /\ OwnIndex' = OwnIndex /\ OwnIndex \subseteq Indices
      /\ \A j : (Reusable(j)' <=> Reusable(j)) /\ (Stored(j)' <=> Stored(j))
  BY <1>1, OwnPlan DEF Own, OwnIndex, Reusable, Stored
<1>3. /\ task' \in [Workers -> [Indices -> {"none"} \cup Open \cup {"collected"}]]
      /\ task'[w][i] = "collected"
      /\ \A j \in Indices \ {i} : task'[w][j] = task[w][j]
      /\ \A v \in Workers \ {w} : task'[v] = task[v]
  BY DEF Collect, TaskGo, ChunkTypeOK, Open
<1> DEFINE closed == {j \in OwnIndex : task'[w][j] \in {"none", "collected"}}
<1>4. /\ results' = [results EXCEPT ![w] = results[w] \cup {<<i, Own[i]>>}]
      /\ job' = [job EXCEPT !.completed = Cardinality(results'[w])]
  BY DEF Collect
<1>5. /\ results' \in [Workers -> SUBSET (Indices \X Texts)]
      /\ results'[w] = {<<j, Own[j]>> : j \in closed}
      /\ \A v \in Workers \ {w} : results'[v] = results[v]
  <2>1. closed = {j \in OwnIndex : task[w][j] \in {"none", "collected"}} \cup {i}
    BY <1>1, <1>2, <1>3
  <2>2. results[w] = {<<j, Own[j]>> : j \in {j \in OwnIndex : task[w][j] \in {"none", "collected"}}}
    BY <1>1 DEF Gathered
  <2>3. results[w] \cup {<<i, Own[i]>>} = {<<j, Own[j]>> : j \in closed}
    BY <2>1, <2>2
  <2>4. {<<j, Own[j]>> : j \in closed} \in SUBSET (Indices \X Texts)
    BY <1>1, <1>2, OwnPlan
  <2> HIDE DEF closed
  <2> QED
    BY <1>4, <2>3, <2>4 DEF ChunkTypeOK
<1>6. /\ job' \in JobType /\ job'.completed <= job'.total
      /\ job'.state = job.state /\ job'.owner = job.owner /\ job'.total = job.total
  <2>1. job \in JobType /\ job.total = Len(Own)
    BY <1>1 DEF ChunkTypeOK, JobType, OwnerKnows
  <2>2. Cardinality(results'[w]) \in 0 .. Len(Own) /\ Cardinality(results'[w]) \in 0 .. Cardinality(Indices)
    BY <1>1, <1>5, CountOfResults
  <2> QED
    BY <1>4, <2>1, <2>2, OwnPlan DEF JobType
<1>7. ChunkTypeOK'
  BY <1>1, <1>3, <1>5, <1>6 DEF ChunkTypeOK, JobType, Open
<1>8. TasksPaid'
  <2> SUFFICES ASSUME NEW v \in Workers, NEW j \in Indices
               PROVE  /\ task'[v][j] # "none" => j \in OwnIndex /\ pc[v] \in {"run", "merge"}
                      /\ task'[v][j] \in {"clean", "found", "verifying", "verified"}
                           => <<Own[j], "candidate">> \in billed
                      /\ task'[v][j] = "verified" => <<Own[j], "verification">> \in billed
    BY <1>1, <1>2 DEF TasksPaid
  <2>1. CASE v = w /\ j = i
    BY <1>1, <1>3, <2>1
  <2>2. CASE ~(v = w /\ j = i)
    <3>1. task'[v][j] = task[v][j]
      BY <1>3, <2>2
    <3> QED
      BY <3>1 DEF TasksPaid
  <2> QED
    BY <2>1, <2>2
<1>9. ReadStays' /\ PlanWritten'
  BY <1>1, <1>2 DEF ReadStays, PlanWritten
<1>10. OwnerKnows'
  <2> SUFFICES ASSUME NEW v \in Workers, Owns(v)'
               PROVE  v = w /\ job'.total = Len(Own)
                      /\ \A j \in Indices : Reusable(j) =>
                             \/ task'[w][j] \in {"none", "done", "collected"}
                             \/ task'[w][j] = "todo" /\ row[j].out.release # release
    BY <1>1, <1>2 DEF OwnerKnows
  <2>1. v = w /\ job'.total = Len(Own)
    BY <1>1, <1>6 DEF Owns, OwnerKnows
  <2> QED
    BY <1>1, <1>3, <2>1 DEF OwnerKnows
<1>11. Gathered'
  <2>1. \A v \in Workers \ {w} : pc'[v] = pc[v] /\ task'[v] = task[v] /\ results'[v] = results[v]
    BY <1>1, <1>3, <1>5
  <2> QED
    BY <1>1, <1>2, <1>5, <2>1 DEF Gathered
<1>12. OutputsMatchText' /\ ReportFromWholeText'
  BY <1>1, <1>2, <1>6 DEF OutputsMatchText, ReportFromWholeText
<1> QED
  BY <1>6, <1>7, <1>8, <1>9, <1>10, <1>11, <1>12

LEMMA MergeKeeps == ASSUME Inv, NEW w \in Workers, Merge(w) PROVE Inv'
<1> USE DEF Inv
<1>1. /\ UNCHANGED <<release, job, row, billed, seen, task, results, report, claims>>
      /\ pc' \in [Workers -> {"idle", "check", "read", "write", "load", "run", "merge"}]
      /\ pc[w] = "run" /\ pc'[w] = "merge" /\ \A v \in Workers \ {w} : pc'[v] = pc[v]
      /\ \A i \in Indices : task[w][i] \in {"none", "collected"}
  BY DEF Merge, Go, ChunkTypeOK
<1>2. Own' = Own /\ OwnIndex' = OwnIndex
      /\ \A j : (Reusable(j)' <=> Reusable(j)) /\ (Stored(j)' <=> Stored(j)) /\ (Owns(j)' <=> Owns(j))
  BY <1>1 DEF Own, OwnIndex, Reusable, Stored, Owns
<1>3. ChunkTypeOK'
  BY <1>1 DEF ChunkTypeOK
<1>4. TasksPaid'
  BY <1>1, <1>2 DEF TasksPaid
<1>5. ReadStays' /\ PlanWritten'
  BY <1>1, <1>2 DEF ReadStays, PlanWritten
<1>6. OwnerKnows'
  BY <1>1, <1>2 DEF OwnerKnows
<1>7. Gathered'
  BY <1>1, <1>2 DEF Gathered
<1>8. OutputsMatchText' /\ ReportFromWholeText'
  BY <1>1, <1>2 DEF OutputsMatchText, ReportFromWholeText
<1> QED
  BY <1>1, <1>3, <1>4, <1>5, <1>6, <1>7, <1>8

LEMMA ReportKeeps == ASSUME Inv, NEW w \in Workers, SaveReport(w) PROVE Inv'
<1> USE DEF Inv
<1>1. UNCHANGED <<release, billed, claims>> /\ release \in Releases
      /\ Leave(w) /\ pc[w] = "merge" /\ Owns(w) /\ report' = results[w]
  BY DEF SaveReport, ChunkTypeOK
<1>2. Own' = Own /\ OwnIndex' = OwnIndex /\ OwnIndex \subseteq Indices
  BY <1>1, OwnPlan DEF Own, OwnIndex
<1>3. job' \in JobType /\ job'.completed <= job'.total /\ job'.state = "completed"
  BY DEF SaveReport, ChunkTypeOK, JobType
<1>4. /\ row' \in [Indices -> Row \cup {Absent}]
      /\ \A i \in Indices : /\ row'[i] = Absent <=> row[i] = Absent
                            /\ row[i] # Absent => row'[i].text = row[i].text
                            /\ ~Reusable(i)'
  <2> DEFINE bare(i) == [row[i] EXCEPT !.out = NoOutput]
  <2>1. ASSUME NEW i \in Indices, row[i] # Absent
        PROVE  bare(i) \in Row /\ bare(i).text = row[i].text /\ bare(i).out = NoOutput
    BY <2>1, RowExists DEF Row
  <2>2. row' = [i \in Indices |-> IF row[i] = Absent THEN Absent ELSE bare(i)]
    BY DEF SaveReport
  <2> HIDE DEF bare
  <2>3. \A i \in Indices : IF row[i] = Absent THEN row'[i] = Absent ELSE row'[i] = bare(i)
    BY <2>2
  <2>4. row' \in [Indices -> Row \cup {Absent}]
    BY <2>1, <2>2
  <2>5. \A i \in Indices : /\ row'[i] = Absent <=> row[i] = Absent
                           /\ row[i] # Absent => row'[i].text = row[i].text
    BY <2>1, <2>3, AbsentIsNoRow
  <2>6. \A i \in Indices : ~Reusable(i)'
    BY <2>1, <2>3 DEF Reusable
  <2> QED
    BY <2>4, <2>5, <2>6
<1>5. ChunkTypeOK'
  BY <1>1, <1>3, <1>4, LeaveAfresh DEF ChunkTypeOK, JobType
<1>6. /\ \A v \in Workers : v = w => Afresh(v)
      /\ \A v \in Workers \ {w} : /\ pc'[v] = pc[v] /\ seen'[v] = seen[v]
                                  /\ task'[v] = task[v] /\ results'[v] = results[v]
      /\ \A i \in Indices : Stored(i) => Stored(i)'
  BY <1>1, <1>2, <1>4, LeaveAfresh DEF Stored
<1>7. TasksPaid'
  BY <1>1, <1>2, <1>6 DEF TasksPaid, Afresh
<1>8. ReadStays'
  BY <1>1, <1>2, <1>4, <1>6 DEF ReadStays, Afresh
<1>9. PlanWritten'
  BY <1>1, <1>2, <1>4, <1>6 DEF PlanWritten, Afresh
<1>10. OwnerKnows'
  BY <1>3 DEF OwnerKnows, Owns
<1>11. Gathered'
  BY <1>1, <1>2, <1>6 DEF Gathered, Afresh
<1>12. OutputsMatchText'
  BY <1>4 DEF OutputsMatchText
<1>13. ReportFromWholeText'
  <2>1. {j \in OwnIndex : task[w][j] \in {"none", "collected"}} = OwnIndex
    BY <1>1, <1>2 DEF Gathered
  <2>2. report' = {<<i, Own[i]>> : i \in OwnIndex}
    BY <1>1, <2>1 DEF Gathered
  <2>3. report' = {<<i, Plan(release)[i]>> : i \in 1 .. Len(Plan(release))}
    BY <2>2 DEF Own, OwnIndex
  <2> QED
    BY <1>1, <2>3 DEF ReportFromWholeText
<1> QED
  BY <1>3, <1>5, <1>7, <1>8, <1>9, <1>10, <1>11, <1>12, <1>13
-----------------------------------------------------------------------------
LEMMA ChunkStep == Inv /\ [Next]_vars => Inv'
<1> SUFFICES ASSUME Inv, [Next]_vars PROVE Inv'
  OBVIOUS
<1>1. CASE LoseLease \/ Retry \/ CancelRequest
  BY <1>1, RowKeeps
<1>2. CASE Upgrade
  BY <1>2, UpgradeKeeps
<1>3. ASSUME NEW w \in Workers, Claim(w) \/ Stop(w) \/ JobError(w) \/ ReplaceCheck(w)
      PROVE  Inv'
  BY <1>3, QueueKeeps
<1>4. ASSUME NEW w \in Workers,
             ReplaceRead(w) \/ ReplaceWrite(w) \/ Load(w) \/ Merge(w) \/ SaveReport(w)
      PROVE  Inv'
  BY <1>4, ReadKeeps, WriteKeeps, LoadKeeps, MergeKeeps, ReportKeeps
<1>5. ASSUME NEW w \in Workers, NEW i \in Indices,
             \/ BeginChunk(w, i) \/ CallCandidates(w, i) \/ MarkVerifying(w, i)
             \/ CallVerifier(w, i) \/ SaveOutputs(w, i) \/ MarkFailed(w, i)
             \/ Collect(w, i)
      PROVE  Inv'
  BY <1>5, ChunkKeeps, CollectKeeps
<1>6. CASE UNCHANGED vars
  <2>1. Own' = Own /\ OwnIndex' = OwnIndex /\ Indices' = Indices
        /\ \A j : (Reusable(j)' <=> Reusable(j)) /\ (Stored(j)' <=> Stored(j)) /\ (Owns(j)' <=> Owns(j))
    BY <1>6 DEF vars, Own, OwnIndex, Reusable, Stored, Owns
  <2>2. ChunkTypeOK' /\ job'.completed <= job'.total
    BY <1>6 DEF vars, Inv, ChunkTypeOK
  <2>3. TasksPaid' /\ ReadStays' /\ PlanWritten'
    BY <1>6, <2>1 DEF vars, Inv, TasksPaid, ReadStays, PlanWritten
  <2>4. OwnerKnows' /\ Gathered'
    BY <1>6, <2>1 DEF vars, Inv, OwnerKnows, Gathered
  <2>5. OutputsMatchText' /\ ReportFromWholeText'
    BY <1>6, <2>1 DEF vars, Inv, OutputsMatchText, ReportFromWholeText
  <2> QED
    BY <2>2, <2>3, <2>4, <2>5 DEF Inv
<1> QED
  BY <1>1, <1>2, <1>3, <1>4, <1>5, <1>6 DEF Next

(* The inductive invariant: what was read of the plan stays true, once     *)
(* written the rows are the plan, only the owner stores outputs, and the   *)
(* results in hand are those of the chunks without an open future.         *)
THEOREM ChunkInvariant == Spec => []Inv
<1> QED
  BY ChunkInit, ChunkStep, PTL DEF Spec

(* The types, and the progress the API shows never exceeds the number of   *)
(* chunks, for any plans (replace_chunks, heartbeat).                      *)
THEOREM ChunksTypeCorrect == Spec => []ChunkTypeOK
<1>1. Inv => ChunkTypeOK
  BY DEF Inv
<1> QED
  BY <1>1, ChunkInvariant, PTL

(* Stored outputs belong to the text beside them and were paid for,        *)
(* whoever wrote the row (replace_chunks, save_chunk_outputs).             *)
THEOREM StoredOutputsMatch == Spec => []OutputsMatchText
<1>1. Inv => OutputsMatchText
  BY DEF Inv
<1> QED
  BY <1>1, ChunkInvariant, PTL

(* A completed job's report is built from every chunk of one version's     *)
(* plan, each with the result for its own text (process_job).              *)
THEOREM ReportsAreWhole == Spec => []ReportFromWholeText
<1>1. Inv => ReportFromWholeText
  BY DEF Inv
<1> QED
  BY <1>1, ChunkInvariant, PTL

(* Only the owner begins a chunk.                                          *)
LEMMA OnlyOwnerBegins ==
  ASSUME Inv, [Next]_vars, NEW w \in Workers, NEW i \in Indices, pc[w] = "run", ~Owns(w),
         task[w][i] = "todo"
  PROVE  task'[w][i] # "analyzing"
<1>0. task \in [Workers -> [Indices -> {"none", "todo", "analyzing", "clean", "found",
                                       "verifying", "verified", "done", "failing",
                                       "failed", "collected"}]]
  BY DEF Inv, ChunkTypeOK
<1>1. ASSUME task'[w] = task[w] PROVE task'[w][i] # "analyzing"
  BY <1>1
<1>2. ASSUME task'[w] = NoTask PROVE task'[w][i] # "analyzing"
  BY <1>2 DEF NoTask
<1>3. CASE LoseLease \/ Retry \/ CancelRequest \/ UNCHANGED vars
  BY <1>1, <1>3 DEF LoseLease, Retry, CancelRequest, local, vars
<1>4. CASE Upgrade
  BY <1>2, <1>4 DEF Upgrade
<1>5. ASSUME NEW v \in Workers,
             Claim(v) \/ ReplaceCheck(v) \/ ReplaceRead(v) \/ ReplaceWrite(v) \/ Merge(v)
      PROVE  task'[w][i] # "analyzing"
  BY <1>1, <1>5 DEF Claim, ReplaceCheck, ReplaceRead, ReplaceWrite, Merge
<1>6. ASSUME NEW v \in Workers, Stop(v) \/ JobError(v) \/ SaveReport(v)
      PROVE  task'[w][i] # "analyzing"
  <2>1. task' = [task EXCEPT ![v] = NoTask]
    BY <1>6 DEF Stop, JobError, SaveReport, Leave
  <2> QED
    BY <1>0, <1>1, <1>2, <2>1
<1>7. ASSUME NEW v \in Workers, Load(v) PROVE task'[w][i] # "analyzing"
  <2>1. v # w /\ \E t : task' = [task EXCEPT ![v] = t]
    BY <1>7 DEF Load
  <2> QED
    BY <1>0, <1>1, <2>1
<1>8. ASSUME NEW v \in Workers, NEW j \in Indices,
             \/ BeginChunk(v, j) \/ CallCandidates(v, j) \/ MarkVerifying(v, j)
             \/ CallVerifier(v, j) \/ SaveOutputs(v, j) \/ MarkFailed(v, j)
             \/ Collect(v, j)
      PROVE  task'[w][i] # "analyzing"
  <2>1. PICK to : TaskGo(v, j, to) /\ (to = "analyzing" => Owns(v))
    <3>1. CASE BeginChunk(v, j)
      BY <3>1 DEF BeginChunk
    <3>2. CASE ~BeginChunk(v, j)
      BY <1>8, <3>2 DEF CallCandidates, MarkVerifying, CallVerifier, SaveOutputs, MarkFailed, Collect
    <3> QED
      BY <3>1, <3>2
  <2>2. CASE v = w
    BY <1>0, <2>1, <2>2 DEF TaskGo
  <2>3. CASE v # w
    BY <1>0, <1>1, <2>1, <2>3 DEF TaskGo
  <2> QED
    BY <2>2, <2>3
<1> QED
  BY <1>3, <1>4, <1>5, <1>6, <1>7, <1>8 DEF Next

(* Who makes a stored output of the running text unusable.                 *)
LEMMA OnlyTheseDiscard ==
  ASSUME Inv, [Next]_vars, NEW i \in OwnIndex, Reusable(i), row[i].text = Own[i], ~Reusable(i)'
  PROVE  \/ job'.state = "completed"
         \/ row[i].out.release # release
         \/ \E w \in Workers : pc[w] = "write" /\ pc'[w] = "load" /\ ~Owns(w)
<1>0. i \in Indices /\ release \in Releases /\ row \in [Indices -> Row \cup {Absent}]
  BY OwnPlan DEF Inv, ChunkTypeOK
<1>1. row' # row
  BY DEF Reusable
<1>2. ASSUME NEW w \in Workers, ReplaceWrite(w), Owns(w)
      PROVE  FALSE
  <2>1. seen[w][i] = "reusable"
    BY <1>2 DEF Inv, OwnerKnows, ReplaceWrite
  <2>2. row'[i] = row[i]
    BY <1>2, <2>1, WrittenRows
  <2> QED
    BY <2>2 DEF Reusable
<1>3. ASSUME NEW w \in Workers, ReplaceWrite(w), ~Owns(w)
      PROVE  pc[w] = "write" /\ pc'[w] = "load"
  BY <1>3 DEF ReplaceWrite, Go, Inv, ChunkTypeOK
<1>4. ASSUME NEW w \in Workers, NEW j \in Indices,
             BeginChunk(w, j) \/ MarkVerifying(w, j) \/ MarkFailed(w, j) \/ SaveOutputs(w, j)
      PROVE  row[i].out.release # release
  <2>1. Owns(w) /\ pc[w] = "run" /\ task[w][j] \in Open \ {"done"}
    BY <1>1, <1>4 DEF BeginChunk, MarkVerifying, MarkFailed, SaveOutputs, Open
  <2>2. i = j
    <3> SUFFICES ASSUME i # j PROVE row'[i] = row[i]
      BY DEF Reusable
    <3> QED
      BY <1>0, <1>1, <1>4 DEF BeginChunk, MarkVerifying, MarkFailed, SaveOutputs
  <2> QED
    BY <1>0, <2>1, <2>2 DEF Inv, OwnerKnows, Open
<1>5. ASSUME NEW w \in Workers, SaveReport(w) PROVE job'.state = "completed"
  BY <1>5 DEF SaveReport, Inv, ChunkTypeOK
<1> QED
  <2>1. PICK w \in Workers :
          \/ ReplaceWrite(w) \/ SaveReport(w)
          \/ \E j \in Indices : BeginChunk(w, j) \/ MarkVerifying(w, j)
                                 \/ MarkFailed(w, j) \/ SaveOutputs(w, j)
    BY <1>1 DEF Next, vars, LoseLease, Retry, CancelRequest, Upgrade, Claim, Stop, JobError,
             ReplaceCheck, ReplaceRead, Load, Merge, CallCandidates, CallVerifier, Collect
  <2> QED
    BY <1>2, <1>3, <1>4, <1>5, <2>1

(* No chunk is begun whose output is stored and readable                   *)
(* (load_reusable_chunk_outputs, analyze_chunk).                           *)
THEOREM NothingPaidTwice == Spec => PaidOnlyWhenNeeded
<1>1. ASSUME Inv, [Next]_vars, NEW w \in Workers, NEW i \in Indices,
             task[w][i] = "todo", task'[w][i] = "analyzing", Reusable(i)
      PROVE  row[i].out.release # release
  <2>1. pc[w] = "run"
    <3>1. pc[w] # "merge"
      BY <1>1 DEF Inv, Gathered
    <3> QED
      BY <1>1, <3>1 DEF Inv, TasksPaid
  <2>2. CASE Owns(w)
    BY <1>1, <2>1, <2>2 DEF Inv, OwnerKnows
  <2>3. CASE ~Owns(w)
    BY <1>1, <2>1, <2>3, OnlyOwnerBegins
  <2> QED
    BY <2>2, <2>3
<1>2. Inv /\ [Next]_vars =>
        [\A w \in Workers, i \in Indices :
           (task[w][i] = "todo" /\ task'[w][i] = "analyzing" /\ Reusable(i))
              => row[i].out.release # release]_vars
  BY <1>1
<1> QED
  BY <1>2, ChunkInvariant, PTL DEF Spec, PaidOnlyWhenNeeded

(* A stored result of the running text is discarded only at completion,    *)
(* when it cannot be read, or by a worker that lost the job after its      *)
(* ownership check (replace_chunks).                                       *)
THEOREM StoredWorkStays == Spec => StoredWorkIsKept
<1>1. Inv /\ [Next]_vars =>
        [\A i \in OwnIndex :
           (Reusable(i) /\ row[i].text = Own[i] /\ ~Reusable(i)')
              => \/ job'.state = "completed"
                 \/ row[i].out.release # release
                 \/ \E w \in Workers : pc[w] = "write" /\ pc'[w] = "load" /\ ~Owns(w)]_vars
  BY OnlyTheseDiscard
<1> QED
  BY <1>1, ChunkInvariant, PTL DEF Spec, StoredWorkIsKept
=============================================================================

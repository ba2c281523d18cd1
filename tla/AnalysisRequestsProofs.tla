----------------------- MODULE AnalysisRequestsProofs -----------------------
(***************************************************************************)
(* Proofs about AnalysisRequests, for any number of calls, documents, keys *)
(* and workers.  The inductive invariant says who holds which lock and     *)
(* connection, what a call past its checks may rely on, what the answers   *)
(* say, and what a worker knows of the configuration of its job.           *)
(***************************************************************************)
EXTENDS AnalysisRequests, FiniteSetTheorems, TLAPS

Places  == InTransaction \cup Outside \cup {"idle", "answered", "lost"}
Locking == {"check", "insert", "commit"}
Replies == [code : {"ok", "accepted", "conflict", "not_found"}, row : Rows \cup {None}]
Slots   == [at : {"idle", "load", "freeze", "store", "work"}, job : JobIds \cup {0},
            profile : Profiles \cup {None}, config : Configs \cup {None}]

Settings == [enabled : BOOLEAN, settings : 0 .. MaxEdits]

Types ==
  /\ profile \in [Profiles -> Settings]
  /\ left \in [sends : Nat, claims : Nat, edits : 0 .. MaxEdits]
  /\ \A p \in Profiles : profile[p].settings + left.edits <= MaxEdits
  /\ usable \in [Docs -> BOOLEAN] /\ lock \in [Docs -> Calls \cup {NoCall}]
  /\ job \in [JobIds -> Rows \cup {Absent}]
  /\ free \in Nat
  /\ at \in [Calls -> Places]
  /\ request \in [Calls -> Requests \cup {None}] /\ config \in [Calls -> Configs \cup {None}]
  /\ answer \in [Calls -> Replies \cup {None}]
  /\ worker \in [Workers -> Slots]
  /\ used \in [JobIds -> SUBSET Configs]

(* Every connection that is taken is some transaction's.                   *)
Open == {c \in Calls : at[c] \in InTransaction}

Pooled == free = PoolSize - Cardinality(Open)

(* A call past the lock holds it; past the check its document is free, and *)
(* past the insert so is its key, which no other insert has taken.         *)
Locked ==
  /\ \A c \in Calls : at[c] # "idle" => request[c] \in Requests
  /\ \A c \in Calls : at[c] \in Locking => lock[request[c].doc] = c
  /\ \A c \in Calls : at[c] \in {"insert", "commit"} => ~Analysed(request[c].doc)
  /\ \A c \in Calls : at[c] = "commit" => Keyed(c) = {}
  /\ \A c, d \in Calls :
       (c # d /\ at[c] = "commit" /\ at[d] = "commit" /\ request[c].key = request[d].key)
         => request[c].key = NoKey

(* A successful reply names a row of the request.                          *)
Matches(c, reply) ==
  reply.code \in {"ok", "accepted"} =>
    /\ reply.row.key = request[c].key /\ reply.row.doc = request[c].doc
    /\ reply.row.profile = request[c].profile /\ reply.row.scenario = request[c].scenario

Answered ==
  \A c \in Calls : answer[c] # None => at[c] = "answered" /\ Matches(c, answer[c])

(* What a slot knows of its job while it owns it.                          *)
Live(j) == Exists(j) /\ job[j].status # "ended"

Knows(w) ==
  /\ worker[w].at # "idle" => Mine(w) \in JobIds /\ worker[w].profile \in Profiles
  /\ worker[w].at = "freeze" => worker[w].config \in Configs
  /\ worker[w].at \in {"store", "work"} =>
       worker[w].config \in Configs /\ worker[w].config.guidance # 0
  /\ worker[w].at # "idle" /\ Owns(w) /\ Live(Mine(w)) =>
       /\ worker[w].at \in {"load", "store"} => used[Mine(w)] = {}
       /\ worker[w].at \in {"freeze", "work"} => job[Mine(w)].snapshot = worker[w].config

(* A job was processed with one configuration, which its row keeps.        *)
Kept(j) ==
  /\ \A a, b \in used[j] : a = b
  /\ Live(j) /\ used[j] # {} =>
       /\ used[j] = {job[j].snapshot} /\ job[j].snapshot.guidance # 0

Configured == (\A w \in Workers : Knows(w)) /\ (\A j \in JobIds : Kept(j))

Inv == Types /\ Pooled /\ Locked /\ OneJob /\ Answered /\ Configured
-----------------------------------------------------------------------------
(* The null values are no rows, configurations or requests.                *)
LEMMA RowsExist == Absent \notin Rows /\ None \notin Rows
<1>1. "doc" \notin DOMAIN Absent /\ "doc" \notin DOMAIN None
  BY DEF Absent, None
<1>2. \A r \in Rows : "doc" \in DOMAIN r
  BY DEF Rows
<1> QED
  BY <1>1, <1>2

LEMMA ConfigsExist == None \notin Configs
<1>1. "settings" \notin DOMAIN None
  BY DEF None
<1>2. \A r \in Configs : "settings" \in DOMAIN r
  BY DEF Configs
<1> QED
  BY <1>1, <1>2

LEMMA RepliesExist == None \notin Replies
<1>1. "code" \notin DOMAIN None
  BY DEF None
<1>2. \A r \in Replies : "code" \in DOMAIN r
  BY DEF Replies
<1> QED
  BY <1>1, <1>2

LEMMA IdleSlot == Idle \in Slots /\ Idle.at = "idle"
  BY DEF Idle, Slots

THEOREM RequestsInit == Init => Inv
<1> SUFFICES ASSUME Init PROVE Inv
  OBVIOUS
<1>1. /\ left \in [sends : Nat, claims : Nat, edits : 0 .. MaxEdits]
      /\ profile = [p \in Profiles |-> [enabled |-> TRUE, settings |-> 0]]
  BY BudgetsAssumption DEF Init
<1>2. profile \in [Profiles -> Settings]
      /\ \A p \in Profiles : profile[p].settings + left.edits <= MaxEdits
  BY <1>1, BudgetsAssumption DEF Settings
<1>3. PICK first \in Rows \cup {Absent} : job = [j \in JobIds |-> IF j = 1 THEN first ELSE Absent]
  BY OldRowsAssumption DEF Init
<1>4. job \in [JobIds -> Rows \cup {Absent}]
  BY <1>3
<1>5. free \in Nat
  BY PoolAssumption DEF Init
<1>6. worker \in [Workers -> Slots]
  BY IdleSlot DEF Init
<1>7. Types
  BY <1>1, <1>2, <1>4, <1>5, <1>6 DEF Types, Init, Places
<1>8. Pooled
  <2>1. Open = {}
    BY DEF Init, Open, InTransaction
  <2> QED
    BY <2>1, PoolAssumption, FS_EmptySet DEF Init, Pooled
<1>9. Locked
  BY DEF Init, Locked, Locking
<1>10. OneJob
  BY <1>3 DEF OneJob, Exists
<1>11. Answered
  BY DEF Init, Answered
<1>12. Configured
  BY DEF Init, Configured, Knows, Kept, Idle
<1> QED
  BY <1>7, <1>8, <1>9, <1>10, <1>11, <1>12 DEF Inv
-----------------------------------------------------------------------------
(* Connections                                                             *)

LEMMA OpenCalls == IsFiniteSet(Open) /\ Cardinality(Open) \in Nat
<1>1. Open \in SUBSET Calls
  BY DEF Open
<1> QED
  BY <1>1, PoolAssumption, FS_Subset, FS_CardinalityType

(* A call that goes on as it is, inside or outside a transaction.          *)
LEMMA PoolUntouched ==
  ASSUME Types, Pooled, NEW c \in Calls, NEW p, at' = [at EXCEPT ![c] = p],
         at[c] \in InTransaction <=> p \in InTransaction, free' = free
  PROVE  Pooled' /\ free' \in Nat
<1>1. Open' = Open
  BY DEF Open, Types
<1> QED
  BY <1>1 DEF Pooled, Types

(* A transaction that begins or ends.                                      *)
LEMMA PoolTaken ==
  ASSUME Types, Pooled, NEW c \in Calls, NEW p, at' = [at EXCEPT ![c] = p],
         at[c] \notin InTransaction, p \in InTransaction, free > 0, free' = free - 1
  PROVE  Pooled' /\ free' \in Nat
<1>1. Open' = Open \cup {c} /\ c \notin Open
  BY DEF Open, Types
<1>2. Cardinality(Open') = Cardinality(Open) + 1
  BY <1>1, OpenCalls, FS_AddElement
<1> QED
  BY <1>2, OpenCalls, PoolAssumption DEF Pooled, Types

LEMMA PoolReturned ==
  ASSUME Types, Pooled, NEW c \in Calls, NEW p, at' = [at EXCEPT ![c] = p],
         at[c] \in InTransaction, p \notin InTransaction, free' = free + 1
  PROVE  Pooled' /\ free' \in Nat
<1>1. Open' = Open \ {c} /\ c \in Open
  BY DEF Open, Types
<1>2. Cardinality(Open') = Cardinality(Open) - 1
  BY <1>1, OpenCalls, FS_RemoveElement
<1> QED
  BY <1>2, OpenCalls, PoolAssumption DEF Pooled, Types
-----------------------------------------------------------------------------
(* The locks of a transaction that ends are free, the others stay.         *)
LEMMA LocksReleased ==
  ASSUME Types, NEW c \in Calls, EndTransaction(c)
  PROVE  /\ lock' \in [Docs -> Calls \cup {NoCall}]
         /\ \A d \in Docs : lock[d] # c => lock'[d] = lock[d]
         /\ free' = free + 1
  BY DEF EndTransaction, Types

(* What nobody's step of another call can change.                          *)
LEMMA WorkersUntouched ==
  ASSUME Configured, job' = job, UNCHANGED workers
  PROVE  Configured'
<1>1. worker' = worker /\ used' = used
  BY DEF workers
<1> QED
  BY <1>1 DEF Configured, Knows, Kept, Live, Owns, Mine, Exists

(* A call that moves to a place where it holds no lock, or keeps none.     *)
LEMMA LockedElsewhere ==
  ASSUME Types, Locked, NEW c \in Calls, NEW p \in Places \ (Locking \cup {"idle"}),
         at' = [at EXCEPT ![c] = p], job' = job,
         NEW r \in Requests, request' = [request EXCEPT ![c] = r],
         \A d \in Docs : lock[d] # c => lock'[d] = lock[d]
  PROVE  Locked'
<1>1. /\ at'[c] = p /\ request'[c] = r
      /\ \A d \in Calls \ {c} : at'[d] = at[d] /\ request'[d] = request[d]
  BY DEF Types
<1>2. \A d \in Calls : at'[d] # "idle" => request'[d] \in Requests
  BY <1>1 DEF Locked
<1>3. \A d \in Calls : at'[d] \in Locking => d # c
  BY <1>1
<1>4. \A d \in Calls : at'[d] \in Locking => lock'[request'[d].doc] = d
  <2> SUFFICES ASSUME NEW d \in Calls, at'[d] \in Locking PROVE lock'[request'[d].doc] = d
    OBVIOUS
  <2>1. d # c /\ at[d] \in Locking /\ request'[d] = request[d]
    BY <1>1, <1>3
  <2>2. lock[request[d].doc] = d /\ request[d] \in Requests
    BY <2>1 DEF Locked, Locking
  <2>3. request[d].doc \in Docs
    BY <2>2, RequestsAssumption
  <2> QED
    BY <2>1, <2>2, <2>3
<1>5. \A d \in Calls : at'[d] \in {"insert", "commit"} => ~Analysed(request[d].doc)'
  BY <1>1, <1>3 DEF Locked, Locking, Analysed, Exists
<1>6. \A d \in Calls : at'[d] = "commit" => Keyed(d)' = {}
  BY <1>1, <1>3 DEF Locked, Locking, Keyed, Exists
<1>7. \A d, e \in Calls :
        (d # e /\ at'[d] = "commit" /\ at'[e] = "commit" /\ request'[d].key = request'[e].key)
          => request'[d].key = NoKey
  BY <1>1, <1>3 DEF Locked, Locking
<1>8. \A d \in Calls : at'[d] \in {"insert", "commit"} => request'[d] = request[d]
  BY <1>1, <1>3 DEF Locking
<1> QED
  BY <1>2, <1>4, <1>5, <1>6, <1>7, <1>8 DEF Locked, Analysed, Exists

(* What a call without a new reply, or with one, leaves of the answers.    *)
LEMMA NoAnswer ==
  ASSUME Types, Answered, NEW c \in Calls, NEW p, at' = [at EXCEPT ![c] = p],
         NEW r, request' = [request EXCEPT ![c] = r],
         \/ answer' = answer /\ at[c] # "answered"
         \/ answer' = [answer EXCEPT ![c] = None]
  PROVE  Answered' /\ answer' \in [Calls -> Replies \cup {None}]
<1>1. answer'[c] = None
  BY DEF Types, Answered
<1>2. \A d \in Calls \ {c} : answer'[d] = answer[d] /\ at'[d] = at[d] /\ request'[d] = request[d]
  BY DEF Types
<1>3. answer' \in [Calls -> Replies \cup {None}]
  BY DEF Types
<1> QED
  BY <1>1, <1>2, <1>3 DEF Answered, Matches

LEMMA NewAnswer ==
  ASSUME Types, Answered, NEW c \in Calls, NEW code, NEW row, Answer(c, code, row),
         [code |-> code, row |-> row] \in Replies, request' = request,
         Matches(c, [code |-> code, row |-> row])
  PROVE  Answered' /\ answer' \in [Calls -> Replies \cup {None}]
<1> DEFINE reply == [code |-> code, row |-> row]
<1>1. answer' = [answer EXCEPT ![c] = reply] /\ at' = [at EXCEPT ![c] = "answered"]
  BY DEF Answer
<1> HIDE DEF reply
<1>2. answer'[c] = reply /\ at'[c] = "answered"
      /\ \A d \in Calls \ {c} : answer'[d] = answer[d] /\ at'[d] = at[d]
  BY <1>1 DEF Types
<1>3. answer' \in [Calls -> Replies \cup {None}]
  BY <1>1 DEF Types, reply
<1>4. Matches(c, reply)
  BY DEF reply
<1> QED
  BY <1>2, <1>3, <1>4 DEF Answered, Matches
-----------------------------------------------------------------------------
(* Create calls                                                            *)

(* A statement of a call that holds no lock afterwards.                    *)
LEMMA CallMoves ==
  ASSUME Inv, NEW c \in Calls, NEW p \in Places \ (Locking \cup {"idle"}),
         at' = [at EXCEPT ![c] = p],
         NEW r \in Requests, request' = [request EXCEPT ![c] = r],
         UNCHANGED <<profile, usable, job, workers>>,
         left' \in [sends : Nat, claims : Nat, edits : 0 .. MaxEdits], left'.edits = left.edits,
         config' \in [Calls -> Configs \cup {None}],
         lock' \in [Docs -> Calls \cup {NoCall}],
         \A d \in Docs : lock[d] # c => lock'[d] = lock[d],
         Pooled' /\ free' \in Nat, Answered' /\ answer' \in [Calls -> Replies \cup {None}]
  PROVE  Inv'
<1>1. /\ profile' = profile /\ usable' = usable /\ job' = job
      /\ worker' = worker /\ used' = used /\ UNCHANGED workers
  BY DEF workers
<1>2. at' \in [Calls -> Places] /\ request' \in [Calls -> Requests \cup {None}]
  BY DEF Inv, Types
<1>3. Types'
  BY <1>1, <1>2 DEF Inv, Types
<1>4. Locked'
  BY <1>1, LockedElsewhere DEF Inv
<1>5. OneJob'
  BY <1>1 DEF Inv, OneJob, Exists
<1>6. Configured'
  BY <1>1, WorkersUntouched DEF Inv
<1> QED
  BY <1>3, <1>4, <1>5, <1>6 DEF Inv

(* The same where only the place and the answer change.                    *)
LEMMA CallReads ==
  ASSUME Inv, NEW c \in Calls, at[c] \in Outside, NEW p \in Outside \cup {"answered", "lost"},
         at' = [at EXCEPT ![c] = p],
         UNCHANGED <<profile, usable, job, free, lock, request, workers, left>>,
         config' \in [Calls -> Configs \cup {None}],
         Answered' /\ answer' \in [Calls -> Replies \cup {None}]
  PROVE  Inv'
<1>1. request[c] \in Requests /\ request' = [request EXCEPT ![c] = request[c]]
  BY DEF Inv, Types, Locked, Outside
<1>2. p \in Places \ (Locking \cup {"idle"}) /\ p \notin InTransaction
      /\ at[c] \notin InTransaction
  BY DEF Places, Locking, Outside, InTransaction
<1>3. Pooled' /\ free' \in Nat
  BY <1>2, PoolUntouched DEF Inv
<1>4. lock' \in [Docs -> Calls \cup {NoCall}] /\ \A d \in Docs : lock'[d] = lock[d]
  BY DEF Inv, Types
<1>5. left' \in [sends : Nat, claims : Nat, edits : 0 .. MaxEdits] /\ left'.edits = left.edits
  BY DEF Inv, Types
<1>6. UNCHANGED <<profile, usable, job, workers>>
  OBVIOUS
<1> QED
  BY <1>1, <1>2, <1>3, <1>4, <1>5, <1>6, CallMoves

(* A place of its own is left without an answer.                           *)
LEMMA GoesOn ==
  ASSUME Inv, NEW c \in Calls, NEW p, at[c] # "answered", Go(c, p), request' = request,
         request[c] \in Requests
  PROVE  Answered' /\ answer' \in [Calls -> Replies \cup {None}]
<1>1. request' = [request EXCEPT ![c] = request[c]] /\ at' = [at EXCEPT ![c] = p]
      /\ answer' = answer
  BY DEF Go, Inv, Types
<1> QED
  BY <1>1, NoAnswer DEF Inv

(* An error says nothing about a job.                                      *)
LEMMA Refuses ==
  ASSUME Inv, NEW c \in Calls, NEW code \in {"conflict", "not_found"}, Answer(c, code, None),
         request' = request
  PROVE  /\ at' = [at EXCEPT ![c] = "answered"]
         /\ Answered' /\ answer' \in [Calls -> Replies \cup {None}]
<1>1. [code |-> code, row |-> None] \in Replies
  BY DEF Replies
<1>2. Matches(c, [code |-> code, row |-> None])
  BY DEF Matches
<1>3. at' = [at EXCEPT ![c] = "answered"]
  BY DEF Answer
<1> QED
  BY <1>1, <1>2, <1>3, NewAnswer DEF Inv

LEMMA AnswersExisting ==
  ASSUME Inv, NEW c \in Calls, AnswerExisting(c), request' = request
  PROVE  /\ at' = [at EXCEPT ![c] = "answered"]
         /\ Answered' /\ answer' \in [Calls -> Replies \cup {None}]
<1>1. PICK j \in Keyed(c) : IF SameRequest(job[j], request[c]) THEN Answer(c, "ok", job[j])
                                                             ELSE Answer(c, "conflict", None)
  BY DEF AnswerExisting
<1>2. CASE SameRequest(job[j], request[c]) /\ Answer(c, "ok", job[j])
  <2>1. job[j] \in Rows /\ job[j].key = request[c].key
    BY DEF Keyed, Exists, Inv, Types
  <2>2. [code |-> "ok", row |-> job[j]] \in Replies
    BY <2>1 DEF Replies
  <2>3. Matches(c, [code |-> "ok", row |-> job[j]])
    BY <1>2, <2>1 DEF Matches, SameRequest
  <2>4. at' = [at EXCEPT ![c] = "answered"]
    BY <1>2 DEF Answer
  <2> QED
    BY <1>2, <2>2, <2>3, <2>4, NewAnswer DEF Inv
<1>3. CASE Answer(c, "conflict", None)
  BY <1>3, Refuses
<1> QED
  BY <1>1, <1>2, <1>3

LEMMA SendKeeps ==
  ASSUME Inv, NEW c \in Calls, Send(c)
  PROVE  Inv'
<1>1. PICK r \in Requests : request' = [request EXCEPT ![c] = r]
  BY DEF Send
<1>2. /\ at[c] = "idle" /\ at' = [at EXCEPT ![c] = "lookup"]
      /\ left' = [left EXCEPT !.sends = @ - 1] /\ left.sends > 0
      /\ UNCHANGED <<profile, usable, job, workers>>
      /\ free' = free /\ lock' = lock /\ config' = config /\ answer' = answer
  BY DEF Send
<1>3. "lookup" \in Places \ (Locking \cup {"idle"}) /\ "lookup" \notin InTransaction
      /\ at[c] \notin InTransaction
  BY <1>2 DEF Places, Locking, Outside, InTransaction
<1>4. Pooled' /\ free' \in Nat
  BY <1>2, <1>3, PoolUntouched DEF Inv
<1>5. Answered' /\ answer' \in [Calls -> Replies \cup {None}]
  BY <1>1, <1>2, NoAnswer DEF Inv
<1>6. left' \in [sends : Nat, claims : Nat, edits : 0 .. MaxEdits] /\ left'.edits = left.edits
  BY <1>2 DEF Inv, Types
<1>7. /\ lock' \in [Docs -> Calls \cup {NoCall}] /\ config' \in [Calls -> Configs \cup {None}]
      /\ \A d \in Docs : lock'[d] = lock[d]
  BY <1>2 DEF Inv, Types
<1> QED
  BY <1>1, <1>2, <1>3, <1>4, <1>5, <1>6, <1>7, CallMoves

LEMMA ResendKeeps ==
  ASSUME Inv, NEW c \in Calls, Resend(c)
  PROVE  Inv'
<1>1. /\ at[c] \in {"answered", "lost"} /\ at' = [at EXCEPT ![c] = "lookup"]
      /\ left' = [left EXCEPT !.sends = @ - 1] /\ left.sends > 0
      /\ UNCHANGED <<profile, usable, job, workers>>
      /\ free' = free /\ lock' = lock /\ config' = config /\ request' = request
      /\ answer' = [answer EXCEPT ![c] = None]
  BY DEF Resend
<1>2. "lookup" \in Places \ (Locking \cup {"idle"}) /\ "lookup" \notin InTransaction
      /\ at[c] \notin InTransaction
  BY <1>1 DEF Places, Locking, Outside, InTransaction
<1>3. request[c] \in Requests /\ request' = [request EXCEPT ![c] = request[c]]
  BY <1>1 DEF Inv, Types, Locked
<1>4. Pooled' /\ free' \in Nat
  BY <1>1, <1>2, PoolUntouched DEF Inv
<1>5. Answered' /\ answer' \in [Calls -> Replies \cup {None}]
  BY <1>1, <1>3, NoAnswer DEF Inv
<1>6. left' \in [sends : Nat, claims : Nat, edits : 0 .. MaxEdits] /\ left'.edits = left.edits
  BY <1>1 DEF Inv, Types
<1>7. /\ lock' \in [Docs -> Calls \cup {NoCall}] /\ config' \in [Calls -> Configs \cup {None}]
      /\ \A d \in Docs : lock'[d] = lock[d]
  BY <1>1 DEF Inv, Types
<1> QED
  BY <1>1, <1>2, <1>3, <1>4, <1>5, <1>6, <1>7, CallMoves

LEMMA ReadingKeeps ==
  ASSUME Inv, NEW c \in Calls, LookUp(c) \/ CheckProfile(c) \/ TakeSnapshot(c) \/ LookAgain(c)
  PROVE  Inv'
<1>1. /\ at[c] \in Outside
      /\ UNCHANGED <<profile, usable, job, free, lock, request, workers, left>>
      /\ request' = request
  BY DEF LookUp, CheckProfile, TakeSnapshot, LookAgain, Outside
<1>2. request[c] \in Requests /\ at[c] # "answered"
  BY <1>1 DEF Inv, Locked, Outside
<1>3. config' \in [Calls -> Configs \cup {None}]
  <2>1. config \in [Calls -> Configs \cup {None}]
        /\ [settings |-> profile[request[c].profile].settings, guidance |-> ApiGuidance] \in Configs
    BY <1>2, RequestsAssumption DEF Inv, Types, Configs, Guidance, Settings
  <2> QED
    BY <2>1 DEF LookUp, CheckProfile, TakeSnapshot, LookAgain
<1>4. CASE \E p \in {"profile", "snapshot", "begin"} : Go(c, p)
  <2>1. PICK p \in {"profile", "snapshot", "begin"} : Go(c, p)
    BY <1>4
  <2>2. at' = [at EXCEPT ![c] = p] /\ p \in Outside
    BY <2>1 DEF Go, Outside
  <2>3. Answered' /\ answer' \in [Calls -> Replies \cup {None}]
    BY <1>1, <1>2, <2>1, GoesOn
  <2> QED
    BY <1>1, <1>3, <2>2, <2>3, CallReads
<1>5. CASE AnswerExisting(c) \/ \E code \in {"conflict", "not_found"} : Answer(c, code, None)
  <2>1. at' = [at EXCEPT ![c] = "answered"]
        /\ Answered' /\ answer' \in [Calls -> Replies \cup {None}]
    BY <1>1, <1>5, AnswersExisting, Refuses
  <2> QED
    BY <1>1, <1>3, <2>1, CallReads
<1> QED
  BY <1>4, <1>5 DEF LookUp, CheckProfile, TakeSnapshot, LookAgain

LEMMA BeginKeeps ==
  ASSUME Inv, NEW c \in Calls, Begin(c)
  PROVE  Inv'
<1>1. /\ at[c] = "begin" /\ at' = [at EXCEPT ![c] = "lock"] /\ free > 0 /\ free' = free - 1
      /\ UNCHANGED <<profile, usable, job, workers>> /\ Go(c, "lock")
      /\ lock' = lock /\ config' = config /\ request' = request /\ left' = left
  BY DEF Begin, Go
<1>2. "lock" \in Places \ (Locking \cup {"idle"}) /\ "lock" \in InTransaction
      /\ at[c] \notin InTransaction
  BY <1>1 DEF Places, Locking, InTransaction
<1>3. request[c] \in Requests /\ request' = [request EXCEPT ![c] = request[c]]
  BY <1>1 DEF Inv, Types, Locked
<1>4. Pooled' /\ free' \in Nat
  BY <1>1, <1>2, PoolTaken DEF Inv
<1>5. Answered' /\ answer' \in [Calls -> Replies \cup {None}]
  BY <1>1, <1>3, GoesOn
<1>6. /\ lock' \in [Docs -> Calls \cup {NoCall}] /\ config' \in [Calls -> Configs \cup {None}]
      /\ \A d \in Docs : lock'[d] = lock[d]
      /\ left' \in [sends : Nat, claims : Nat, edits : 0 .. MaxEdits] /\ left'.edits = left.edits
  BY <1>1 DEF Inv, Types
<1> QED
  BY <1>1, <1>2, <1>3, <1>4, <1>5, <1>6, CallMoves

(* A transaction that ends without a commit.                               *)
LEMMA RollbackKeeps ==
  ASSUME Inv, NEW c \in Calls, at[c] \in InTransaction, EndTransaction(c),
         NEW p \in Outside \cup {"answered", "lost"}, at' = [at EXCEPT ![c] = p],
         UNCHANGED <<profile, usable, job, request, config, workers, left>>,
         Answered' /\ answer' \in [Calls -> Replies \cup {None}]
  PROVE  Inv'
<1>1. request[c] \in Requests /\ request' = [request EXCEPT ![c] = request[c]]
  BY DEF Inv, Types, Locked, InTransaction
<1>2. p \in Places \ (Locking \cup {"idle"}) /\ p \notin InTransaction
  BY DEF Places, Locking, Outside, InTransaction
<1>3. /\ lock' \in [Docs -> Calls \cup {NoCall}] /\ free' = free + 1
      /\ \A d \in Docs : lock[d] # c => lock'[d] = lock[d]
  BY LocksReleased DEF Inv
<1>4. Pooled' /\ free' \in Nat
  BY <1>2, <1>3, PoolReturned DEF Inv
<1>5. /\ config' \in [Calls -> Configs \cup {None}]
      /\ left' \in [sends : Nat, claims : Nat, edits : 0 .. MaxEdits] /\ left'.edits = left.edits
  BY DEF Inv, Types
<1>6. UNCHANGED <<profile, usable, job, workers>>
  OBVIOUS
<1> QED
  BY <1>1, <1>2, <1>3, <1>4, <1>5, <1>6, CallMoves

(* A transaction that goes on: what its next place may rely on is shown    *)
(* where it goes on.                                                       *)
LEMMA TransactionGoesOn ==
  ASSUME Inv, NEW c \in Calls, at[c] \in InTransaction, NEW p \in Locking, Go(c, p),
         UNCHANGED <<profile, usable, job, free, request, config, workers, left>>,
         lock' \in [Docs -> Calls \cup {NoCall}],
         \A d \in Docs : lock'[d] = lock[d] \/ (lock[d] = NoCall /\ lock'[d] = c),
         lock'[request[c].doc] = c,
         p \in {"insert", "commit"} => ~Analysed(request[c].doc),
         p = "commit" => /\ Keyed(c) = {}
                         /\ \A d \in Calls \ {c} :
                              at[d] = "commit" /\ request[d].key = request[c].key
                                => request[c].key = NoKey
  PROVE  Inv'
<1>1. /\ profile' = profile /\ usable' = usable /\ job' = job /\ free' = free
      /\ request' = request /\ config' = config /\ left' = left /\ worker' = worker
      /\ used' = used /\ UNCHANGED workers /\ at' = [at EXCEPT ![c] = p]
  BY DEF workers, Go
<1>2. p \in Places /\ p \in InTransaction
  BY DEF Places, Locking, InTransaction
<1>3. request[c] \in Requests /\ at[c] # "answered"
  BY DEF Inv, Locked, InTransaction
<1>4. Pooled' /\ free' \in Nat
  BY <1>1, <1>2, PoolUntouched DEF Inv
<1>5. Answered' /\ answer' \in [Calls -> Replies \cup {None}]
  BY <1>1, <1>3, GoesOn
<1>6. Types'
  BY <1>1, <1>2, <1>4, <1>5 DEF Inv, Types
<1>7. at'[c] = p /\ \A d \in Calls \ {c} : at'[d] = at[d]
  BY <1>1 DEF Inv, Types
<1>8. Locked'
  <2>1. \A d \in Calls : at'[d] # "idle" => request'[d] \in Requests
    BY <1>1, <1>3, <1>7 DEF Inv, Locked
  <2>2. \A d \in Calls : at'[d] \in Locking => lock'[request[d].doc] = d
    <3> SUFFICES ASSUME NEW d \in Calls \ {c}, at[d] \in Locking
                 PROVE  lock'[request[d].doc] = d
      BY <1>7
    <3>1. lock[request[d].doc] = d /\ request[d].doc \in Docs
      BY RequestsAssumption DEF Inv, Locked, Locking
    <3>2. d # NoCall
      BY NamesAssumption
    <3> QED
      BY <3>1, <3>2
  <2>3. \A d \in Calls : at'[d] \in {"insert", "commit"} => ~Analysed(request[d].doc)
    BY <1>7 DEF Inv, Locked
  <2>4. \A d \in Calls : at'[d] = "commit" => Keyed(d) = {}
    BY <1>7 DEF Inv, Locked
  <2>5. \A d, e \in Calls :
          (d # e /\ at'[d] = "commit" /\ at'[e] = "commit" /\ request[d].key = request[e].key)
            => request[d].key = NoKey
    BY <1>7 DEF Inv, Locked
  <2> QED
    BY <1>1, <2>1, <2>2, <2>3, <2>4, <2>5 DEF Locked, Analysed, Keyed, Exists
<1>9. OneJob'
  BY <1>1 DEF Inv, OneJob, Exists
<1>10. Configured'
  BY <1>1, WorkersUntouched DEF Inv
<1> QED
  BY <1>4, <1>5, <1>6, <1>8, <1>9, <1>10 DEF Inv

LEMMA TransactionKeeps ==
  ASSUME Inv, NEW c \in Calls, LockDocument(c) \/ CheckJobs(c) \/ Insert(c)
  PROVE  Inv'
<1>1. /\ at[c] \in {"lock", "check", "insert"} /\ at[c] \in InTransaction
      /\ UNCHANGED <<profile, usable, job, request, config, workers, left>>
      /\ request' = request
  BY DEF LockDocument, CheckJobs, Insert, InTransaction
<1>2. /\ request[c] \in Requests /\ request[c].doc \in Docs /\ at[c] # "answered"
      /\ lock \in [Docs -> Calls \cup {NoCall}]
  BY <1>1, RequestsAssumption DEF Inv, Types, Locked
<1>3. CASE EndTransaction(c) /\ Answer(c, "not_found", None)
  <2>1. at' = [at EXCEPT ![c] = "answered"]
        /\ Answered' /\ answer' \in [Calls -> Replies \cup {None}]
    BY <1>1, <1>3, Refuses
  <2> QED
    BY <1>1, <1>3, <2>1, RollbackKeeps
<1>4. CASE EndTransaction(c) /\ Go(c, "again")
  <2>1. Answered' /\ answer' \in [Calls -> Replies \cup {None}]
    BY <1>1, <1>2, <1>4, GoesOn
  <2>2. "again" \in Outside /\ at' = [at EXCEPT ![c] = "again"]
    BY <1>4 DEF Outside, Go
  <2> QED
    BY <1>1, <1>4, <2>1, <2>2, RollbackKeeps
<1>5. CASE /\ LockDocument(c) /\ lock' = [lock EXCEPT ![request[c].doc] = c]
           /\ free' = free /\ Go(c, "check")
  <2>1. lock[request[c].doc] = NoCall
    BY <1>5 DEF LockDocument
  <2>2. /\ lock' \in [Docs -> Calls \cup {NoCall}] /\ lock'[request[c].doc] = c
        /\ \A d \in Docs : lock'[d] = lock[d] \/ (lock[d] = NoCall /\ lock'[d] = c)
    BY <1>2, <1>5, <2>1
  <2>3. "check" \in Locking /\ "check" \notin {"insert", "commit"}
    BY DEF Locking
  <2>4. UNCHANGED <<profile, usable, job, free, request, config, workers, left>>
    BY <1>1, <1>5
  <2> QED
    BY <1>1, <1>5, <2>2, <2>3, <2>4, TransactionGoesOn
<1>6. CASE /\ CheckJobs(c) /\ ~Analysed(request[c].doc)
           /\ UNCHANGED <<free, lock>> /\ Go(c, "insert")
  <2>1. at[c] = "check"
    BY <1>6 DEF CheckJobs
  <2>2. /\ lock' \in [Docs -> Calls \cup {NoCall}] /\ lock'[request[c].doc] = c
        /\ \A d \in Docs : lock'[d] = lock[d]
    BY <1>2, <1>6, <2>1 DEF Inv, Locked, Locking
  <2>3. "insert" \in Locking /\ "insert" # "commit"
    BY DEF Locking
  <2>4. UNCHANGED <<profile, usable, job, free, request, config, workers, left>>
    BY <1>1, <1>6
  <2> QED
    BY <1>1, <1>6, <2>2, <2>3, <2>4, TransactionGoesOn
<1>7. CASE Insert(c) /\ Keyed(c) = {} /\ UNCHANGED <<free, lock>> /\ Go(c, "commit")
  <2>1. /\ at[c] = "insert"
        /\ \A d \in Calls \ {c} : at[d] = "commit" /\ request[d].key = request[c].key =>
             request[c].key = NoKey
    BY <1>7 DEF Insert
  <2>2. /\ lock' \in [Docs -> Calls \cup {NoCall}] /\ lock'[request[c].doc] = c
        /\ \A d \in Docs : lock'[d] = lock[d]
    BY <1>2, <1>7, <2>1 DEF Inv, Locked, Locking
  <2>3. "commit" \in Locking /\ ~Analysed(request[c].doc)
    BY <2>1 DEF Locking, Inv, Locked
  <2>4. UNCHANGED <<profile, usable, job, free, request, config, workers, left>>
    BY <1>1, <1>7
  <2> QED
    BY <1>1, <1>7, <2>1, <2>2, <2>3, <2>4, TransactionGoesOn
<1>8. CASE LockDocument(c)
  BY <1>3, <1>5, <1>8 DEF LockDocument
<1>9. CASE CheckJobs(c)
  BY <1>4, <1>6, <1>9 DEF CheckJobs
<1>10. CASE Insert(c)
  BY <1>4, <1>7, <1>10 DEF Insert
<1> QED
  BY <1>8, <1>9, <1>10

LEMMA LoseCallKeeps ==
  ASSUME Inv, NEW c \in Calls, LoseCall(c)
  PROVE  Inv'
<1>1. /\ at' = [at EXCEPT ![c] = "lost"] /\ at[c] \in InTransaction \cup Outside
      /\ UNCHANGED <<profile, usable, job, request, config, workers, left>>
      /\ request' = request /\ answer' = answer /\ config' = config
  BY DEF LoseCall
<1>2. at[c] # "answered" /\ request[c] \in Requests
  BY <1>1 DEF InTransaction, Outside, Inv, Locked
<1>3. Answered' /\ answer' \in [Calls -> Replies \cup {None}]
  BY <1>1, <1>2, GoesOn DEF Go
<1>4. CASE at[c] \in InTransaction
  <2>1. EndTransaction(c)
    BY <1>4 DEF LoseCall
  <2> QED
    BY <1>1, <1>3, <1>4, <2>1, RollbackKeeps
<1>5. CASE at[c] \notin InTransaction
  <2>1. at[c] \in Outside /\ UNCHANGED <<free, lock>>
    BY <1>1, <1>5 DEF LoseCall
  <2>2. config' \in [Calls -> Configs \cup {None}]
    BY <1>1 DEF Inv, Types
  <2>3. UNCHANGED <<profile, usable, job, free, lock, request, workers, left>>
    BY <1>1, <2>1
  <2> QED
    BY <1>1, <1>3, <2>1, <2>2, <2>3, CallReads
<1> QED
  BY <1>4, <1>5

LEMMA CommitKeeps ==
  ASSUME Inv, NEW c \in Calls, Commit(c)
  PROVE  Inv'
<1>1. PICK j \in JobIds : Fresh(j) /\ job' = [job EXCEPT ![j] = NewRow(c)]
  BY DEF Commit
<1>2. /\ at[c] = "commit" /\ config' = [config EXCEPT ![c] = None] /\ EndTransaction(c)
      /\ profile' = profile /\ usable' = usable /\ request' = request /\ left' = left
      /\ worker' = worker /\ used' = used
  BY DEF Commit, workers
<1>3. /\ request[c] \in Requests /\ request[c].doc \in Docs
      /\ request[c].key \in Keys \cup {NoKey}
      /\ request[c].profile \in Profiles /\ request[c].scenario \in Scenarios
      /\ lock[request[c].doc] = c /\ ~Analysed(request[c].doc) /\ Keyed(c) = {}
  BY <1>2, RequestsAssumption DEF Inv, Locked, Locking
<1>4. NewRow(c) \in Rows
  BY <1>3 DEF NewRow, Rows, Inv, Types
<1>5. /\ NewRow(c).doc = request[c].doc /\ NewRow(c).key = request[c].key
      /\ NewRow(c).profile = request[c].profile /\ NewRow(c).scenario = request[c].scenario /\ NewRow(c).status = "queued"
  BY DEF NewRow
<1>6. /\ job' \in [JobIds -> Rows \cup {Absent}] /\ job'[j] = NewRow(c)
      /\ \A i \in JobIds \ {j} : job'[i] = job[i]
  BY <1>1, <1>4 DEF Inv, Types
<1>7. PICK p \in {"answered", "lost"} : at' = [at EXCEPT ![c] = p]
  BY DEF Commit, Answer
<1>8. /\ p \in Places /\ p \notin InTransaction /\ at[c] \in InTransaction
      /\ p \notin Locking /\ p # "idle"
  BY <1>2 DEF Places, InTransaction, Locking
<1>9. Answered' /\ answer' \in [Calls -> Replies \cup {None}]
  <2>1. CASE Answer(c, "accepted", NewRow(c))
    <3>1. [code |-> "accepted", row |-> NewRow(c)] \in Replies
      BY <1>4 DEF Replies
    <3>2. Matches(c, [code |-> "accepted", row |-> NewRow(c)])
      BY <1>5 DEF Matches
    <3> QED
      BY <1>2, <2>1, <3>1, <3>2, NewAnswer DEF Inv
  <2>2. CASE at' = [at EXCEPT ![c] = "lost"] /\ answer' = answer
    BY <1>2, <1>3, <2>2, GoesOn DEF Go
  <2> QED
    BY <2>1, <2>2 DEF Commit
<1>10. /\ lock' \in [Docs -> Calls \cup {NoCall}] /\ free' = free + 1
       /\ \A d \in Docs : lock[d] # c => lock'[d] = lock[d]
  BY <1>2, LocksReleased DEF Inv
<1>11. Pooled' /\ free' \in Nat
  BY <1>7, <1>8, <1>10, PoolReturned DEF Inv
<1>12. Types'
  <2>1. config' \in [Calls -> Configs \cup {None}] /\ at' \in [Calls -> Places]
    BY <1>2, <1>7, <1>8 DEF Inv, Types
  <2> QED
    BY <1>2, <1>6, <1>9, <1>10, <1>11, <2>1 DEF Inv, Types
<1>13. at'[c] = p /\ \A d \in Calls \ {c} : at'[d] = at[d]
  BY <1>7 DEF Inv, Types
<1>14. \A d \in Calls \ {c} : at[d] \in Locking => request[d].doc # request[c].doc
  BY <1>3 DEF Inv, Locked
<1>15. Locked'
  <2>1. \A d \in Calls : at'[d] # "idle" => request[d] \in Requests
    BY <1>3, <1>13 DEF Inv, Locked
  <2>2. \A d \in Calls : at'[d] \in Locking => lock'[request[d].doc] = d
    <3> SUFFICES ASSUME NEW d \in Calls \ {c}, at[d] \in Locking
                 PROVE  lock'[request[d].doc] = d
      BY <1>8, <1>13
    <3>1. lock[request[d].doc] = d /\ request[d].doc \in Docs
      BY RequestsAssumption DEF Inv, Locked, Locking
    <3> QED
      BY <1>10, <3>1
  <2>3. \A d \in Calls : at'[d] \in {"insert", "commit"} => ~Analysed(request[d].doc)'
    <3> SUFFICES ASSUME NEW d \in Calls \ {c}, at[d] \in {"insert", "commit"}
                 PROVE  ~Analysed(request[d].doc)'
      BY <1>8, <1>13 DEF Locking
    <3>1. ~Analysed(request[d].doc) /\ request[d].doc # request[c].doc
      BY <1>14 DEF Inv, Locked, Locking
    <3> QED
      BY <1>2, <1>5, <1>6, <3>1 DEF Analysed, Exists
  <2>4. \A d \in Calls : at'[d] = "commit" => Keyed(d)' = {}
    <3> SUFFICES ASSUME NEW d \in Calls \ {c}, at[d] = "commit"
                 PROVE  Keyed(d)' = {}
      BY <1>8, <1>13 DEF Locking
    <3>1. Keyed(d) = {} /\ (request[d].key = request[c].key => request[d].key = NoKey)
      BY <1>2 DEF Inv, Locked
    <3> QED
      BY <1>2, <1>5, <1>6, <3>1 DEF Keyed, Exists
  <2>5. \A d, e \in Calls :
          (d # e /\ at'[d] = "commit" /\ at'[e] = "commit" /\ request[d].key = request[e].key)
            => request[d].key = NoKey
    BY <1>8, <1>13 DEF Inv, Locked, Locking
  <2> QED
    BY <1>2, <2>1, <2>2, <2>3, <2>4, <2>5 DEF Locked, Analysed, Exists
<1>16. OneJob'
  <2>1. \A i \in JobIds \ {j} : Exists(i) =>
          /\ job[i].doc # NewRow(c).doc
          /\ job[i].key = NewRow(c).key => NewRow(c).key = NoKey
    BY <1>3, <1>5 DEF Analysed, Keyed
  <2> QED
    BY <1>6, <2>1 DEF Inv, OneJob, Exists
<1>17. Configured'
  <2>1. used[j] = {} /\ \A w \in Workers : Mine(w) # j
    BY <1>1 DEF Fresh, Mine
  <2>2. \A w \in Workers : Knows(w)'
    BY <1>2, <1>6, <2>1 DEF Inv, Configured, Knows, Live, Owns, Mine, Exists
  <2>3. \A i \in JobIds : Kept(i)'
    BY <1>2, <1>6, <2>1 DEF Inv, Configured, Kept, Live, Exists
  <2> QED
    BY <2>2, <2>3 DEF Configured
<1> QED
  BY <1>9, <1>11, <1>12, <1>15, <1>16, <1>17 DEF Inv
-----------------------------------------------------------------------------
(* The life of a row: whatever changes it leaves its document and its key. *)
LEMMA RowChanges ==
  ASSUME Inv, NEW j \in JobIds, Exists(j), NEW row \in Rows \cup {Absent},
         Change(j, row), row # Absent => row.doc = job[j].doc /\ row.key = job[j].key,
         UNCHANGED calls
  PROVE  /\ job' \in [JobIds -> Rows \cup {Absent}]
         /\ job'[j] = row /\ \A i \in JobIds \ {j} : job'[i] = job[i]
         /\ Pooled' /\ Locked' /\ OneJob' /\ Answered'
<1>1. /\ free' = free /\ lock' = lock /\ at' = at /\ request' = request
      /\ config' = config /\ answer' = answer
  BY DEF calls
<1>2. /\ job' \in [JobIds -> Rows \cup {Absent}] /\ job'[j] = row
      /\ \A i \in JobIds \ {j} : job'[i] = job[i]
  BY DEF Change, Inv, Types
<1>3. \A i \in JobIds : Exists(i)' =>
        Exists(i) /\ job'[i].doc = job[i].doc /\ job'[i].key = job[i].key
  BY <1>2 DEF Exists
<1>4. Pooled' /\ Answered'
  BY <1>1 DEF Inv, Pooled, Open, Answered, Matches
<1>5. OneJob'
  BY <1>3 DEF Inv, OneJob
<1>6. \A d : Analysed(d)' => Analysed(d)
  BY <1>3 DEF Analysed
<1>7. \A c \in Calls : Keyed(c)' \subseteq Keyed(c)
  BY <1>1, <1>3 DEF Keyed
<1>8. Locked'
  <2>1. \A c \in Calls : at[c] \in {"insert", "commit"} => ~Analysed(request[c].doc)'
    BY <1>1, <1>6 DEF Inv, Locked, Analysed
  <2>2. \A c \in Calls : at[c] = "commit" => Keyed(c)' = {}
    BY <1>7 DEF Inv, Locked
  <2> QED
    BY <1>1, <2>1, <2>2 DEF Inv, Locked
<1> QED
  BY <1>2, <1>4, <1>5, <1>8

(* The row of a live job that is failed, requeued or retried keeps its     *)
(* configuration; one that ends or goes is nobody's any more.              *)
LEMMA RowLives ==
  ASSUME Inv, NEW j \in JobIds, Exists(j), NEW row \in Rows \cup {Absent},
         Change(j, row), UNCHANGED workers,
         \/ row = Absent
         \/ row # Absent /\ row.status = "ended"
         \/ /\ job[j].status # "ended" /\ row.snapshot = job[j].snapshot
            /\ row.owner \in {NoWorker, job[j].owner}
  PROVE  Configured'
<1>1. /\ worker' = worker /\ used' = used
      /\ job'[j] = row /\ \A i \in JobIds \ {j} : job'[i] = job[i]
  BY DEF workers, Change, Inv, Types
<1>2. \A i \in JobIds : Live(i)' => Live(i) /\ job'[i].snapshot = job[i].snapshot
  BY <1>1 DEF Live, Exists
<1>3. \A i \in JobIds, w \in Workers : Live(i)' /\ job'[i].owner = w => job[i].owner = w
  BY <1>1, NamesAssumption DEF Live, Exists
<1>4. \A w \in Workers : Knows(w)'
  <2> SUFFICES ASSUME NEW w \in Workers PROVE Knows(w)'
    OBVIOUS
  <2>1. worker[w].at # "idle" => Mine(w) \in JobIds
    BY DEF Inv, Configured, Knows
  <2>2. (worker[w].at # "idle" /\ Owns(w)' /\ Live(Mine(w))') => Owns(w) /\ Live(Mine(w))
    BY <1>1, <1>2, <1>3, <2>1 DEF Owns, Live, Mine
  <2>3. (worker[w].at # "idle" /\ Live(Mine(w))')
          => job'[Mine(w)].snapshot = job[Mine(w)].snapshot
    BY <1>1, <1>2, <2>1 DEF Mine, Live, Exists
  <2> QED
    BY <1>1, <2>2, <2>3 DEF Inv, Configured, Knows, Mine
<1>5. \A i \in JobIds : Kept(i)'
  BY <1>1, <1>2 DEF Inv, Configured, Kept
<1> QED
  BY <1>4, <1>5 DEF Configured

LEMMA LifeKeeps ==
  ASSUME Inv, NEW j \in JobIds,
         EndJob(j) \/ FailJob(j) \/ RequeueJob(j) \/ Retry(j) \/ DeleteJob(j)
  PROVE  Inv'
<1>1. /\ Exists(j) /\ job[j] \in Rows /\ UNCHANGED calls /\ UNCHANGED workers
      /\ profile' = profile /\ left' = left
  BY DEF EndJob, FailJob, RequeueJob, Retry, DeleteJob, Exists, Inv, Types
<1>2. usable' \in [Docs -> BOOLEAN]
  BY DEF EndJob, FailJob, RequeueJob, Retry, DeleteJob, DropInput, Inv, Types
<1> DEFINE ended    == [job[j] EXCEPT !.status = "ended", !.snapshot = None]
           failed   == [job[j] EXCEPT !.status = "failed"]
           requeued == [job[j] EXCEPT !.status = "queued", !.owner = NoWorker]
<1>3. /\ ended \in Rows /\ ended.doc = job[j].doc /\ ended.key = job[j].key
      /\ ended.status = "ended"
  BY <1>1 DEF Rows
<1>4. /\ failed \in Rows /\ failed.doc = job[j].doc /\ failed.key = job[j].key
      /\ failed.snapshot = job[j].snapshot /\ failed.owner = job[j].owner
  BY <1>1 DEF Rows
<1>5. /\ requeued \in Rows /\ requeued.doc = job[j].doc /\ requeued.key = job[j].key
      /\ requeued.snapshot = job[j].snapshot /\ requeued.owner = NoWorker
  BY <1>1 DEF Rows
<1>6. \/ Change(j, Absent) \/ Change(j, ended)
      \/ job[j].status # "ended" /\ (Change(j, failed) \/ Change(j, requeued))
  BY DEF EndJob, FailJob, RequeueJob, Retry, DeleteJob
<1> HIDE DEF ended, failed, requeued
<1>7. PICK row \in Rows \cup {Absent} :
        /\ Change(j, row) /\ (row # Absent => row.doc = job[j].doc /\ row.key = job[j].key)
        /\ \/ row = Absent
           \/ row # Absent /\ row.status = "ended"
           \/ /\ job[j].status # "ended" /\ row.snapshot = job[j].snapshot
              /\ row.owner \in {NoWorker, job[j].owner}
  BY <1>3, <1>4, <1>5, <1>6, RowsExist
<1>8. /\ job' \in [JobIds -> Rows \cup {Absent}]
      /\ Pooled' /\ Locked' /\ OneJob' /\ Answered'
  BY <1>1, <1>7, RowChanges
<1>9. Configured'
  BY <1>1, <1>7, RowLives
<1>10. Types'
  BY <1>1, <1>2, <1>8 DEF Inv, Types, calls, workers
<1> QED
  BY <1>8, <1>9, <1>10 DEF Inv

(* What users do to the profiles and cleanup to the input.                  *)
LEMMA ProfileKeeps ==
  ASSUME Inv, (\E p \in Profiles : EditProfile(p) \/ SetEnabled(p)) \/ \E d \in Docs : ExpireInput(d)
  PROVE  Inv'
<1>1. job' = job /\ UNCHANGED calls /\ UNCHANGED workers
  BY DEF EditProfile, SetEnabled, ExpireInput
<1>2. usable' \in [Docs -> BOOLEAN]
  BY DEF EditProfile, SetEnabled, ExpireInput, DropInput, Inv, Types
<1>3. /\ profile' \in [Profiles -> Settings]
      /\ left' \in [sends : Nat, claims : Nat, edits : 0 .. MaxEdits]
      /\ \A q \in Profiles : profile'[q].settings + left'.edits <= MaxEdits
  <2>1. /\ profile \in [Profiles -> Settings]
        /\ left \in [sends : Nat, claims : Nat, edits : 0 .. MaxEdits]
        /\ MaxEdits \in Nat /\ \A q \in Profiles : profile[q].settings + left.edits <= MaxEdits
    BY BudgetsAssumption DEF Inv, Types
  <2>2. CASE \E p \in Profiles : EditProfile(p) \/ SetEnabled(p)
    <3>1. PICK p \in Profiles : EditProfile(p) \/ SetEnabled(p)
      BY <2>2
    <3> DEFINE flipped == ~profile[p].enabled
               edited  == [profile[p] EXCEPT !.settings = @ + 1]
               turned  == [profile[p] EXCEPT !.enabled = flipped]
    <3>2. PICK now \in {edited, turned} :
            profile' = [profile EXCEPT ![p] = now] /\ left' = [left EXCEPT !.edits = @ - 1]
      BY <3>1 DEF EditProfile, SetEnabled
    <3>3. left.edits > 0 /\ profile[p] \in Settings /\ profile[p].settings + left.edits <= MaxEdits
      BY <2>1, <3>1 DEF EditProfile, SetEnabled
    <3>4. edited \in Settings /\ edited.settings = profile[p].settings + 1
      BY <2>1, <3>3 DEF Settings
    <3>5. turned \in Settings /\ turned.settings = profile[p].settings
      <4>1. flipped \in BOOLEAN
        OBVIOUS
      <4> HIDE DEF flipped
      <4> QED
        BY <3>3, <4>1 DEF Settings
    <3> HIDE DEF edited, turned
    <3>6. now \in Settings /\ now.settings <= profile[p].settings + 1
      BY <3>3, <3>4, <3>5 DEF Settings
    <3>7. left' \in [sends : Nat, claims : Nat, edits : 0 .. MaxEdits] /\ left'.edits = left.edits - 1
      BY <2>1, <3>2, <3>3
    <3>8. profile' \in [Profiles -> Settings] /\ profile'[p] = now
          /\ \A q \in Profiles \ {p} : profile'[q] = profile[q]
      BY <2>1, <3>2, <3>6
    <3>9. ASSUME NEW q \in Profiles
          PROVE  profile'[q].settings + left'.edits <= MaxEdits
      <4>1. profile[q].settings \in Int /\ profile[q].settings + left.edits <= MaxEdits /\ left.edits \in Int
        BY <2>1 DEF Settings
      <4>2. now.settings \in Int /\ profile[p].settings \in Int
        BY <3>3, <3>6 DEF Settings
      <4> QED
        BY <2>1, <3>3, <3>6, <3>7, <3>8, <4>1, <4>2
    <3> QED
      BY <3>7, <3>8, <3>9
  <2>3. CASE \E d \in Docs : ExpireInput(d)
    BY <2>1, <2>3 DEF ExpireInput
  <2> QED
    BY <2>2, <2>3
<1>4. Types'
  BY <1>1, <1>2, <1>3 DEF Inv, Types, calls, workers
<1>5. Pooled' /\ Locked' /\ OneJob' /\ Answered'
  BY <1>1 DEF Inv, Pooled, Open, Locked, OneJob, Answered, Matches, Analysed, Keyed,
     Exists, calls
<1>6. Configured'
  BY <1>1, WorkersUntouched DEF Inv
<1> QED
  BY <1>4, <1>5, <1>6 DEF Inv
-----------------------------------------------------------------------------
(* Workers                                                                 *)

(* A slot that only changes what it holds itself.                          *)
LEMMA SlotMoves ==
  ASSUME Inv, NEW w \in Workers, NEW s \in Slots, Set(w, s),
         UNCHANGED <<profile, usable, job, calls, used, left>>,
         Knows(w)'
  PROVE  Inv'
<1>1. /\ worker' \in [Workers -> Slots] /\ \A v \in Workers \ {w} : worker'[v] = worker[v]
  BY DEF Set, Inv, Types
<1>2. Types'
  BY <1>1 DEF Inv, Types, calls
<1>3. Pooled' /\ Locked' /\ OneJob' /\ Answered'
  BY DEF Inv, Pooled, Open, Locked, OneJob, Answered, Matches, Analysed, Keyed,
     Exists, calls
<1>4. Configured'
  <2>1. \A v \in Workers \ {w} : Knows(v)'
    BY <1>1 DEF Inv, Configured, Knows, Live, Owns, Mine, Exists
  <2>2. \A j \in JobIds : Kept(j)'
    BY DEF Inv, Configured, Kept, Live, Exists
  <2> QED
    BY <2>1, <2>2 DEF Configured
<1> QED
  BY <1>2, <1>3, <1>4 DEF Inv

LEMMA SlotIdles ==
  ASSUME Inv, NEW w \in Workers, Set(w, Idle),
         UNCHANGED <<profile, usable, job, calls, used, left>>
  PROVE  Inv'
<1>1. Knows(w)'
  BY IdleSlot DEF Knows, Set, Inv, Types
<1> QED
  BY <1>1, IdleSlot, SlotMoves

LEMMA LoadProfileKeeps ==
  ASSUME Inv, NEW w \in Workers, LoadProfile(w)
  PROVE  Inv'
<1> DEFINE now == [settings |-> profile[worker[w].profile].settings, guidance |-> GuidanceOf[w]]
           s   == [worker[w] EXCEPT !.at = "store", !.config = now]
<1>1. worker[w] \in Slots /\ worker[w].at = "load"
      /\ UNCHANGED <<profile, usable, job, calls, used, left>>
  BY DEF LoadProfile, Inv, Types
<1>2. now \in Configs /\ now.guidance # 0
  <2>1. worker[w].profile \in Profiles
    BY <1>1 DEF Inv, Configured, Knows
  <2> QED
    BY <2>1, VersionsAssumption DEF Configs, Guidance, Inv, Types, Settings
<1>3. CASE Set(w, Idle)
  BY <1>1, <1>3, SlotIdles
<1>4. CASE Set(w, s)
  <2> HIDE DEF now
  <2>1. s \in Slots /\ s.at = "store" /\ s.job = Mine(w)
        /\ s.profile = worker[w].profile /\ s.config = now
    BY <1>1, <1>2 DEF Slots, Mine
  <2> HIDE DEF s
  <2>2. worker'[w] = s
    BY <1>4 DEF Set, Inv, Types
  <2>3. Mine(w) \in JobIds /\ worker[w].profile \in Profiles
        /\ (Owns(w) /\ Live(Mine(w)) => used[Mine(w)] = {})
    BY <1>1 DEF Inv, Configured, Knows
  <2>4. Knows(w)'
    BY <1>1, <1>2, <2>1, <2>2, <2>3 DEF Knows, Owns, Live, Exists, Mine
  <2> QED
    BY <1>1, <1>4, <2>1, <2>4, SlotMoves
<1> QED
  BY <1>3, <1>4 DEF LoadProfile

LEMMA FreezeGuidanceKeeps ==
  ASSUME Inv, NEW w \in Workers, FreezeGuidance(w)
  PROVE  Inv'
<1>1. worker[w] \in Slots /\ worker[w].at = "freeze" /\ worker[w].config \in Configs
      /\ Mine(w) \in JobIds /\ worker[w].profile \in Profiles
      /\ (Owns(w) /\ Live(Mine(w)) => job[Mine(w)].snapshot = worker[w].config)
      /\ UNCHANGED <<profile, usable, job, calls, used, left>>
  BY DEF FreezeGuidance, Inv, Types, Configured, Knows
<1>2. CASE worker[w].config.guidance = 0
  <2> DEFINE now == [worker[w].config EXCEPT !.guidance = GuidanceOf[w]]
             s   == [worker[w] EXCEPT !.at = "store", !.config = now]
  <2>1. now \in Configs /\ now.guidance # 0
    BY <1>1, VersionsAssumption DEF Configs, Guidance
  <2>2. Set(w, s)
    BY <1>2 DEF FreezeGuidance
  <2> HIDE DEF now
  <2>3. s \in Slots /\ s.at = "store" /\ s.job = Mine(w)
        /\ s.profile = worker[w].profile /\ s.config = now
    BY <1>1, <2>1 DEF Slots, Mine
  <2> HIDE DEF s
  <2>4. worker'[w] = s
    BY <2>2 DEF Set, Inv, Types
  <2>5. Owns(w) /\ Live(Mine(w)) => used[Mine(w)] = {}
    BY <1>1, <1>2 DEF Inv, Configured, Kept
  <2>6. Knows(w)'
    BY <1>1, <2>1, <2>3, <2>4, <2>5 DEF Knows, Owns, Live, Exists, Mine
  <2> QED
    BY <1>1, <2>2, <2>3, <2>6, SlotMoves
<1>3. CASE worker[w].config.guidance # 0
  <2> DEFINE s == [worker[w] EXCEPT !.at = "work"]
  <2>1. Set(w, s)
    BY <1>3 DEF FreezeGuidance
  <2>2. s \in Slots /\ s.at = "work" /\ s.job = Mine(w)
        /\ s.profile = worker[w].profile /\ s.config = worker[w].config
    BY <1>1 DEF Slots, Mine
  <2> HIDE DEF s
  <2>3. worker'[w] = s
    BY <2>1 DEF Set, Inv, Types
  <2>4. Knows(w)'
    BY <1>1, <1>3, <2>2, <2>3 DEF Knows, Owns, Live, Exists, Mine
  <2> QED
    BY <1>1, <2>1, <2>2, <2>4, SlotMoves
<1> QED
  BY <1>2, <1>3

(* A slot that changes its job's row takes the row from all others.        *)
LEMMA SlotWrites ==
  ASSUME Inv, NEW w \in Workers, NEW s \in Slots, Set(w, s),
         NEW j \in JobIds, Exists(j), NEW row \in Rows, Change(j, row),
         row.doc = job[j].doc, row.key = job[j].key, row.owner = w,
         UNCHANGED <<profile, usable, calls, used>>,
         left' \in [sends : Nat, claims : Nat, edits : 0 .. MaxEdits], left'.edits = left.edits,
         Knows(w)', Kept(j)'
  PROVE  Inv'
<1>1. /\ worker' \in [Workers -> Slots] /\ \A v \in Workers \ {w} : worker'[v] = worker[v]
  BY DEF Set, Inv, Types
<1>2. row # Absent
  BY RowsExist
<1>3. /\ job' \in [JobIds -> Rows \cup {Absent}]
      /\ job'[j] = row /\ \A i \in JobIds \ {j} : job'[i] = job[i]
      /\ Pooled' /\ Locked' /\ OneJob' /\ Answered'
  BY RowChanges
<1>4. Types'
  BY <1>1, <1>3 DEF Inv, Types, calls
<1>5. Configured'
  <2>1. \A v \in Workers \ {w} : Knows(v)'
    <3> SUFFICES ASSUME NEW v \in Workers \ {w} PROVE Knows(v)'
      OBVIOUS
    <3>1. worker[v].at # "idle" => Mine(v) \in JobIds
      BY DEF Inv, Configured, Knows
    <3>2. CASE worker[v].at # "idle" /\ Mine(v) # j
      BY <1>1, <1>3, <3>1, <3>2 DEF Inv, Configured, Knows, Live, Owns, Mine, Exists
    <3>3. CASE worker[v].at # "idle" /\ Mine(v) = j
      BY <1>1, <1>3, <3>1, <3>3 DEF Inv, Configured, Knows, Owns, Mine
    <3>4. CASE worker[v].at = "idle"
      BY <1>1, <3>4 DEF Knows
    <3> QED
      BY <3>2, <3>3, <3>4
  <2>2. \A i \in JobIds \ {j} : Kept(i)'
    BY <1>3 DEF Inv, Configured, Kept, Live, Exists
  <2> QED
    BY <2>1, <2>2 DEF Configured
<1> QED
  BY <1>3, <1>4, <1>5 DEF Inv

LEMMA ClaimKeeps ==
  ASSUME Inv, NEW w \in Workers, NEW j \in JobIds, Claim(w, j)
  PROVE  Inv'
<1> DEFINE row == [job[j] EXCEPT !.status = "running", !.owner = w]
           s   == [at |-> IF job[j].snapshot = None THEN "load" ELSE "freeze",
                   job |-> j, profile |-> job[j].profile, config |-> job[j].snapshot]
<1>1. /\ Exists(j) /\ job[j] \in Rows /\ job[j].status = "queued"
      /\ Change(j, row) /\ Set(w, s)
      /\ left.claims > 0 /\ left' = [left EXCEPT !.claims = @ - 1]
      /\ profile' = profile /\ usable' = usable /\ used' = used /\ UNCHANGED calls
  BY DEF Claim, Exists, Inv, Types
<1>2. /\ row \in Rows /\ row.doc = job[j].doc /\ row.key = job[j].key /\ row.owner = w
      /\ row.snapshot = job[j].snapshot /\ row.status = "running"
  BY <1>1 DEF Rows
<1>3. /\ s \in Slots /\ s.job = j /\ s.profile \in Profiles /\ s.config = job[j].snapshot
      /\ s.at = IF job[j].snapshot = None THEN "load" ELSE "freeze"
  BY <1>1 DEF Slots, Rows
<1>4. job[j].snapshot \in Configs \cup {None}
  BY <1>1 DEF Rows
<1>5. left' \in [sends : Nat, claims : Nat, edits : 0 .. MaxEdits] /\ left'.edits = left.edits
  BY <1>1 DEF Inv, Types
<1> HIDE DEF row, s
<1>6. worker'[w] = s /\ job'[j] = row
  BY <1>1 DEF Set, Change, Inv, Types
<1>7. Live(j) /\ (used[j] # {} => used[j] = {job[j].snapshot} /\ job[j].snapshot.guidance # 0)
      /\ \A a, b \in used[j] : a = b
  BY <1>1 DEF Live, Inv, Configured, Kept
<1>8. used[j] \subseteq Configs
  BY DEF Inv, Types
<1>9. job[j].snapshot = None => used[j] = {}
  BY <1>7, <1>8, ConfigsExist
<1>10. Kept(j)'
  BY <1>1, <1>2, <1>6, <1>7 DEF Kept
<1>11. Knows(w)'
  BY <1>1, <1>2, <1>3, <1>4, <1>6, <1>9 DEF Knows, Mine
<1>12. UNCHANGED <<profile, usable, calls, used>>
  BY <1>1
<1> QED
  BY <1>1, <1>2, <1>3, <1>5, <1>10, <1>11, <1>12, SlotWrites

LEMMA SetConfigurationKeeps ==
  ASSUME Inv, NEW w \in Workers, SetConfiguration(w)
  PROVE  Inv'
<1>0. PICK j \in JobIds : j = Mine(w)
  BY DEF SetConfiguration, Inv, Configured, Knows
<1> DEFINE row == [job[j] EXCEPT !.snapshot = worker[w].config]
           s   == [worker[w] EXCEPT !.at = "work"]
<1>1. /\ worker[w].at = "store" /\ worker[w] \in Slots /\ worker[w].profile \in Profiles
      /\ worker[w].config \in Configs /\ worker[w].config.guidance # 0
      /\ profile' = profile /\ usable' = usable /\ used' = used /\ UNCHANGED calls
      /\ left' = left
  BY DEF SetConfiguration, Inv, Types, Configured, Knows
<1>2. CASE Owns(w)
  <2>1. Exists(j) /\ job[j] \in Rows /\ job[j].owner = w /\ Change(j, row) /\ Set(w, s)
    BY <1>0, <1>1, <1>2 DEF SetConfiguration, Owns, Exists, Inv, Types
  <2>2. /\ row \in Rows /\ row.doc = job[j].doc /\ row.key = job[j].key /\ row.owner = w
        /\ row.snapshot = worker[w].config /\ row.status = job[j].status
    BY <1>1, <2>1 DEF Rows
  <2>3. s \in Slots /\ s.at = "work" /\ s.job = j /\ s.profile = worker[w].profile
        /\ s.config = worker[w].config
    BY <1>0, <1>1 DEF Slots, Mine
  <2>4. left' \in [sends : Nat, claims : Nat, edits : 0 .. MaxEdits] /\ left'.edits = left.edits
    BY <1>1 DEF Inv, Types
  <2>5. (Live(j) => used[j] = {}) /\ \A a, b \in used[j] : a = b
    BY <1>0, <1>1, <1>2 DEF Inv, Configured, Knows, Kept, Live
  <2> HIDE DEF row, s
  <2>6. worker'[w] = s /\ job'[j] = row
    BY <1>1, <2>1 DEF Set, Change, Inv, Types
  <2>7. Live(j)' => Live(j)
    BY <2>1, <2>2, <2>6 DEF Live, Exists
  <2>8. Kept(j)'
    BY <1>1, <2>5, <2>7 DEF Kept
  <2>9. Knows(w)'
    BY <1>0, <1>1, <2>2, <2>3, <2>6 DEF Knows, Mine
  <2>10. UNCHANGED <<profile, usable, calls, used>>
    BY <1>1
  <2> QED
    BY <1>1, <2>1, <2>2, <2>3, <2>4, <2>8, <2>9, <2>10, SlotWrites
<1>3. CASE ~Owns(w)
  <2>1. job' = job /\ Set(w, Idle)
    BY <1>3 DEF SetConfiguration
  <2>2. UNCHANGED <<profile, usable, job, calls, used, left>>
    BY <1>1, <2>1
  <2> QED
    BY <2>1, <2>2, SlotIdles
<1> QED
  BY <1>2, <1>3

LEMMA WorkKeeps ==
  ASSUME Inv, NEW w \in Workers, Work(w)
  PROVE  Inv'
<1> DEFINE j == Mine(w)
<1>1. /\ worker[w].at = "work" /\ j \in JobIds
      /\ worker[w].config \in Configs /\ worker[w].config.guidance # 0
      /\ profile' = profile /\ usable' = usable /\ job' = job /\ UNCHANGED calls
      /\ left' = left
  BY DEF Work, Inv, Configured, Knows
<1>2. CASE Owns(w) /\ job[j].status = "running"
  <2>1. used' = [used EXCEPT ![j] = @ \cup {worker[w].config}] /\ worker' = worker
    BY <1>2 DEF Work
  <2>2. Live(j) /\ job[j].snapshot = worker[w].config
    BY <1>1, <1>2 DEF Live, Owns, Inv, Configured, Knows
  <2>3. used'[j] = {worker[w].config} /\ \A i \in JobIds \ {j} : used'[i] = used[i]
    <3>1. used[j] = {} \/ used[j] = {worker[w].config}
      BY <1>1, <2>2 DEF Inv, Configured, Kept
    <3> QED
      BY <1>1, <2>1, <3>1 DEF Inv, Types
  <2>4. used' \in [JobIds -> SUBSET Configs]
    BY <1>1, <2>1 DEF Inv, Types
  <2>5. Types'
    BY <1>1, <2>1, <2>4 DEF Inv, Types, calls
  <2>6. Pooled' /\ Locked' /\ OneJob' /\ Answered'
    BY <1>1 DEF Inv, Pooled, Open, Locked, OneJob, Answered, Matches, Analysed, Keyed,
       Exists, calls
  <2>7. \A i \in JobIds : Kept(i)'
    BY <1>1, <2>2, <2>3 DEF Inv, Configured, Kept, Live, Exists
  <2>8. \A v \in Workers : Knows(v)'
    <3> SUFFICES ASSUME NEW v \in Workers PROVE Knows(v)'
      OBVIOUS
    <3>1. (worker[v].at # "idle" /\ worker[v].at \in {"load", "store"} /\ Owns(v))
            => Mine(v) # j
      BY <1>1, <1>2 DEF Owns
    <3>2. worker[v].at # "idle" => Mine(v) \in JobIds
      BY DEF Inv, Configured, Knows
    <3> QED
      BY <1>1, <2>1, <2>3, <3>1, <3>2 DEF Inv, Configured, Knows, Live, Owns, Mine, Exists
  <2> QED
    BY <2>5, <2>6, <2>7, <2>8 DEF Inv, Configured
<1>3. CASE Set(w, Idle) /\ used' = used
  <2>1. UNCHANGED <<profile, usable, job, calls, used, left>>
    BY <1>1, <1>3
  <2> QED
    BY <1>3, <2>1, SlotIdles
<1> QED
  BY <1>2, <1>3 DEF Work

LEMMA LeaveJobKeeps ==
  ASSUME Inv, NEW w \in Workers, LeaveJob(w)
  PROVE  Inv'
  BY SlotIdles DEF LeaveJob
-----------------------------------------------------------------------------
THEOREM RequestsStep == Inv /\ [Next]_vars => Inv'
<1> SUFFICES ASSUME Inv, [Next]_vars PROVE Inv'
  OBVIOUS
<1>1. CASE (\E p \in Profiles : EditProfile(p) \/ SetEnabled(p)) \/ \E d \in Docs : ExpireInput(d)
  BY <1>1, ProfileKeeps
<1>2. CASE \E c \in Calls : Send(c) \/ Resend(c) \/ CreateStep(c) \/ LoseCall(c)
  BY <1>2, SendKeeps, ResendKeeps, ReadingKeeps, BeginKeeps, TransactionKeeps, CommitKeeps,
     LoseCallKeeps DEF CreateStep
<1>3. CASE \E j \in JobIds : EndJob(j) \/ FailJob(j) \/ RequeueJob(j) \/ Retry(j) \/ DeleteJob(j)
  BY <1>3, LifeKeeps
<1>4. CASE \E w \in Workers : \/ \E j \in JobIds : Claim(w, j)
                              \/ LoadProfile(w) \/ FreezeGuidance(w) \/ SetConfiguration(w)
                              \/ Work(w) \/ LeaveJob(w)
  BY <1>4, ClaimKeeps, LoadProfileKeeps, FreezeGuidanceKeeps, SetConfigurationKeeps,
     WorkKeeps, LeaveJobKeeps
<1>5. CASE UNCHANGED vars
  <2>1. Types'
    BY <1>5 DEF Inv, Types, vars, calls, workers
  <2>2. Pooled' /\ Locked' /\ OneJob' /\ Answered'
    BY <1>5 DEF Inv, Pooled, Open, Locked, OneJob, Answered, Matches, Analysed, Keyed,
       Exists, vars, calls
  <2>3. Configured'
    BY <1>5, WorkersUntouched DEF Inv, vars
  <2> QED
    BY <2>1, <2>2, <2>3 DEF Inv
<1> QED
  BY <1>1, <1>2, <1>3, <1>4, <1>5 DEF Next

(* The invariant holds in every state of every instance.                   *)
THEOREM RequestsInvariant == Spec => []Inv
<1> QED
  BY RequestsInit, RequestsStep, PTL DEF Spec

(* The types, and the pool: as many connections are taken as transactions  *)
(* are open, and never more than there are.                                *)
THEOREM RequestsTypeCorrect == Spec => []RequestsTypeOK
<1>1. Inv => RequestsTypeOK
  BY DEF Inv, Types, Pooled, Open, Places, Slots, Settings, RequestsTypeOK
<1> QED
  BY <1>1, RequestsInvariant, PTL

(* POST /analyses: a document has one job at most, and so has a key.       *)
THEOREM OneJobAlways == Spec => []OneJob
<1>1. Inv => OneJob
  BY DEF Inv
<1> QED
  BY <1>1, RequestsInvariant, PTL

(* A successful answer names a job of the request.                         *)
THEOREM AnswersAlwaysMatch == Spec => []AnswersMatchRequest
<1>1. Inv => AnswersMatchRequest
  BY DEF Inv, Answered, Matches, AnswersMatchRequest
<1> QED
  BY <1>1, RequestsInvariant, PTL

(* However the profiles change and whichever versions claim the job, it is *)
(* processed with the configuration its row keeps.                         *)
THEOREM OneConfigurationAlways == Spec => []OneConfiguration
<1>1. Inv => OneConfiguration
  BY DEF Inv, Configured, Kept, Live, OneConfiguration
<1> QED
  BY <1>1, RequestsInvariant, PTL

(* A conflict is only answered where no job of the request exists: the row *)
(* of its key is the only one, and it is of another document, profile or   *)
(* scenario.                                                               *)
LEMMA ConflictsDiffer ==
  ASSUME Inv, [Next]_vars, NEW c \in Calls,
         answer'[c] # answer[c], answer'[c] # None, answer'[c].code = "conflict"
  PROVE  \A j \in Keyed(c) : \/ job[j].doc # request[c].doc
                              \/ job[j].profile # request[c].profile
                              \/ job[j].scenario # request[c].scenario
<1> DEFINE Differs == \A j \in Keyed(c) : \/ job[j].doc # request[c].doc
                                           \/ job[j].profile # request[c].profile
                                           \/ job[j].scenario # request[c].scenario
<1>0. answer \in [Calls -> Replies \cup {None}] /\ OneJob
  BY DEF Inv, Types
<1>1. ASSUME NEW d \in Calls, NEW code, NEW row, Answer(d, code, row)
      PROVE  d = c /\ code = "conflict"
  BY <1>0, <1>1 DEF Answer
<1>2. ASSUME NEW d \in Calls, AnswerExisting(d) PROVE Differs
  <2>1. PICK j \in Keyed(d) :
           IF SameRequest(job[j], request[d]) THEN Answer(d, "ok", job[j])
                                              ELSE Answer(d, "conflict", None)
    BY <1>2 DEF AnswerExisting
  <2>2. d = c /\ ~SameRequest(job[j], request[c])
    BY <1>1, <2>1
  <2>3. \A i \in Keyed(c) : i = j
    BY <1>0, <2>1, <2>2 DEF OneJob, Keyed
  <2> QED
    BY <2>2, <2>3 DEF SameRequest
<1>3. CASE \E d \in Calls : LookUp(d) \/ LookAgain(d)
  <2>1. PICK d \in Calls : \/ Keyed(d) # {} /\ AnswerExisting(d)
                           \/ answer' = answer
                           \/ Keyed(d) = {} /\ Answer(d, "conflict", None)
    BY <1>3 DEF LookUp, LookAgain, Go
  <2> QED
    BY <1>1, <1>2, <2>1
<1>4. CASE \E d \in Calls : Resend(d)
  BY <1>0, <1>4 DEF Resend
<1>5. CASE answer' = answer
  BY <1>5
<1>6. CASE \E d \in Calls : CheckProfile(d) \/ TakeSnapshot(d) \/ LockDocument(d) \/ Commit(d)
  BY <1>1, <1>6 DEF CheckProfile, TakeSnapshot, LockDocument, Commit, Go
<1>7. CASE \E d \in Calls : Send(d) \/ Begin(d) \/ CheckJobs(d) \/ Insert(d) \/ LoseCall(d)
  BY <1>5, <1>7 DEF Send, Begin, CheckJobs, Insert, LoseCall, Go
<1>8. CASE \/ \E p \in Profiles : EditProfile(p) \/ SetEnabled(p)
           \/ \E d \in Docs : ExpireInput(d)
           \/ \E j \in JobIds : EndJob(j) \/ FailJob(j) \/ RequeueJob(j) \/ Retry(j) \/ DeleteJob(j)
  BY <1>5, <1>8 DEF EditProfile, SetEnabled, ExpireInput, EndJob, FailJob, RequeueJob, Retry,
                    DeleteJob, calls
<1>9. CASE \E w \in Workers : \/ \E j \in JobIds : Claim(w, j)
                              \/ LoadProfile(w) \/ FreezeGuidance(w) \/ SetConfiguration(w)
                              \/ Work(w) \/ LeaveJob(w)
  BY <1>5, <1>9 DEF Claim, LoadProfile, FreezeGuidance, SetConfiguration, Work, LeaveJob, calls
<1>10. CASE UNCHANGED vars
  BY <1>5, <1>10 DEF vars, calls
<1> QED
  BY <1>3, <1>4, <1>5, <1>6, <1>7, <1>8, <1>9, <1>10 DEF Next, CreateStep

(* A client that repeats a request, or sends it twice at once, is not told *)
(* of a conflict while the job that its request created exists.            *)
THEOREM RacesAreNoConflict == Spec => RaceIsNoConflict
<1>1. Inv /\ [Next]_vars =>
        \A c \in Calls : answer'[c] # answer[c] /\ answer'[c] # None /\ answer'[c].code = "conflict" =>
          \A j \in Keyed(c) : \/ job[j].doc # request[c].doc
                               \/ job[j].profile # request[c].profile
                               \/ job[j].scenario # request[c].scenario
  BY ConflictsDiffer
<1> QED
  BY <1>1, RequestsInvariant, PTL DEF Spec, RaceIsNoConflict
=============================================================================

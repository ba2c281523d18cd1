------------------------------ MODULE Sessions ------------------------------
(***************************************************************************)
(* Accounts, logins and sessions: textcomb-core::auth, the extraction of   *)
(* the user by session.rs, and the account operations of api/admin.rs and  *)
(* the command line.                                                       *)
(*                                                                         *)
(* A login is several statements, with other operations in between.  A     *)
(* password is the number of the reset that set it.  login_attempts keeps  *)
(* the failures of the last 15 minutes; all logins of an instance come     *)
(* from one address.  A session row is named by the login that inserts it. *)
(* A reset or a disabling writes the account, deletes the sessions it sees *)
(* and commits: readers see the account as it was until the commit.        *)
(***************************************************************************)
EXTENDS Integers, FiniteSets

CONSTANTS
  Names,          \* usernames, up to case
  Bootstraps,     \* runs of bootstrap-admin, by the name they create
  Logins,         \* login calls; a failed one may be repeated
  Operations,     \* account operations of administrators
  MaxFailures,    \* failures in 15 minutes that stop further attempts
  MaxResets       \* bound

ASSUME BootstrapsAssumption == Bootstraps \subseteq Names
ASSUME LoginsAssumption == IsFiniteSet(Logins)
ASSUME BoundsAssumption == MaxFailures \in Nat \ {0} /\ MaxResets \in Nat

VARIABLES
  user,           \* the users rows as committed
  change,         \* the open transaction on each row: what it writes, the
                  \* sessions it deletes, and (history) those inserted after
  boot,           \* the bootstrap commands
  raced,          \* whether two of them were past their check together
  login,          \* the login calls: place, name, and what they read
  session,        \* the sessions rows
  failures,       \* failed attempts of the last 15 minutes
  operation       \* the administrators' requests; an answered one has its event

vars == <<user, change, boot, raced, login, session, failures, operation>>

Absent    == [absent |-> TRUE]
Idle      == [at |-> "idle"]
Exists(n) == user[n] # Absent
Of(n)     == {l \in Logins : session[l] # Absent /\ session[l].user = n}
Admins    == {n \in Names : Exists(n) /\ user[n].role = "super_admin"}

(* The types.  However the logins overlap, the failures of 15 minutes      *)
(* exceed the limit by no more than the logins that were counted together. *)
SessionsTypeOK ==
  /\ user \in [Names -> [role : {"super_admin", "user"}, active : BOOLEAN,
                         password : 0 .. MaxResets] \cup {Absent}]
  /\ change \in [Names -> [kind : {"reset", "disable"}, doomed : SUBSET Logins,
                           late : SUBSET Logins] \cup {Absent}]
  /\ boot \in [Bootstraps -> {"idle", "insert", "created", "refused"}]
  /\ raced \in BOOLEAN
  /\ \A l \in Logins : login[l].at \in {"idle", "read", "record", "insert"}
  /\ session \in [Logins -> [user : Names, password : 0 .. MaxResets,
                             expired : BOOLEAN, overtaken : BOOLEAN] \cup {Absent}]
  /\ failures \in 0 .. MaxFailures - 1 + Cardinality(Logins)
  /\ \A o \in Operations : operation[o].at \in {"idle", "apply", "commit", "audit",
                                                "answered", "refused", "lost"}

Init ==
  /\ user = [n \in Names |-> Absent] /\ change = [n \in Names |-> Absent]
  /\ boot = [n \in Bootstraps |-> "idle"] /\ raced = FALSE
  /\ login = [l \in Logins |-> Idle] /\ session = [l \in Logins |-> Absent]
  /\ failures = 0
  /\ operation = [o \in Operations |-> Idle]

accounts == <<user, change, boot, raced>>
logins   == <<login, session, failures>>
-----------------------------------------------------------------------------
(* create_user: users_username_lower_uq refuses a name that exists.        *)
Row(role) == [role |-> role, active |-> TRUE, password |-> 0]

Insert(n, role) == ~Exists(n) /\ user' = [user EXCEPT ![n] = Row(role)]

(* Variant for OneFirstAdmin: the count is of the accounts of this name.   *)
EmptyForName(n) == ~Exists(n)

(* bootstrap_admin refuses when the count of all users is not zero.        *)
Empty(n) == \A m \in Names : ~Exists(m)

BootstrapCheck(n) ==
  /\ boot[n] = "idle"
  /\ boot' = [boot EXCEPT ![n] = IF Empty(n) THEN "insert" ELSE "refused"]
  /\ raced' = (raced \/ (Empty(n) /\ \E m \in Bootstraps : boot[m] = "insert"))
  /\ UNCHANGED <<user, change, logins, operation>>

BootstrapInsert(n) ==
  /\ boot[n] = "insert"
  /\ \/ Insert(n, "super_admin") /\ boot' = [boot EXCEPT ![n] = "created"]
     \/ Exists(n) /\ user' = user /\ boot' = [boot EXCEPT ![n] = "refused"]
  /\ UNCHANGED <<change, raced, logins, operation>>

(* create-user of the command line.                                        *)
CliCreateUser(n) ==
  /\ Insert(n, "user")
  /\ UNCHANGED <<change, boot, raced, logins, operation>>
-----------------------------------------------------------------------------
(* Logging in                                                              *)

(* Variant for SessionsTypeOK: one failure more is let through.            *)
LimitedLate == failures > MaxFailures

(* recent_failures >= 5                                                    *)
Limited == failures >= MaxFailures

(* The limit, and a password that is too long to be any.                   *)
BeginLogin(l) ==
  /\ login[l] = Idle /\ session[l] = Absent /\ ~Limited
  /\ \/ \E n \in Names, p \in 0 .. MaxResets :
          login' = [login EXCEPT ![l] = [at |-> "read", user |-> n, password |-> p]]
     \/ login' = [login EXCEPT ![l] = [at |-> "record", valid |-> FALSE]]
  /\ UNCHANGED <<accounts, session, failures, operation>>

(* The row is read once: active, and its hash is of this password.         *)
ReadUser(l) ==
  /\ login[l].at = "read"
  /\ LET n     == login[l].user
         valid == Exists(n) /\ user[n].active /\ user[n].password = login[l].password
     IN login' = [login EXCEPT ![l] =
          IF valid THEN [at |-> "record", valid |-> TRUE, user |-> n,
                         password |-> login[l].password, overtaken |-> FALSE]
                   ELSE [at |-> "record", valid |-> FALSE]]
  /\ UNCHANGED <<accounts, session, failures, operation>>

RecordAttempt(l) ==
  /\ login[l].at = "record"
  /\ IF login[l].valid
       THEN login' = [login EXCEPT ![l].at = "insert"] /\ failures' = failures
       ELSE login' = [login EXCEPT ![l] = Idle] /\ failures' = failures + 1
  /\ UNCHANGED <<accounts, session, operation>>

InsertSession(l) ==
  /\ login[l].at = "insert"
  /\ session' = [session EXCEPT ![l] =
       [user |-> login[l].user, password |-> login[l].password,
        expired |-> FALSE, overtaken |-> login[l].overtaken]]
  /\ login' = [login EXCEPT ![l] = Idle]
  /\ LET n == login[l].user
     IN change' = IF change[n] = Absent THEN change
                  ELSE [change EXCEPT ![n].late = @ \cup {l}]
  /\ UNCHANGED <<user, boot, raced, failures, operation>>

(* The API process or its connection dies.                                 *)
LoseLogin(l) ==
  /\ login[l] # Idle
  /\ login' = [login EXCEPT ![l] = Idle]
  /\ UNCHANGED <<accounts, session, failures, operation>>

(* A failure is older than 15 minutes; a session reaches expires_at.       *)
ForgetFailure ==
  /\ failures > 0 /\ failures' = failures - 1
  /\ UNCHANGED <<accounts, login, session, operation>>

Expire(l) ==
  /\ session[l] # Absent /\ ~session[l].expired
  /\ session' = [session EXCEPT ![l].expired = TRUE]
  /\ UNCHANGED <<accounts, login, failures, operation>>

(* Another statement that deletes this row waits for the transaction.      *)
Locked(l) == \E n \in Names : change[n] # Absent /\ l \in change[n].doomed

(* cleanup_sessions; the attempts it deletes are a day old.                *)
CleanupSessions ==
  /\ \A l \in Logins : session[l] # Absent /\ session[l].expired => ~Locked(l)
  /\ session' = [l \in Logins |-> IF session[l] # Absent /\ session[l].expired
                                  THEN Absent ELSE session[l]]
  /\ session' # session
  /\ UNCHANGED <<accounts, login, failures, operation>>
-----------------------------------------------------------------------------
(* Requests of a session                                                   *)

(* authenticate                                                            *)
Authenticated(l) ==
  session[l] # Absent /\ ~session[l].expired /\ user[session[l].user].active

Logout(l) ==
  /\ Authenticated(l) /\ ~Locked(l)
  /\ session' = [session EXCEPT ![l] = Absent]
  /\ UNCHANGED <<accounts, login, failures, operation>>

(* AdminUser: the role is read with the session, before the operation.     *)
BeginOperation(o, l) ==
  /\ operation[o] = Idle
  /\ Authenticated(l) /\ session[l].user \in Admins
  /\ \E kind \in {"create", "enable", "disable", "reset"}, n \in Names :
       operation' = [operation EXCEPT ![o] =
         [at |-> "apply", kind |-> kind, target |-> n, actor |-> session[l].user]]
  /\ UNCHANGED <<accounts, logins>>

Step(o, place) == operation' = [operation EXCEPT ![o].at = place]

(* Variant for OldSessionsEnd: only sessions that have expired go.         *)
DroppedExpired(n) == {l \in Of(n) : session[l].expired}

(* DELETE FROM sessions WHERE user_id = $1: the rows the statement sees.   *)
Dropped(n) == Of(n)

(* UPDATE, which waits for another transaction on the row, and DELETE.     *)
Revoke(n, kind) ==
  /\ Exists(n) /\ change[n] = Absent
  /\ change' = [change EXCEPT ![n] = [kind |-> kind, doomed |-> Dropped(n), late |-> {}]]

ResetPassword(n) == Exists(n) /\ user[n].password < MaxResets /\ Revoke(n, "reset")

(* set_user_enabled.  Enabling deletes no sessions, and its UPDATE is seen *)
(* with its commit.                                                        *)
Disable(n) == Revoke(n, "disable")

Enable(n) ==
  /\ Exists(n) /\ change[n] = Absent
  /\ user' = [user EXCEPT ![n].active = TRUE]

(* A login of n that has read the row and not inserted its session yet.    *)
Overtake(n) ==
  login' = [l \in Logins |->
    IF login[l].at \in {"record", "insert"} /\ login[l].valid /\ login[l].user = n
    THEN [login[l] EXCEPT !.overtaken = TRUE] ELSE login[l]]

(* The account changes and the deleted sessions go.  A session the DELETE  *)
(* did not see was overtaken, as the logins in flight are.                 *)
Commit(n) ==
  /\ change[n] # Absent
  /\ user' = [user EXCEPT ![n] =
       IF change[n].kind = "reset" THEN [user[n] EXCEPT !.password = @ + 1]
                                   ELSE [user[n] EXCEPT !.active = FALSE]]
  /\ session' = [l \in Logins |->
       IF l \in change[n].doomed THEN Absent
       ELSE IF l \in Of(n) \cap change[n].late THEN [session[l] EXCEPT !.overtaken = TRUE]
       ELSE session[l]]
  /\ Overtake(n)
  /\ change' = [change EXCEPT ![n] = Absent]

(* The transaction ends without a commit.                                  *)
Rollback(n) == change[n] # Absent /\ change' = [change EXCEPT ![n] = Absent]

(* set_status refuses to disable the account that asks.                    *)
Refused(op) == op.kind = "disable" /\ op.target = op.actor

(* The statements of the operation, up to the commit of a transaction.     *)
Apply(o) ==
  /\ operation[o].at = "apply"
  /\ LET op == operation[o]
         n  == op.target
     IN \/ /\ \/ op.kind = "create" /\ Insert(n, "user")
              \/ op.kind = "enable" /\ Enable(n)
           /\ Step(o, "audit") /\ UNCHANGED change
        \/ /\ \/ op.kind = "reset" /\ ResetPassword(n)
              \/ op.kind = "disable" /\ ~Refused(op) /\ Disable(n)
           /\ Step(o, "commit") /\ UNCHANGED user
        \/ /\ \/ op.kind = "create" /\ Exists(n)
              \/ op.kind # "create" /\ ~Exists(n)
              \/ Refused(op)
           /\ Step(o, "refused") /\ UNCHANGED <<user, change>>
  /\ UNCHANGED <<boot, raced, logins>>

CommitOperation(o) ==
  /\ operation[o].at = "commit"
  /\ Commit(operation[o].target)
  /\ Step(o, "audit")
  /\ UNCHANGED <<boot, raced, failures>>

(* A statement of its own, after the commit; its failure is an error.      *)
WriteAudit(o) ==
  /\ operation[o].at = "audit"
  /\ Step(o, "answered")
  /\ UNCHANGED <<accounts, logins>>

(* The process or its connection dies, before or after a commit.           *)
LoseOperation(o) ==
  /\ operation[o].at \in {"apply", "commit", "audit"}
  /\ IF operation[o].at = "commit" THEN Rollback(operation[o].target) ELSE change' = change
  /\ Step(o, "lost")
  /\ UNCHANGED <<user, boot, raced, logins>>

(* reset-password of the command line.                                     *)
CliResetPassword(n) ==
  /\ ResetPassword(n)
  /\ UNCHANGED <<user, boot, raced, logins, operation>>

OfCli(n) == ~\E o \in Operations : operation[o].at = "commit" /\ operation[o].target = n

CliCommit(n) ==
  /\ OfCli(n) /\ Commit(n)
  /\ UNCHANGED <<boot, raced, failures, operation>>

CliRollback(n) ==
  /\ OfCli(n) /\ Rollback(n)
  /\ UNCHANGED <<user, boot, raced, logins, operation>>
-----------------------------------------------------------------------------
LoginStep(l) == BeginLogin(l) \/ ReadUser(l) \/ RecordAttempt(l) \/ InsertSession(l) \/ LoseLogin(l)

Next ==
  \/ \E n \in Bootstraps : BootstrapCheck(n) \/ BootstrapInsert(n)
  \/ \E n \in Names : CliCreateUser(n) \/ CliResetPassword(n) \/ CliCommit(n) \/ CliRollback(n)
  \/ \E l \in Logins : LoginStep(l) \/ Expire(l) \/ Logout(l)
  \/ ForgetFailure \/ CleanupSessions
  \/ \E o \in Operations : Apply(o) \/ CommitOperation(o) \/ WriteAudit(o)
                             \/ LoseOperation(o) \/ \E l \in Logins : BeginOperation(o, l)

Spec == Init /\ [][Next]_vars
-----------------------------------------------------------------------------
(* A session of an old password, or of a disabled account, exists only if  *)
(* its login read the account before the reset or the disabling committed  *)
(* and inserted the session after the DELETE of that transaction.          *)
OldSessionsEnd ==
  \A l \in Logins : session[l] # Absent /\ ~session[l].overtaken =>
    /\ session[l].password = user[session[l].user].password
    /\ user[session[l].user].active

(* There is one super administrator, unless two commands raced on an empty *)
(* table.                                                                  *)
OneFirstAdmin == Cardinality(Admins) <= 1 \/ raced
=============================================================================

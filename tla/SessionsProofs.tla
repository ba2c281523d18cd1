--------------------------- MODULE SessionsProofs ---------------------------
(***************************************************************************)
(* Proofs about Sessions, for any number of accounts, logins, operations   *)
(* and bootstrap commands.  The inductive invariant has five parts: the    *)
(* precise types, the count of failures and of logins that may still add   *)
(* one, what a login that has read an account knows of it, where the       *)
(* administrators come from, and that an open transaction knows every      *)
(* session of its account.                                                 *)
(***************************************************************************)
EXTENDS Sessions, FiniteSetTheorems, TLAPS

Users == [role : {"super_admin", "user"}, active : BOOLEAN, password : 0 .. MaxResets]

SessionRows == [user : Names, password : 0 .. MaxResets, expired : BOOLEAN,
                overtaken : BOOLEAN]

Reading == [at : {"read"}, user : Names, password : 0 .. MaxResets]
Failing == [at : {"record"}, valid : {FALSE}]
Passed  == [at : {"record", "insert"}, valid : {TRUE}, user : Names,
            password : 0 .. MaxResets, overtaken : BOOLEAN]

Changing == [kind : {"reset", "disable"}, doomed : SUBSET Logins, late : SUBSET Logins]

Begun == [at : {"apply", "commit", "audit", "answered", "refused", "lost"},
          kind : {"create", "enable", "disable", "reset"}, target : Names, actor : Names]

Types ==
  /\ user \in [Names -> Users \cup {Absent}]
  /\ boot \in [Bootstraps -> {"idle", "insert", "created", "refused"}]
  /\ raced \in BOOLEAN
  /\ login \in [Logins -> {Idle} \cup Reading \cup Failing \cup Passed]
  /\ session \in [Logins -> SessionRows \cup {Absent}]
  /\ failures \in Nat
  /\ operation \in [Operations -> {Idle} \cup Begun]

(* A login in flight may add a failure.                                    *)
InFlight == {l \in Logins : login[l] # Idle}

FailuresCounted ==
  failures + Cardinality(InFlight) <= MaxFailures - 1 + Cardinality(Logins)

(* What a login has read of its account still holds unless it was          *)
(* overtaken.                                                              *)
Current(row) ==
  /\ row.user \in Names /\ Exists(row.user)
  /\ ~row.overtaken => /\ user[row.user].password = row.password
                       /\ user[row.user].active

RowsCurrent ==
  /\ \A l \in Logins : login[l] \in Passed => Current(login[l])
  /\ \A l \in Logins : session[l] # Absent => Current(session[l])

(* Only bootstrap commands create administrators, and one that was not     *)
(* alone with the empty table has raced.                                   *)
Bootstrapped ==
  /\ \A n \in Bootstraps : boot[n] = "created" => Exists(n)
  /\ \A n \in Admins : n \in Bootstraps /\ boot[n] = "created"
  /\ raced \/ \A m, n \in Bootstraps :
       boot[m] \in {"insert", "created"} /\ boot[n] \in {"insert", "created"} => m = n

(* A session of an account that is being changed is one that the DELETE    *)
(* saw, or one inserted since.                                             *)
Accounted ==
  /\ change \in [Names -> Changing \cup {Absent}]
  /\ \A n \in Names : change[n] # Absent =>
       /\ Exists(n)
       /\ change[n].kind = "reset" => user[n].password < MaxResets
       /\ \A l \in Logins : session[l] # Absent /\ session[l].user = n =>
            l \in change[n].doomed \/ l \in change[n].late

Inv == Types /\ FailuresCounted /\ RowsCurrent /\ Bootstrapped /\ Accounted
-----------------------------------------------------------------------------
(* A row is not the absence of one.                                        *)
LEMMA UsersExist == \A u \in Users : u # Absent
<1> SUFFICES ASSUME NEW u \in Users PROVE u # Absent
  OBVIOUS
<1>1. "role" \in DOMAIN u
  BY DEF Users
<1>2. "role" \notin DOMAIN Absent
  BY DEF Absent
<1> QED
  BY <1>1, <1>2

LEMMA SessionsExist == \A r \in SessionRows : r # Absent
<1> SUFFICES ASSUME NEW r \in SessionRows PROVE r # Absent
  OBVIOUS
<1>1. "user" \in DOMAIN r
  BY DEF SessionRows
<1>2. "user" \notin DOMAIN Absent
  BY DEF Absent
<1> QED
  BY <1>1, <1>2

LEMMA ChangesExist == \A c \in Changing : c # Absent
<1> SUFFICES ASSUME NEW c \in Changing PROVE c # Absent
  OBVIOUS
<1>1. "kind" \in DOMAIN c
  BY DEF Changing
<1>2. "kind" \notin DOMAIN Absent
  BY DEF Absent
<1> QED
  BY <1>1, <1>2

(* The states of a login are told apart by where it is and whether it has  *)
(* passed.                                                                 *)
LEMMA IdleState == Idle.at = "idle" /\ Idle \notin Passed
<1>1. Idle.at = "idle"
  BY DEF Idle
<1>2. \A r \in Passed : r.at # "idle"
  BY DEF Passed
<1> QED
  BY <1>1, <1>2

LEMMA ReadingState ==
  ASSUME NEW r \in Reading
  PROVE  r.at = "read" /\ r # Idle /\ r \notin Passed
<1>1. r.at = "read"
  BY DEF Reading
<1>2. \A s \in Passed : s.at # "read"
  BY DEF Passed
<1> QED
  BY <1>1, <1>2, IdleState

LEMMA FailingState ==
  ASSUME NEW r \in Failing
  PROVE  r.at = "record" /\ ~r.valid /\ r # Idle /\ r \notin Passed
<1>1. r.at = "record" /\ r.valid = FALSE
  BY DEF Failing
<1>2. \A s \in Passed : s.valid = TRUE
  BY DEF Passed
<1> QED
  BY <1>1, <1>2, IdleState

LEMMA PassedState ==
  ASSUME NEW r \in Passed
  PROVE  /\ r.at \in {"record", "insert"} /\ r.valid /\ r # Idle
         /\ r.user \in Names /\ r.password \in 0 .. MaxResets /\ r.overtaken \in BOOLEAN
<1>1. r.at \in {"record", "insert"} /\ r.valid = TRUE
  BY DEF Passed
<1>2. r.user \in Names /\ r.password \in 0 .. MaxResets /\ r.overtaken \in BOOLEAN
  BY DEF Passed
<1> QED
  BY <1>1, <1>2, IdleState

LEMMA LoginStates ==
  ASSUME NEW r \in {Idle} \cup Reading \cup Failing \cup Passed
  PROVE  /\ r \in Passed <=> r.at \in {"record", "insert"} /\ r.valid
         /\ r # Idle <=> r.at # "idle"
         /\ r \in Reading <=> r.at = "read"
         /\ r.at = "insert" => r \in Passed
         /\ r.at \in {"idle", "read", "record", "insert"}
<1>1. CASE r = Idle
  <2>1. \A s \in Reading : s.at # "idle"
    BY DEF Reading
  <2> QED
    BY <1>1, <2>1, IdleState
<1>2. CASE r \in Reading
  BY <1>2, ReadingState
<1>3. CASE r \in Failing
  <2>1. \A s \in Reading : s.at # "record"
    BY DEF Reading
  <2> QED
    BY <1>3, <2>1, FailingState
<1>4. CASE r \in Passed
  <2>1. \A s \in Reading : s.at # "record" /\ s.at # "insert"
    BY DEF Reading
  <2> QED
    BY <1>4, <2>1, PassedState
<1> QED
  BY <1>1, <1>2, <1>3, <1>4
-----------------------------------------------------------------------------
THEOREM SessionsInit == Init => Inv
<1> SUFFICES ASSUME Init PROVE Inv
  OBVIOUS
<1>1. Types
  BY DEF Init, Types
<1>2. InFlight = {} /\ failures = 0
  BY DEF Init, InFlight
<1>3. FailuresCounted
  <2>1. Cardinality(Logins) \in Nat
    BY LoginsAssumption, FS_CardinalityType
  <2> QED
    BY <1>2, <2>1, FS_EmptySet, BoundsAssumption DEF FailuresCounted
<1>4. RowsCurrent
  BY IdleState DEF Init, RowsCurrent
<1>5. Bootstrapped
  BY DEF Init, Bootstrapped, Admins, Exists
<1>6. Accounted
  BY DEF Init, Accounted
<1> QED
  BY <1>1, <1>3, <1>4, <1>5, <1>6 DEF Inv

(* A step after which no more logins are in flight and no more failures    *)
(* are counted keeps the count.                                            *)
LEMMA CountKept ==
  ASSUME FailuresCounted, Types, InFlight' \subseteq InFlight,
         failures' \in Nat, failures' <= failures
  PROVE  FailuresCounted'
<1>1. IsFiniteSet(InFlight) /\ Cardinality(InFlight) \in Nat
  <2>1. InFlight \in SUBSET Logins
    BY DEF InFlight
  <2> QED
    BY <2>1, LoginsAssumption, FS_Subset, FS_CardinalityType
<1>2. Cardinality(InFlight') \in Nat /\ Cardinality(InFlight') <= Cardinality(InFlight)
  BY <1>1, FS_Subset, FS_CardinalityType
<1>3. Cardinality(Logins) \in Nat
  BY LoginsAssumption, FS_CardinalityType
<1> QED
  BY <1>1, <1>2, <1>3, BoundsAssumption DEF FailuresCounted, Types

(* A step that adds no session and leaves the accounts under change alone. *)
LEMMA AccountedKept ==
  ASSUME Inv, change' = change,
         \A n \in Names : change[n] # Absent => user'[n] = user[n],
         \A l \in Logins : session'[l] # Absent =>
           session[l] # Absent /\ session'[l].user = session[l].user
  PROVE  Accounted'
<1> QED
  BY DEF Inv, Accounted, Exists

(* A new account is nobody's that has logged in.                           *)
LEMMA InsertKeeps ==
  ASSUME Inv, NEW n \in Names, NEW role \in {"super_admin", "user"},
         Insert(n, role), UNCHANGED <<change, logins>>
  PROVE  /\ user' \in [Names -> Users \cup {Absent}]
         /\ user'[n] = Row(role) /\ ~Exists(n) /\ Exists(n)'
         /\ \A m \in Names : m # n => user'[m] = user[m]
         /\ RowsCurrent' /\ FailuresCounted' /\ Accounted'
<1>1. Row(role) \in Users
  BY BoundsAssumption DEF Row, Users
<1>2. user \in [Names -> Users \cup {Absent}] /\ ~Exists(n)
      /\ user' = [user EXCEPT ![n] = Row(role)]
  BY DEF Inv, Types, Insert
<1>3. user' \in [Names -> Users \cup {Absent}] /\ user'[n] = Row(role)
      /\ \A m \in Names : m # n => user'[m] = user[m]
  BY <1>1, <1>2
<1>4. Exists(n)'
  BY <1>1, <1>3, UsersExist DEF Exists
<1>5. ASSUME NEW row, Current(row) PROVE row.user \in Names /\ user'[row.user] = user[row.user]
  BY <1>2, <1>3, <1>5 DEF Current
<1>6. RowsCurrent'
  <2>1. login' = login /\ session' = session
    BY DEF logins
  <2> QED
    BY <1>5, <2>1 DEF Inv, RowsCurrent, Current, Exists
<1>7. FailuresCounted'
  BY DEF Inv, FailuresCounted, InFlight, logins
<1>8. Accounted'
  <2>1. \A m \in Names : change[m] # Absent => user'[m] = user[m]
    BY <1>2, <1>3 DEF Inv, Accounted
  <2>2. session' = session
    BY DEF logins
  <2> QED
    BY <2>1, <2>2, AccountedKept
<1> QED
  BY <1>2, <1>3, <1>4, <1>6, <1>7, <1>8
-----------------------------------------------------------------------------
(* Statements that leave the rows of logins and accounts alone.            *)
LEMMA RowsUntouched ==
  ASSUME Inv, user' = user, UNCHANGED <<change, logins>>
  PROVE  RowsCurrent' /\ FailuresCounted' /\ Accounted'
<1>1. login' = login /\ session' = session /\ failures' = failures
  BY DEF logins
<1>2. RowsCurrent' /\ FailuresCounted'
  BY <1>1 DEF Inv, RowsCurrent, Current, Exists, FailuresCounted, InFlight
<1>3. Accounted'
  BY <1>1, AccountedKept
<1> QED
  BY <1>2, <1>3

LEMMA BootstrapCheckKeeps ==
  ASSUME Inv, NEW n \in Bootstraps, BootstrapCheck(n)
  PROVE  Inv'
<1>1. user' = user /\ UNCHANGED <<change, logins>> /\ operation' = operation
  BY DEF BootstrapCheck
<1>2. /\ boot \in [Bootstraps -> {"idle", "insert", "created", "refused"}]
      /\ boot[n] = "idle" /\ raced \in BOOLEAN
      /\ boot' = [boot EXCEPT ![n] = IF Empty(n) THEN "insert" ELSE "refused"]
      /\ raced' = (raced \/ (Empty(n) /\ \E m \in Bootstraps : boot[m] = "insert"))
  BY DEF BootstrapCheck, Inv, Types
<1>3. Types'
  <2>1. boot' \in [Bootstraps -> {"idle", "insert", "created", "refused"}]
    BY <1>2
  <2>2. raced' \in BOOLEAN
    BY <1>2
  <2> QED
    BY <1>1, <2>1, <2>2 DEF Inv, Types, logins
<1>4. Bootstrapped'
  <2>1. \A m \in Bootstraps : boot'[m] = "created" <=> boot[m] = "created"
    BY <1>2
  <2>2. Admins' = Admins /\ \A m : Exists(m)' <=> Exists(m)
    BY <1>1 DEF Admins, Exists
  <2>3. raced' \/ \A l, m \in Bootstraps :
          boot'[l] \in {"insert", "created"} /\ boot'[m] \in {"insert", "created"} => l = m
    <3>1. CASE Empty(n)
      <4>1. \A m \in Bootstraps : boot[m] # "created"
        BY <3>1, BootstrapsAssumption DEF Empty, Inv, Bootstrapped
      <4>2. CASE \E m \in Bootstraps : boot[m] = "insert"
        BY <1>2, <3>1, <4>2
      <4>3. CASE \A m \in Bootstraps : boot[m] # "insert"
        BY <1>2, <4>1, <4>3
      <4> QED
        BY <4>2, <4>3
    <3>2. CASE ~Empty(n)
      <4>1. boot'[n] = "refused" /\ \A m \in Bootstraps : m # n => boot'[m] = boot[m]
        BY <1>2, <3>2
      <4>2. raced => raced'
        BY <1>2
      <4> QED
        BY <4>1, <4>2 DEF Inv, Bootstrapped
    <3> QED
      BY <3>1, <3>2
  <2> QED
    BY <2>1, <2>2, <2>3 DEF Inv, Bootstrapped
<1> QED
  BY <1>1, <1>3, <1>4, RowsUntouched DEF Inv

LEMMA BootstrapInsertKeeps ==
  ASSUME Inv, NEW n \in Bootstraps, BootstrapInsert(n)
  PROVE  Inv'
<1>1. /\ n \in Names /\ boot[n] = "insert" /\ raced' = raced
      /\ UNCHANGED <<change, logins>> /\ operation' = operation
      /\ boot \in [Bootstraps -> {"idle", "insert", "created", "refused"}]
  BY BootstrapsAssumption DEF BootstrapInsert, Inv, Types
<1>2. CASE Insert(n, "super_admin") /\ boot' = [boot EXCEPT ![n] = "created"]
  <2>1. /\ user' \in [Names -> Users \cup {Absent}]
        /\ user'[n] = Row("super_admin") /\ Exists(n)'
        /\ \A m \in Names : m # n => user'[m] = user[m]
        /\ RowsCurrent' /\ FailuresCounted' /\ Accounted'
    BY <1>1, <1>2, InsertKeeps
  <2>2. Types'
    BY <1>1, <1>2, <2>1 DEF Inv, Types, logins
  <2>3. /\ \A m \in Names : Exists(m) => Exists(m)'
        /\ Admins' \subseteq Admins \cup {n}
    BY <2>1 DEF Admins, Exists
  <2>4. /\ boot'[n] = "created"
        /\ \A m \in Bootstraps : m # n => boot'[m] = boot[m]
    BY <1>1, <1>2
  <2>5. \A m \in Bootstraps : boot'[m] = "created" => Exists(m)'
    BY <2>1, <2>3, <2>4, BootstrapsAssumption DEF Inv, Bootstrapped
  <2>6. \A m \in Admins' : m \in Bootstraps /\ boot'[m] = "created"
    BY <2>3, <2>4 DEF Inv, Bootstrapped
  <2>7. raced' \/ \A l, m \in Bootstraps :
          boot'[l] \in {"insert", "created"} /\ boot'[m] \in {"insert", "created"} => l = m
    BY <1>1, <2>4 DEF Inv, Bootstrapped
  <2> QED
    BY <2>1, <2>2, <2>5, <2>6, <2>7 DEF Inv, Bootstrapped
<1>3. CASE Exists(n) /\ user' = user /\ boot' = [boot EXCEPT ![n] = "refused"]
  <2>1. Types'
    BY <1>1, <1>3 DEF Inv, Types, logins
  <2>2. /\ boot'[n] = "refused"
        /\ \A m \in Bootstraps : m # n => boot'[m] = boot[m]
    BY <1>1, <1>3
  <2>3. Admins' = Admins /\ \A m : Exists(m)' <=> Exists(m)
    BY <1>3 DEF Admins, Exists
  <2>4. \A m \in Admins' : m \in Bootstraps /\ boot'[m] = "created"
    BY <1>1, <2>2, <2>3 DEF Inv, Bootstrapped
  <2>5. raced' \/ \A l, m \in Bootstraps :
          boot'[l] \in {"insert", "created"} /\ boot'[m] \in {"insert", "created"} => l = m
    BY <1>1, <2>2 DEF Inv, Bootstrapped
  <2>6. \A m \in Bootstraps : boot'[m] = "created" => Exists(m)'
    BY <2>2, <2>3 DEF Inv, Bootstrapped
  <2>7. RowsCurrent' /\ FailuresCounted' /\ Accounted'
    BY <1>1, <1>3, RowsUntouched
  <2> QED
    BY <2>1, <2>4, <2>5, <2>6, <2>7 DEF Inv, Bootstrapped
<1> QED
  BY <1>2, <1>3 DEF BootstrapInsert

(* An account that is no administrator's changes nothing for them.         *)
LEMMA OrdinaryInsertKeeps ==
  ASSUME Inv, NEW n \in Names, Insert(n, "user"),
         UNCHANGED <<change, boot, raced, logins>>
  PROVE  /\ user' \in [Names -> Users \cup {Absent}]
         /\ RowsCurrent' /\ FailuresCounted' /\ Accounted' /\ Bootstrapped'
<1>1. /\ user' \in [Names -> Users \cup {Absent}]
      /\ user'[n] = Row("user") /\ Exists(n)'
      /\ \A m \in Names : m # n => user'[m] = user[m]
      /\ RowsCurrent' /\ FailuresCounted' /\ Accounted'
  BY InsertKeeps
<1>2. /\ \A m \in Names : Exists(m) => Exists(m)'
      /\ Admins' \subseteq Admins
  <2>1. Row("user").role # "super_admin"
    BY DEF Row
  <2> QED
    BY <1>1, <2>1 DEF Admins, Exists
<1>3. Bootstrapped'
  BY <1>2, BootstrapsAssumption DEF Inv, Bootstrapped
<1> QED
  BY <1>1, <1>3
-----------------------------------------------------------------------------
(* A step of one login that ends neither with a session nor with a row     *)
(* read keeps what the others know.                                        *)
LEMMA BeginLoginKeeps ==
  ASSUME Inv, NEW l \in Logins, BeginLogin(l)
  PROVE  Inv'
<1>1. PICK r \in Reading \cup Failing : login' = [login EXCEPT ![l] = r]
  <2>1. [at |-> "record", valid |-> FALSE] \in Failing
    BY DEF Failing
  <2>2. \A n \in Names, p \in 0 .. MaxResets :
          [at |-> "read", user |-> n, password |-> p] \in Reading
    BY DEF Reading
  <2> QED
    BY <2>1, <2>2 DEF BeginLogin
<1>2. /\ user' = user /\ boot' = boot /\ raced' = raced /\ session' = session
      /\ failures' = failures /\ operation' = operation /\ failures < MaxFailures
      /\ failures \in Nat
  <2>1. failures \in Nat /\ MaxFailures \in Nat
    BY BoundsAssumption DEF Inv, Types
  <2> QED
    BY <2>1 DEF BeginLogin, accounts, Limited
<1>3. /\ login \in [Logins -> {Idle} \cup Reading \cup Failing \cup Passed]
      /\ login' \in [Logins -> {Idle} \cup Reading \cup Failing \cup Passed]
      /\ login'[l] = r /\ \A m \in Logins : m # l => login'[m] = login[m]
  BY <1>1 DEF Inv, Types
<1>4. Types'
  BY <1>2, <1>3 DEF Inv, Types
<1>5. FailuresCounted'
  <2>1. InFlight' \in SUBSET Logins
    BY DEF InFlight
  <2>2. /\ Cardinality(Logins) \in Nat /\ Cardinality(InFlight') \in Nat
        /\ Cardinality(InFlight') <= Cardinality(Logins)
    BY <2>1, LoginsAssumption, FS_Subset, FS_CardinalityType
  <2> QED
    BY <1>2, <2>2, BoundsAssumption DEF FailuresCounted
<1>6. r \notin Passed
  BY ReadingState, FailingState
<1>7. RowsCurrent'
  BY <1>2, <1>3, <1>6 DEF Inv, RowsCurrent, Current, Exists
<1>8. Bootstrapped'
  BY <1>2 DEF Inv, Bootstrapped, Admins, Exists
<1>9. Accounted'
  BY <1>2, AccountedKept DEF BeginLogin, accounts
<1> QED
  BY <1>4, <1>5, <1>7, <1>8, <1>9 DEF Inv

(* A login that goes on, or ends, without a failure.                       *)
LEMMA LoginMoves ==
  ASSUME Inv, NEW l \in Logins, login[l] # Idle,
         NEW r \in {Idle} \cup Reading \cup Failing \cup Passed,
         login' = [login EXCEPT ![l] = r], r \in Passed => Current(r),
         UNCHANGED <<user, boot, raced, failures, operation>>, Accounted',
         session' \in [Logins -> SessionRows \cup {Absent}],
         \A m \in Logins : session'[m] # Absent => Current(session'[m])
  PROVE  Inv'
<1>1. /\ user' = user /\ boot' = boot /\ raced' = raced
      /\ failures' = failures /\ operation' = operation /\ failures \in Nat
  BY DEF Inv, Types
<1>2. /\ login \in [Logins -> {Idle} \cup Reading \cup Failing \cup Passed]
      /\ login' \in [Logins -> {Idle} \cup Reading \cup Failing \cup Passed]
      /\ login'[l] = r /\ \A m \in Logins : m # l => login'[m] = login[m]
  BY DEF Inv, Types
<1>3. Types'
  BY <1>1, <1>2 DEF Inv, Types
<1>4. FailuresCounted'
  <2>1. InFlight' \subseteq InFlight
    BY <1>2 DEF InFlight
  <2>2. failures' \in Nat /\ failures' <= failures
    BY <1>1
  <2> QED
    BY <2>1, <2>2, CountKept DEF Inv
<1>5. RowsCurrent'
  BY <1>1, <1>2 DEF Inv, RowsCurrent, Current, Exists
<1>6. Bootstrapped'
  BY <1>1 DEF Inv, Bootstrapped, Admins, Exists
<1> QED
  BY <1>3, <1>4, <1>5, <1>6 DEF Inv

LEMMA ReadUserKeeps ==
  ASSUME Inv, NEW l \in Logins, ReadUser(l)
  PROVE  Inv'
<1> DEFINE n     == login[l].user
           valid == Exists(n) /\ user[n].active /\ user[n].password = login[l].password
           pass  == [at |-> "record", valid |-> TRUE, user |-> n,
                     password |-> login[l].password, overtaken |-> FALSE]
           fail  == [at |-> "record", valid |-> FALSE]
<1>1. login[l] \in Reading /\ login[l] # Idle
  BY LoginStates, IdleState DEF ReadUser, Inv, Types
<1>2. pass \in Passed /\ fail \in Failing
  <2>1. n \in Names /\ login[l].password \in 0 .. MaxResets
    BY <1>1 DEF Reading
  <2> QED
    BY <2>1 DEF Passed, Failing
<1>3. /\ login' = [login EXCEPT ![l] = IF valid THEN pass ELSE fail]
      /\ UNCHANGED <<user, boot, raced, session, failures, operation>> /\ change' = change
  BY DEF ReadUser, accounts
<1>4. valid => Current(pass)
  BY <1>1 DEF Current, Reading
<1>5. fail \notin Passed
  BY <1>2, FailingState
<1>6. session' \in [Logins -> SessionRows \cup {Absent}]
      /\ \A m \in Logins : session'[m] # Absent => Current(session'[m])
  BY <1>3 DEF Inv, Types, RowsCurrent
<1> HIDE DEF n, valid, pass, fail
<1>7. Accounted'
  BY <1>3, AccountedKept
<1>8. CASE valid
  BY <1>1, <1>2, <1>3, <1>4, <1>6, <1>7, <1>8, LoginMoves
<1>9. CASE ~valid
  BY <1>1, <1>2, <1>3, <1>5, <1>6, <1>7, <1>9, LoginMoves
<1> QED
  BY <1>8, <1>9

LEMMA RecordAttemptKeeps ==
  ASSUME Inv, NEW l \in Logins, RecordAttempt(l)
  PROVE  Inv'
<1>1. /\ login \in [Logins -> {Idle} \cup Reading \cup Failing \cup Passed]
      /\ login[l] # Idle /\ login[l].at = "record"
  BY LoginStates, IdleState DEF RecordAttempt, Inv, Types
<1>2. /\ session' = session /\ session' \in [Logins -> SessionRows \cup {Absent}]
      /\ \A m \in Logins : session'[m] # Absent => Current(session'[m])
      /\ UNCHANGED <<user, change, boot, raced, operation>>
  BY DEF RecordAttempt, accounts, Inv, Types, RowsCurrent
<1>5. Accounted'
  BY <1>2, AccountedKept
<1>3. CASE login[l].valid /\ login' = [login EXCEPT ![l].at = "insert"]
           /\ failures' = failures
  <2> DEFINE r == [login[l] EXCEPT !.at = "insert"]
  <2>1. login[l] \in Passed
    BY <1>1, <1>3, LoginStates
  <2>2. r \in Passed /\ r.user = login[l].user /\ r.overtaken = login[l].overtaken
        /\ r.password = login[l].password
    BY <2>1 DEF Passed
  <2>3. Current(login[l])
    BY <2>1 DEF Inv, RowsCurrent
  <2>4. Current(r)
    BY <2>2, <2>3 DEF Current
  <2>5. login' = [login EXCEPT ![l] = r]
    BY <1>1, <1>3
  <2> HIDE DEF r
  <2>6. UNCHANGED <<user, boot, raced, failures, operation>>
    BY <1>2, <1>3
  <2> QED
    BY <1>1, <1>2, <1>5, <2>2, <2>4, <2>5, <2>6, LoginMoves
<1>4. CASE login' = [login EXCEPT ![l] = Idle] /\ failures' = failures + 1
  <2>1. /\ user' = user /\ boot' = boot /\ raced' = raced
        /\ operation' = operation /\ failures \in Nat /\ failures' \in Nat
    BY <1>2, <1>4 DEF Inv, Types
  <2>2. /\ login' \in [Logins -> {Idle} \cup Reading \cup Failing \cup Passed]
        /\ login'[l] = Idle /\ \A m \in Logins : m # l => login'[m] = login[m]
    BY <1>1, <1>4
  <2>3. Types'
    BY <1>2, <2>1, <2>2 DEF Inv, Types
  <2>4. FailuresCounted'
    <3>1. InFlight' = InFlight \ {l} /\ l \in InFlight
      BY <1>1, <2>2 DEF InFlight
    <3>2. IsFiniteSet(InFlight) /\ Cardinality(InFlight) \in Nat
          /\ Cardinality(Logins) \in Nat
      <4>1. InFlight \in SUBSET Logins
        BY DEF InFlight
      <4> QED
        BY <4>1, LoginsAssumption, FS_Subset, FS_CardinalityType
    <3>3. Cardinality(InFlight') = Cardinality(InFlight) - 1
      BY <3>1, <3>2, FS_RemoveElement
    <3>4. failures + Cardinality(InFlight) <= MaxFailures - 1 + Cardinality(Logins)
      BY DEF Inv, FailuresCounted
    <3> QED
      BY <1>4, <2>1, <3>2, <3>3, <3>4, BoundsAssumption DEF FailuresCounted
  <2>5. RowsCurrent'
    BY <1>2, <2>1, <2>2, IdleState DEF Inv, RowsCurrent, Current, Exists
  <2>6. Bootstrapped'
    BY <2>1 DEF Inv, Bootstrapped, Admins, Exists
  <2> QED
    BY <1>5, <2>3, <2>4, <2>5, <2>6 DEF Inv
<1> QED
  BY <1>3, <1>4 DEF RecordAttempt

LEMMA InsertSessionKeeps ==
  ASSUME Inv, NEW l \in Logins, InsertSession(l)
  PROVE  Inv'
<1> DEFINE row == [user |-> login[l].user, password |-> login[l].password,
                   expired |-> FALSE, overtaken |-> login[l].overtaken]
<1>1. login[l] \in Passed /\ login[l] # Idle
  BY LoginStates, PassedState DEF InsertSession, Inv, Types
<1>2. row \in SessionRows
  BY <1>1, PassedState DEF SessionRows
<1>3. Current(row)
  BY <1>1 DEF Inv, RowsCurrent, Current
<1>4. /\ login' = [login EXCEPT ![l] = Idle] /\ session' = [session EXCEPT ![l] = row]
      /\ UNCHANGED <<user, boot, raced, failures, operation>>
  BY DEF InsertSession
<1>9. /\ change \in [Names -> Changing \cup {Absent}]
      /\ change' = IF change[row.user] = Absent THEN change
                   ELSE [change EXCEPT ![row.user].late = @ \cup {l}]
  BY DEF InsertSession, Inv, Accounted
<1> HIDE DEF row
<1>5. session \in [Logins -> SessionRows \cup {Absent}]
  BY DEF Inv, Types
<1>6. session' \in [Logins -> SessionRows \cup {Absent}]
  BY <1>2, <1>4, <1>5
<1>7. \A m \in Logins : session'[m] # Absent => Current(session'[m])
  BY <1>3, <1>4, <1>5 DEF Inv, RowsCurrent
<1>8. Idle \in {Idle} \cup Reading \cup Failing \cup Passed /\ Idle \notin Passed
  BY IdleState
<1>10. Accounted'
  <2> DEFINE n == row.user
             late == [change[n] EXCEPT !.late = @ \cup {l}]
  <2>1. n \in Names
    BY <1>2 DEF SessionRows
  <2>2. \A m \in Logins : m # l => session'[m] = session[m]
    BY <1>4, <1>5
  <2>3. session'[l] = row
    BY <1>4, <1>5
  <2>4. CASE change[n] = Absent
    <3>1. change' = change
      BY <1>9, <2>4
    <3> QED
      BY <1>4, <2>2, <2>3, <2>4, <3>1 DEF Inv, Accounted, Exists
  <2>5. CASE change[n] # Absent
    <3>1. change[n] \in Changing
      BY <1>9, <2>1, <2>5
    <3>2. /\ late \in Changing /\ late.kind = change[n].kind
          /\ late.doomed = change[n].doomed /\ late.late = change[n].late \cup {l}
      BY <3>1 DEF Changing
    <3>3. change' = [change EXCEPT ![n] = late]
      BY <1>9, <2>5
    <3> HIDE DEF late, n
    <3>4. /\ change' \in [Names -> Changing \cup {Absent}] /\ change'[n] = late
          /\ \A m \in Names : m # n => change'[m] = change[m]
      BY <1>9, <2>1, <3>2, <3>3
    <3>5. session'[l].user = n
      BY <2>3 DEF n
    <3> QED
      BY <1>4, <2>1, <2>2, <2>5, <3>2, <3>4, <3>5 DEF Inv, Accounted, Exists
  <2> QED
    BY <2>4, <2>5
<1> QED
  BY <1>1, <1>4, <1>6, <1>7, <1>8, <1>10, LoginMoves

LEMMA LoseLoginKeeps ==
  ASSUME Inv, NEW l \in Logins, LoseLogin(l)
  PROVE  Inv'
<1>1. /\ login[l] # Idle /\ login' = [login EXCEPT ![l] = Idle] /\ session' = session
      /\ UNCHANGED <<user, change, boot, raced, failures, operation>>
  BY DEF LoseLogin, accounts
<1>2. session' \in [Logins -> SessionRows \cup {Absent}]
      /\ \A m \in Logins : session'[m] # Absent => Current(session'[m])
  BY <1>1 DEF Inv, Types, RowsCurrent
<1>3. Idle \in {Idle} \cup Reading \cup Failing \cup Passed /\ Idle \notin Passed
  BY IdleState
<1>4. Accounted'
  BY <1>1, AccountedKept
<1> QED
  BY <1>1, <1>2, <1>3, <1>4, LoginMoves
-----------------------------------------------------------------------------
(* Sessions that end or expire, and failures that are forgotten.           *)
LEMMA SessionsEnd ==
  ASSUME Inv, UNCHANGED <<accounts, login, operation>>,
         failures' \in Nat, failures' <= failures,
         session' \in [Logins -> SessionRows \cup {Absent}],
         \A m \in Logins : session'[m] # Absent =>
           /\ session[m] # Absent /\ session'[m].user = session[m].user
           /\ session'[m].password = session[m].password
           /\ session'[m].overtaken = session[m].overtaken
  PROVE  Inv'
<1>1. user' = user /\ boot' = boot /\ raced' = raced /\ login' = login
      /\ operation' = operation
  BY DEF accounts
<1>2. Types'
  BY <1>1 DEF Inv, Types
<1>3. FailuresCounted'
  <2>1. InFlight' \subseteq InFlight
    BY <1>1 DEF InFlight
  <2> QED
    BY <2>1, CountKept DEF Inv
<1>4. RowsCurrent'
  BY <1>1 DEF Inv, RowsCurrent, Current, Exists
<1>5. Bootstrapped'
  BY <1>1 DEF Inv, Bootstrapped, Admins, Exists
<1>6. Accounted'
  BY <1>1, AccountedKept DEF accounts
<1> QED
  BY <1>2, <1>3, <1>4, <1>5, <1>6 DEF Inv

LEMMA ExpireKeeps ==
  ASSUME Inv, NEW l \in Logins, Expire(l)
  PROVE  Inv'
<1>1. /\ session \in [Logins -> SessionRows \cup {Absent}] /\ session[l] # Absent
      /\ failures' = failures /\ failures \in Nat
      /\ UNCHANGED <<accounts, login, operation>>
  BY DEF Expire, Inv, Types
<1> DEFINE row == [session[l] EXCEPT !.expired = TRUE]
<1>2. /\ row \in SessionRows /\ row.user = session[l].user
      /\ row.password = session[l].password /\ row.overtaken = session[l].overtaken
  <2>1. session[l] \in SessionRows
    BY <1>1
  <2> QED
    BY <2>1 DEF SessionRows
<1>3. session' = [session EXCEPT ![l] = row]
  BY <1>1 DEF Expire
<1> HIDE DEF row
<1>4. session' \in [Logins -> SessionRows \cup {Absent}]
  BY <1>1, <1>2, <1>3
<1>5. failures' \in Nat /\ failures' <= failures
  BY <1>1
<1>6. \A m \in Logins : session'[m] # Absent =>
        /\ session[m] # Absent /\ session'[m].user = session[m].user
        /\ session'[m].password = session[m].password
        /\ session'[m].overtaken = session[m].overtaken
  BY <1>1, <1>2, <1>3
<1> QED
  BY <1>1, <1>4, <1>5, <1>6, SessionsEnd

LEMMA LogoutKeeps ==
  ASSUME Inv, NEW l \in Logins, Logout(l)
  PROVE  Inv'
<1>1. /\ session' = [session EXCEPT ![l] = Absent]
      /\ session \in [Logins -> SessionRows \cup {Absent}]
      /\ failures' = failures /\ failures \in Nat
      /\ UNCHANGED <<accounts, login, operation>>
  BY DEF Logout, Inv, Types
<1>2. session' \in [Logins -> SessionRows \cup {Absent}]
  BY <1>1
<1>3. failures' \in Nat /\ failures' <= failures
  BY <1>1
<1>4. \A m \in Logins : session'[m] # Absent => session'[m] = session[m]
  BY <1>1
<1> QED
  BY <1>1, <1>2, <1>3, <1>4, SessionsEnd

LEMMA CleanupSessionsKeeps ==
  ASSUME Inv, CleanupSessions
  PROVE  Inv'
<1>1. /\ session \in [Logins -> SessionRows \cup {Absent}]
      /\ failures' = failures /\ failures \in Nat
      /\ UNCHANGED <<accounts, login, operation>>
  BY DEF CleanupSessions, Inv, Types
<1>2. /\ session' \in [Logins -> SessionRows \cup {Absent}]
      /\ \A m \in Logins : session'[m] # Absent => session'[m] = session[m]
  BY <1>1 DEF CleanupSessions
<1>3. failures' \in Nat /\ failures' <= failures
  BY <1>1
<1> QED
  BY <1>1, <1>2, <1>3, SessionsEnd

LEMMA ForgetFailureKeeps ==
  ASSUME Inv, ForgetFailure
  PROVE  Inv'
<1>1. /\ failures > 0 /\ failures' = failures - 1 /\ failures \in Nat /\ session' = session
      /\ UNCHANGED <<accounts, login, operation>>
  BY DEF ForgetFailure, Inv, Types
<1>2. failures' \in Nat /\ failures' <= failures
  BY <1>1
<1>3. session' \in [Logins -> SessionRows \cup {Absent}]
  BY <1>1 DEF Inv, Types
<1>4. \A m \in Logins : session'[m] # Absent => session'[m] = session[m]
  BY <1>1
<1> QED
  BY <1>1, <1>2, <1>3, <1>4, SessionsEnd
-----------------------------------------------------------------------------
(* A commit leaves no session of the account that it has not overtaken.    *)
LEMMA CommitKeeps ==
  ASSUME Inv, NEW n \in Names, Commit(n), UNCHANGED <<boot, raced, failures>>
  PROVE  /\ user' \in [Names -> Users \cup {Absent}]
         /\ login' \in [Logins -> {Idle} \cup Reading \cup Failing \cup Passed]
         /\ session' \in [Logins -> SessionRows \cup {Absent}]
         /\ FailuresCounted' /\ RowsCurrent' /\ Bootstrapped' /\ Accounted'
<1> DEFINE row == IF change[n].kind = "reset" THEN [user[n] EXCEPT !.password = @ + 1]
                                               ELSE [user[n] EXCEPT !.active = FALSE]
           Hit(l) == /\ login[l].at \in {"record", "insert"} /\ login[l].valid
                     /\ login[l].user = n
           Late(l) == [login[l] EXCEPT !.overtaken = TRUE]
           Kept(l) == [session[l] EXCEPT !.overtaken = TRUE]
           Mine(l) == session[l] # Absent /\ session[l].user = n
<1>1. /\ user \in [Names -> Users \cup {Absent}] /\ failures \in Nat
      /\ login \in [Logins -> {Idle} \cup Reading \cup Failing \cup Passed]
      /\ session \in [Logins -> SessionRows \cup {Absent}]
      /\ change \in [Names -> Changing \cup {Absent}]
  BY DEF Inv, Types, Accounted
<1>2. /\ change[n] # Absent /\ Exists(n) /\ change' = [change EXCEPT ![n] = Absent]
      /\ change[n].kind = "reset" => user[n].password < MaxResets
      /\ \A l \in Logins : Mine(l) => l \in change[n].doomed \/ l \in change[n].late
  BY DEF Commit, Inv, Accounted
<1>3. user[n] \in Users
  BY <1>1, <1>2 DEF Exists
<1>4. row \in Users /\ row.role = user[n].role
  <2>1. CASE change[n].kind = "reset"
    <3>1. user[n].password + 1 \in 0 .. MaxResets
      BY <1>2, <1>3, <2>1, BoundsAssumption DEF Users
    <3>2. row = [user[n] EXCEPT !.password = @ + 1]
      BY <2>1
    <3> QED
      BY <1>3, <3>1, <3>2 DEF Users
  <2>2. CASE change[n].kind # "reset"
    <3>1. row = [user[n] EXCEPT !.active = FALSE]
      BY <2>2
    <3> QED
      BY <1>3, <3>1 DEF Users
  <2> QED
    BY <2>1, <2>2
<1>5. user' = [user EXCEPT ![n] = row]
  BY DEF Commit
<1>6. session' = [l \in Logins |-> IF l \in change[n].doomed THEN Absent
                                   ELSE IF Mine(l) /\ l \in change[n].late THEN Kept(l)
                                   ELSE session[l]]
  BY DEF Commit, Of
<1>7. \A l \in Logins : Mine(l) =>
        Kept(l) \in SessionRows /\ Kept(l).user = n /\ Kept(l).overtaken = TRUE
  <2> SUFFICES ASSUME NEW l \in Logins, Mine(l)
               PROVE  Kept(l) \in SessionRows /\ Kept(l).user = n /\ Kept(l).overtaken = TRUE
    OBVIOUS
  <2>1. session[l] \in SessionRows
    BY <1>1
  <2> QED
    BY <2>1 DEF SessionRows
<1>8. \A l \in Logins : Hit(l) <=> login[l] \in Passed /\ login[l].user = n
  BY <1>1, LoginStates
<1>9. \A l \in Logins : Hit(l) =>
        /\ Late(l) \in Passed /\ Late(l).user = n /\ Late(l).overtaken = TRUE
        /\ login[l] # Idle
  <2> SUFFICES ASSUME NEW l \in Logins, Hit(l)
               PROVE  /\ Late(l) \in Passed /\ Late(l).user = n /\ Late(l).overtaken = TRUE
                      /\ login[l] # Idle
    OBVIOUS
  <2>1. login[l] \in Passed /\ login[l].user = n
    BY <1>8
  <2>2. login[l] # Idle
    BY <2>1, PassedState
  <2> QED
    BY <2>1, <2>2 DEF Passed
<1>10. login' = [l \in Logins |-> IF Hit(l) THEN Late(l) ELSE login[l]]
  BY DEF Commit, Overtake
<1>11. \A l \in Logins : Mine(l) <=> session[l] # Absent /\ session[l].user = n
  OBVIOUS
<1> HIDE DEF row, Hit, Late, Kept, Mine
<1>12. /\ user' \in [Names -> Users \cup {Absent}] /\ user'[n] = row /\ Exists(n)'
       /\ \A m \in Names : m # n => user'[m] = user[m]
  BY <1>1, <1>4, <1>5, UsersExist DEF Exists
<1>13. login' \in [Logins -> {Idle} \cup Reading \cup Failing \cup Passed]
  BY <1>1, <1>9, <1>10
<1>14. session' \in [Logins -> SessionRows \cup {Absent}]
  BY <1>1, <1>6, <1>7
<1>15. FailuresCounted'
  <2>1. InFlight' \subseteq InFlight
    BY <1>9, <1>10 DEF InFlight
  <2> QED
    BY <1>1, <2>1, CountKept DEF Inv
<1>16. \A l \in Logins : session'[l] # Absent => Current(session[l])'
  <2> SUFFICES ASSUME NEW l \in Logins, session'[l] # Absent PROVE Current(session[l])'
    OBVIOUS
  <2>1. CASE Mine(l)
    <3>1. session'[l] = Kept(l)
      BY <1>2, <1>6, <2>1
    <3> QED
      BY <1>7, <1>12, <2>1, <3>1 DEF Current
  <2>2. CASE ~Mine(l)
    <3>1. session'[l] = session[l]
      BY <1>6, <2>2
    <3>2. session[l].user # n /\ Current(session[l])
      BY <1>11, <2>2, <3>1 DEF Inv, RowsCurrent
    <3> QED
      BY <1>12, <3>1, <3>2 DEF Current, Exists
  <2> QED
    BY <2>1, <2>2
<1>17. \A l \in Logins : login'[l] \in Passed => Current(login[l])'
  <2> SUFFICES ASSUME NEW l \in Logins, login'[l] \in Passed PROVE Current(login[l])'
    OBVIOUS
  <2>1. CASE Hit(l)
    <3>1. login'[l].user = n /\ login'[l].overtaken = TRUE
      BY <1>9, <1>10, <2>1
    <3> QED
      BY <1>12, <3>1 DEF Current
  <2>2. CASE ~Hit(l)
    <3>1. login'[l] = login[l]
      BY <1>10, <2>2
    <3>2. login[l] \in Passed /\ login[l].user # n /\ Current(login[l])
      BY <1>8, <2>2, <3>1 DEF Inv, RowsCurrent
    <3> QED
      BY <1>12, <3>1, <3>2 DEF Current, Exists
  <2> QED
    BY <2>1, <2>2
<1>18. RowsCurrent'
  BY <1>16, <1>17 DEF RowsCurrent
<1>19. Bootstrapped'
  <2>1. /\ \A m \in Names : Exists(m)' <=> Exists(m)
        /\ Admins' = Admins
    BY <1>2, <1>4, <1>12 DEF Admins, Exists
  <2> QED
    BY <2>1, BootstrapsAssumption DEF Inv, Bootstrapped
<1>20. Accounted'
  <2>1. /\ change' \in [Names -> Changing \cup {Absent}] /\ change'[n] = Absent
        /\ \A m \in Names : m # n => change'[m] = change[m]
    BY <1>1, <1>2
  <2>2. \A l \in Logins : session'[l] # Absent =>
          session[l] # Absent /\ (session'[l] = session[l] \/ session[l].user = n)
    BY <1>6, <1>11
  <2>3. \A l \in Logins : session'[l] # Absent /\ session[l].user = n => session'[l].user = n
    BY <1>6, <1>7, <1>11
  <2> QED
    BY <1>12, <2>1, <2>2, <2>3 DEF Inv, Accounted, Exists
<1> QED
  BY <1>12, <1>13, <1>14, <1>15, <1>18, <1>19, <1>20

(* A transaction that opens has seen every session of its account.         *)
LEMMA RevokeKeeps ==
  ASSUME Inv, NEW n \in Names, ResetPassword(n) \/ Disable(n), UNCHANGED <<user, session>>
  PROVE  Accounted'
<1>1. PICK kind \in {"reset", "disable"} :
        Revoke(n, kind) /\ (kind = "reset" => user[n].password < MaxResets)
  BY DEF ResetPassword, Disable
<1> DEFINE row == [kind |-> kind, doomed |-> Of(n), late |-> {}]
<1>2. row \in Changing /\ row.kind = kind /\ row.doomed = Of(n)
  BY DEF Changing, Of
<1>3. Exists(n) /\ change' = [change EXCEPT ![n] = row]
      /\ change \in [Names -> Changing \cup {Absent}]
  BY <1>1 DEF Revoke, Dropped, Inv, Accounted
<1>4. \A l \in Logins : session[l] # Absent /\ session[l].user = n => l \in Of(n)
  BY DEF Of
<1> HIDE DEF row
<1>5. /\ change' \in [Names -> Changing \cup {Absent}] /\ change'[n] = row
      /\ \A m \in Names : m # n => change'[m] = change[m]
  BY <1>2, <1>3
<1> QED
  BY <1>1, <1>2, <1>3, <1>4, <1>5 DEF Inv, Accounted, Exists

LEMMA RollbackKeeps ==
  ASSUME Inv, NEW n \in Names, Rollback(n), UNCHANGED <<user, session>>
  PROVE  Accounted'
<1>1. change' = [change EXCEPT ![n] = Absent]
      /\ change \in [Names -> Changing \cup {Absent}]
  BY DEF Rollback, Inv, Accounted
<1>2. /\ change' \in [Names -> Changing \cup {Absent}] /\ change'[n] = Absent
      /\ \A m \in Names : m # n => change'[m] = change[m]
  BY <1>1
<1> QED
  BY <1>2 DEF Inv, Accounted, Exists

(* An enabled account is current for the logins that read it before.       *)
LEMMA EnableKeeps ==
  ASSUME Inv, NEW n \in Names, Enable(n), UNCHANGED <<change, boot, raced, logins>>
  PROVE  /\ user' \in [Names -> Users \cup {Absent}]
         /\ FailuresCounted' /\ RowsCurrent' /\ Bootstrapped' /\ Accounted'
<1> DEFINE row == [user[n] EXCEPT !.active = TRUE]
<1>1. /\ Exists(n) /\ user[n] \in Users /\ user \in [Names -> Users \cup {Absent}]
      /\ change[n] = Absent /\ session' = session /\ login' = login /\ failures' = failures
  BY DEF Enable, Inv, Types, Exists, logins
<1>2. /\ row \in Users /\ row.role = user[n].role /\ row.password = user[n].password
      /\ row.active = TRUE
  BY <1>1 DEF Users
<1>3. user' = [user EXCEPT ![n] = row]
  BY DEF Enable
<1> HIDE DEF row
<1>4. /\ user' \in [Names -> Users \cup {Absent}] /\ user'[n] = row /\ Exists(n)'
      /\ \A m \in Names : m # n => user'[m] = user[m]
  BY <1>1, <1>2, <1>3, UsersExist DEF Exists
<1>5. FailuresCounted'
  BY <1>1 DEF Inv, FailuresCounted, InFlight
<1>6. RowsCurrent'
  BY <1>1, <1>2, <1>4 DEF Inv, RowsCurrent, Current, Exists
<1>7. Bootstrapped'
  <2>1. /\ \A m \in Names : Exists(m)' <=> Exists(m)
        /\ Admins' = Admins
    BY <1>1, <1>2, <1>4 DEF Admins, Exists
  <2> QED
    BY <2>1, BootstrapsAssumption DEF Inv, Bootstrapped
<1>8. Accounted'
  BY <1>1, <1>4, AccountedKept
<1> QED
  BY <1>4, <1>5, <1>6, <1>7, <1>8

(* An operation that moves on stays an operation.                          *)
LEMMA StepTypes ==
  ASSUME Types, NEW o \in Operations, operation[o].at \in {"apply", "commit", "audit"},
         NEW place \in {"commit", "audit", "answered", "refused", "lost"}, Step(o, place)
  PROVE  /\ operation[o] \in Begun
         /\ operation' \in [Operations -> {Idle} \cup Begun]
<1>1. operation[o] \in Begun /\ operation \in [Operations -> {Idle} \cup Begun]
  BY IdleState DEF Types
<1> DEFINE op == [operation[o] EXCEPT !.at = place]
<1>2. op \in Begun
  BY <1>1 DEF Begun
<1>3. operation' = [operation EXCEPT ![o] = op]
  BY DEF Step
<1> HIDE DEF op
<1> QED
  BY <1>1, <1>2, <1>3

LEMMA OperationMoves ==
  ASSUME Inv, operation' \in [Operations -> {Idle} \cup Begun], UNCHANGED <<accounts, logins>>
  PROVE  Inv'
<1>1. /\ user' = user /\ boot' = boot /\ raced' = raced /\ login' = login
      /\ session' = session /\ failures' = failures /\ UNCHANGED <<change, logins>>
  BY DEF accounts, logins
<1>2. Types'
  BY <1>1 DEF Inv, Types
<1>3. RowsCurrent' /\ FailuresCounted' /\ Accounted'
  BY <1>1, RowsUntouched
<1>4. Bootstrapped'
  BY <1>1 DEF Inv, Bootstrapped, Admins, Exists
<1> QED
  BY <1>2, <1>3, <1>4 DEF Inv

LEMMA ApplyKeeps ==
  ASSUME Inv, NEW o \in Operations, Apply(o)
  PROVE  Inv'
<1> DEFINE op == operation[o]
           n  == op.target
<1>1. PICK place \in {"commit", "audit", "refused"} : Step(o, place)
  BY DEF Apply
<1>2. op \in Begun /\ operation' \in [Operations -> {Idle} \cup Begun]
  BY <1>1, StepTypes DEF Apply, Inv
<1>3. n \in Names
  BY <1>2 DEF Begun
<1>4. /\ boot' = boot /\ raced' = raced /\ failures' = failures /\ login' = login
      /\ session' = session /\ UNCHANGED logins
  BY DEF Apply, logins
<1>5. SUFFICES /\ user' \in [Names -> Users \cup {Absent}]
               /\ FailuresCounted' /\ RowsCurrent' /\ Bootstrapped' /\ Accounted'
  BY <1>2, <1>4 DEF Inv, Types
<1>6. CASE Insert(n, "user") /\ UNCHANGED change
  BY <1>3, <1>4, <1>6, OrdinaryInsertKeeps
<1>7. CASE Enable(n) /\ UNCHANGED change
  BY <1>3, <1>4, <1>7, EnableKeeps
<1>8. CASE (ResetPassword(n) \/ Disable(n)) /\ UNCHANGED user
  <2>1. Accounted'
    BY <1>3, <1>4, <1>8, RevokeKeeps
  <2>2. FailuresCounted' /\ RowsCurrent' /\ Bootstrapped'
    BY <1>4, <1>8 DEF Inv, FailuresCounted, InFlight, RowsCurrent, Current, Exists,
       Bootstrapped, Admins
  <2> QED
    BY <1>8, <2>1, <2>2 DEF Inv, Types
<1>9. CASE UNCHANGED <<user, change>>
  <2>1. RowsCurrent' /\ FailuresCounted' /\ Accounted'
    BY <1>4, <1>9, RowsUntouched
  <2>2. Bootstrapped'
    BY <1>4, <1>9 DEF Inv, Bootstrapped, Admins, Exists
  <2> QED
    BY <1>9, <2>1, <2>2 DEF Inv, Types
<1> QED
  BY <1>6, <1>7, <1>8, <1>9 DEF Apply

LEMMA CommitOperationKeeps ==
  ASSUME Inv, NEW o \in Operations, CommitOperation(o)
  PROVE  Inv'
<1>1. /\ operation[o] \in Begun /\ operation' \in [Operations -> {Idle} \cup Begun]
  BY StepTypes DEF CommitOperation, Inv
<1>2. operation[o].target \in Names
  BY <1>1 DEF Begun
<1>3. Commit(operation[o].target) /\ boot' = boot /\ raced' = raced /\ failures' = failures
  BY DEF CommitOperation
<1> QED
  BY <1>1, <1>2, <1>3, CommitKeeps DEF Inv, Types

LEMMA BeginOperationKeeps ==
  ASSUME Inv, NEW o \in Operations, NEW l \in Logins, BeginOperation(o, l)
  PROVE  Inv'
<1>1. PICK kind \in {"create", "enable", "disable", "reset"}, n \in Names :
        operation' = [operation EXCEPT ![o] =
          [at |-> "apply", kind |-> kind, target |-> n, actor |-> session[l].user]]
  BY DEF BeginOperation
<1>2. session[l].user \in Names /\ operation \in [Operations -> {Idle} \cup Begun]
  <2>1. session[l] # Absent
    BY DEF BeginOperation, Authenticated
  <2> QED
    BY <2>1 DEF Inv, Types, RowsCurrent, Current
<1>3. operation' \in [Operations -> {Idle} \cup Begun]
  <2>1. [at |-> "apply", kind |-> kind, target |-> n, actor |-> session[l].user] \in Begun
    BY <1>2 DEF Begun
  <2> QED
    BY <1>1, <1>2, <2>1
<1> QED
  BY <1>3, OperationMoves DEF BeginOperation

LEMMA CommandLineKeeps ==
  ASSUME Inv, NEW n \in Names,
         CliCreateUser(n) \/ CliResetPassword(n) \/ CliCommit(n) \/ CliRollback(n)
  PROVE  Inv'
<1>1. CASE CliCreateUser(n)
  <2>1. Insert(n, "user") /\ UNCHANGED <<change, boot, raced, logins>> /\ operation' = operation
        /\ login' = login /\ session' = session /\ failures' = failures
        /\ boot' = boot /\ raced' = raced
    BY <1>1 DEF CliCreateUser, logins
  <2>2. /\ user' \in [Names -> Users \cup {Absent}]
        /\ RowsCurrent' /\ FailuresCounted' /\ Accounted' /\ Bootstrapped'
    BY <2>1, OrdinaryInsertKeeps
  <2> QED
    BY <2>1, <2>2 DEF Inv, Types
<1>2. CASE CliResetPassword(n) \/ CliRollback(n)
  <2>1. /\ user' = user /\ boot' = boot /\ raced' = raced /\ login' = login
        /\ session' = session /\ failures' = failures /\ operation' = operation
    BY <1>2 DEF CliResetPassword, CliRollback, logins
  <2>2. Accounted'
    BY <1>2, <2>1, RevokeKeeps, RollbackKeeps DEF CliResetPassword, CliRollback
  <2>3. Types' /\ FailuresCounted'
    BY <2>1 DEF Inv, Types, FailuresCounted, InFlight
  <2>4. RowsCurrent' /\ Bootstrapped'
    BY <2>1 DEF Inv, RowsCurrent, Current, Exists, Bootstrapped, Admins
  <2> QED
    BY <2>2, <2>3, <2>4 DEF Inv
<1>3. CASE CliCommit(n)
  <2>1. Commit(n) /\ boot' = boot /\ raced' = raced /\ failures' = failures
        /\ operation' = operation
    BY <1>3 DEF CliCommit
  <2> QED
    BY <2>1, CommitKeeps DEF Inv, Types
<1> QED
  BY <1>1, <1>2, <1>3

LEMMA WriteAuditKeeps ==
  ASSUME Inv, NEW o \in Operations, WriteAudit(o)
  PROVE  Inv'
<1>1. Step(o, "answered") /\ operation[o].at = "audit" /\ UNCHANGED <<accounts, logins>>
  BY DEF WriteAudit
<1>2. operation' \in [Operations -> {Idle} \cup Begun]
  BY <1>1, StepTypes DEF Inv
<1> QED
  BY <1>1, <1>2, OperationMoves

LEMMA LoseOperationKeeps ==
  ASSUME Inv, NEW o \in Operations, LoseOperation(o)
  PROVE  Inv'
<1>1. operation[o] \in Begun /\ operation' \in [Operations -> {Idle} \cup Begun]
  BY StepTypes DEF LoseOperation, Inv
<1>2. /\ user' = user /\ boot' = boot /\ raced' = raced /\ login' = login
      /\ session' = session /\ failures' = failures
  BY DEF LoseOperation, logins
<1>3. Rollback(operation[o].target) \/ change' = change
  BY DEF LoseOperation
<1>4. operation[o].target \in Names
  BY <1>1 DEF Begun
<1>5. Accounted'
  BY <1>2, <1>3, <1>4, RollbackKeeps, AccountedKept
<1>6. Types' /\ FailuresCounted'
  BY <1>1, <1>2 DEF Inv, Types, FailuresCounted, InFlight
<1>7. RowsCurrent' /\ Bootstrapped'
  BY <1>2 DEF Inv, RowsCurrent, Current, Exists, Bootstrapped, Admins
<1> QED
  BY <1>5, <1>6, <1>7 DEF Inv
-----------------------------------------------------------------------------
THEOREM SessionsStep == Inv /\ [Next]_vars => Inv'
<1> SUFFICES ASSUME Inv, [Next]_vars PROVE Inv'
  OBVIOUS
<1>1. CASE \E n \in Bootstraps : BootstrapCheck(n) \/ BootstrapInsert(n)
  BY <1>1, BootstrapCheckKeeps, BootstrapInsertKeeps
<1>2. CASE \E n \in Names : CliCreateUser(n) \/ CliResetPassword(n) \/ CliCommit(n)
                              \/ CliRollback(n)
  BY <1>2, CommandLineKeeps
<1>3. CASE \E l \in Logins : LoginStep(l) \/ Expire(l) \/ Logout(l)
  BY <1>3, BeginLoginKeeps, ReadUserKeeps, RecordAttemptKeeps, InsertSessionKeeps,
     LoseLoginKeeps, ExpireKeeps, LogoutKeeps DEF LoginStep
<1>4. CASE ForgetFailure \/ CleanupSessions
  BY <1>4, ForgetFailureKeeps, CleanupSessionsKeeps
<1>5. CASE \E o \in Operations : Apply(o) \/ CommitOperation(o) \/ WriteAudit(o)
                                   \/ LoseOperation(o) \/ \E l \in Logins : BeginOperation(o, l)
  BY <1>5, ApplyKeeps, CommitOperationKeeps, WriteAuditKeeps, LoseOperationKeeps,
     BeginOperationKeeps
<1>6. CASE UNCHANGED vars
  <2>1. operation' = operation /\ UNCHANGED <<accounts, logins>>
    BY <1>6 DEF vars, accounts, logins
  <2>2. operation' \in [Operations -> {Idle} \cup Begun]
    BY <2>1 DEF Inv, Types
  <2> QED
    BY <2>1, <2>2, OperationMoves
<1> QED
  BY <1>1, <1>2, <1>3, <1>4, <1>5, <1>6 DEF Next

(* The invariant holds in every state of every instance.                   *)
THEOREM SessionsInvariant == Spec => []Inv
<1> QED
  BY SessionsInit, SessionsStep, PTL DEF Spec

(* login(): however its statements overlap, the failures of 15 minutes     *)
(* exceed the limit by no more than the logins under way together.         *)
THEOREM SessionsTypeCorrect == Spec => []SessionsTypeOK
<1>1. Inv => SessionsTypeOK
  <2> SUFFICES ASSUME Inv PROVE SessionsTypeOK
    OBVIOUS
  <2>1. failures \in 0 .. MaxFailures - 1 + Cardinality(Logins)
    <3>1. InFlight \in SUBSET Logins
      BY DEF InFlight
    <3>2. Cardinality(InFlight) \in Nat /\ Cardinality(Logins) \in Nat
      BY <3>1, LoginsAssumption, FS_Subset, FS_CardinalityType
    <3> QED
      BY <3>2, BoundsAssumption DEF Inv, Types, FailuresCounted
  <2>2. \A l \in Logins : login[l].at \in {"idle", "read", "record", "insert"}
    BY LoginStates DEF Inv, Types
  <2>3. \A o \in Operations : operation[o].at \in {"idle", "apply", "commit", "audit",
                                                   "answered", "refused", "lost"}
    BY IdleState DEF Inv, Types, Begun
  <2> QED
    BY <2>1, <2>2, <2>3 DEF Inv, Types, Accounted, Changing, SessionsTypeOK, Users, SessionRows
<1> QED
  BY <1>1, SessionsInvariant, PTL

(* reset_password, set_status: a session of an old password or of a        *)
(* disabled account is one whose login had read the account before the     *)
(* commit, inserted after the DELETE of the transaction.                   *)
THEOREM OldSessionsGone == Spec => []OldSessionsEnd
<1>1. Inv => OldSessionsEnd
  BY DEF Inv, RowsCurrent, Current, OldSessionsEnd
<1> QED
  BY <1>1, SessionsInvariant, PTL

(* bootstrap_admin: one super administrator, unless two commands raced.    *)
THEOREM FirstAdmin == Spec => []OneFirstAdmin
<1>1. Inv => OneFirstAdmin
  <2> SUFFICES ASSUME Inv, ~raced PROVE Cardinality(Admins) <= 1
    BY DEF OneFirstAdmin
  <2>1. \A m, n \in Admins : m = n
    BY DEF Inv, Bootstrapped
  <2>2. CASE Admins = {}
    BY <2>2, FS_EmptySet
  <2>3. CASE Admins # {}
    <3>1. PICK n : Admins = {n}
      BY <2>1, <2>3
    <3> QED
      BY <3>1, FS_Singleton
  <2> QED
    BY <2>2, <2>3
<1> QED
  BY <1>1, SessionsInvariant, PTL
=============================================================================

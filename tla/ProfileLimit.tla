---------------------------- MODULE ProfileLimit ----------------------------
(***************************************************************************)
(* The gates in front of every model call of one worker process: the       *)
(* ProfileLimit of the call's model profile, whose maximum users change    *)
(* in the database at any time, and the process-wide semaphore.            *)
(*                                                                         *)
(* A call reserves a slot of its profile, queues for a global slot, reads  *)
(* the profile's maximum again and starts only if the reservations of the  *)
(* profile still fit; otherwise it gives both back and begins again.  The  *)
(* steps below lie between the await points and atomic operations of       *)
(* crates/textcomb-core/src/model_limits.rs.                               *)
(***************************************************************************)
EXTENDS Integers, SequencesExt

CONSTANTS
  Calls,         \* tasks that make model calls, one call at a time
  Profiles,      \* model_profiles rows
  ProfileOf,     \* [Calls -> Profiles]
  GlobalSlots,   \* config.model_concurrency
  MaxLimit       \* the largest max_concurrency

ASSUME ProfileLimitAssumption ==
  /\ IsFiniteSet(Calls)
  /\ ProfileOf \in [Calls -> Profiles]
  /\ GlobalSlots \in Nat \ {0}
  /\ MaxLimit \in Nat \ {0}

VARIABLES
  maximum,       \* [Profiles -> max_concurrency]
  in_flight,     \* [Profiles -> reservations], ProfileLimit.in_flight
  free,          \* permits left in the global semaphore
  line,          \* calls that wait for a global permit, first come first served
  at,            \* where a call stands
  seen,          \* the maximum a call read last
  notified,      \* a release was announced since the call registered for it
  again          \* a leaving call was rejected and will try again

gate == <<in_flight, free, line>>
vars == <<maximum, gate, at, seen, notified, again>>

(* "registered" and "granted" calls are about to read the maximum,         *)
(* "deciding" and "checking" ones have read it; "leaving" and "notifying"  *)
(* are the two steps of dropping a ProfilePermit.                          *)
Places == {"idle", "registered", "deciding", "full", "waiting", "queued", "granted",
           "checking", "calling", "leaving", "notifying"}

HoldsProfile(c) == at[c] \in {"queued", "granted", "checking", "calling", "leaving"}
HoldsGlobal(c)  == at[c] \in {"granted", "checking", "calling"}
Registered(c)   == at[c] \in {"registered", "deciding", "full", "waiting"}

TypeOK ==
  /\ maximum \in [Profiles -> 1 .. MaxLimit]
  /\ in_flight \in [Profiles -> Nat]
  /\ free \in 0 .. GlobalSlots
  /\ line \in Seq(Calls)
  /\ at \in [Calls -> Places]
  /\ seen \in [Calls -> 0 .. MaxLimit]
  /\ notified \in [Calls -> BOOLEAN]
  /\ again \in [Calls -> BOOLEAN]

Init ==
  /\ maximum \in [Profiles -> 1 .. MaxLimit]
  /\ in_flight = [p \in Profiles |-> 0]
  /\ free = GlobalSlots
  /\ line = << >>
  /\ at = [c \in Calls |-> "idle"]
  /\ seen = [c \in Calls |-> 0]
  /\ notified = [c \in Calls |-> FALSE]
  /\ again = [c \in Calls |-> FALSE]

-----------------------------------------------------------------------------
MoveTo(c, place) == at' = [at EXCEPT ![c] = place]

(* The maximum a call has read is a local of the block that compares it.   *)
Forget(c) == seen' = [seen EXCEPT ![c] = 0]

(* clamp(1, 100) in the API, CHECK (max_concurrency BETWEEN 1 AND 100).    *)
Allowed == 1 .. MaxLimit

SetMaximum(p) ==
  /\ \E m \in Allowed \ {maximum[p]} : maximum' = [maximum EXCEPT ![p] = m]
  /\ UNCHANGED <<gate, at, seen, notified, again>>

(* Variant for ReleaseNotMissed: the registration comes with the wait, so  *)
(* what was announced before it is forgotten.                              *)
Listen_Late(c, place) == notified' = [notified EXCEPT ![c] = FALSE]

(* changed.enable(): the call hears of every release from the moment it is *)
(* registered until it wakes or has its reservation.                       *)
Listen(c, place) ==
  notified' = [notified EXCEPT ![c] = notified[c] /\ place \in {"full", "waiting"}]

-----------------------------------------------------------------------------
(* acquire: register, read the maximum, reserve or wait                    *)

Register(c) ==
  /\ at[c] = "idle"
  /\ MoveTo(c, "registered") /\ Listen(c, "registered")
  /\ UNCHANGED <<maximum, gate, seen, again>>

(* load_model_concurrency                                                  *)
ReadMaximum(c) ==
  /\ at[c] \in {"registered", "granted"}
  /\ seen' = [seen EXCEPT ![c] = maximum[ProfileOf[c]]]
  /\ MoveTo(c, IF at[c] = "registered" THEN "deciding" ELSE "checking")
  /\ UNCHANGED <<maximum, gate, notified, again>>

(* fetch_update succeeds: (count < maximum).then_some(count + 1).          *)
Reserve(c) ==
  /\ at[c] = "deciding" /\ in_flight[ProfileOf[c]] < seen[c]
  /\ in_flight' = [in_flight EXCEPT ![ProfileOf[c]] = @ + 1]
  /\ line' = Append(line, c)
  /\ MoveTo(c, "queued") /\ Listen(c, "queued") /\ Forget(c)
  /\ UNCHANGED <<maximum, free, again>>

(* fetch_update fails ...                                                  *)
FindFull(c) ==
  /\ at[c] = "deciding" /\ in_flight[ProfileOf[c]] >= seen[c]
  /\ MoveTo(c, "full")
  /\ UNCHANGED <<maximum, gate, seen, notified, again>>

(* ... and a moment later the call goes to sleep.                          *)
Wait(c) ==
  /\ at[c] = "full"
  /\ MoveTo(c, "waiting") /\ Listen(c, "waiting")
  /\ UNCHANGED <<maximum, gate, seen, again>>

(* A release was announced, or the sleep of one second is over.            *)
Wake(c) ==
  /\ at[c] = "waiting"
  /\ MoveTo(c, "registered") /\ Listen(c, "registered") /\ Forget(c)
  /\ UNCHANGED <<maximum, gate, again>>

-----------------------------------------------------------------------------
(* acquire_for_call: the global slot and the second look at the maximum    *)

(* tokio's semaphore serves its waiters in order.                          *)
GrantGlobal ==
  /\ free > 0 /\ line # << >>
  /\ free' = free - 1 /\ line' = Tail(line)
  /\ MoveTo(Head(line), "granted")
  /\ UNCHANGED <<maximum, in_flight, seen, notified, again>>

(* Variant for StartsWithinLimit: the reservation counts as permission.    *)
MayStart_Reserved(c) == TRUE

(* Variant for NoStandstill: the call's own reservation is forgotten.      *)
MayStart_Strict(c) == in_flight[ProfileOf[c]] < seen[c]

(* in_flight.load() <= maximum                                             *)
MayStart(c) == in_flight[ProfileOf[c]] <= seen[c]

Start(c) ==
  /\ at[c] = "checking" /\ MayStart(c)
  /\ MoveTo(c, "calling") /\ Forget(c)
  /\ UNCHANGED <<maximum, gate, notified, again>>

-----------------------------------------------------------------------------
(* Giving back: the global permit is dropped first, then the profile's     *)

ReturnGlobal(c) == free + 1

Leave(c, retry) ==
  /\ free' = ReturnGlobal(c)
  /\ MoveTo(c, "leaving") /\ Forget(c)
  /\ again' = [again EXCEPT ![c] = retry]
  /\ UNCHANGED <<maximum, in_flight, line, notified>>

(* The maximum was lowered: both permits go and the loop starts over.      *)
Reject(c) == at[c] = "checking" /\ ~MayStart(c) /\ Leave(c, TRUE)

(* The model call ends, well or not; it has a timeout of its own.          *)
Finish(c) == at[c] = "calling" /\ Leave(c, FALSE)

(* The stop token, a failed read of the maximum or the end of the job      *)
(* drops the call at an await point.                                       *)
AbortGranted(c) == at[c] = "granted" /\ Leave(c, FALSE)

(* Variant for PermitsAccounted: the reservation of a call that is stopped *)
(* in the global queue is not given back.                                  *)
AfterQueue_Forgotten == "idle"

AfterQueue == "leaving"

AbortQueued(c) ==
  /\ at[c] = "queued"
  /\ \E i \in DOMAIN line : line[i] = c /\ line' = RemoveAt(line, i)
  /\ MoveTo(c, AfterQueue)
  /\ UNCHANGED <<maximum, in_flight, free, seen, notified, again>>

AbortWaiting(c) ==
  /\ at[c] \in {"registered", "waiting"}
  /\ MoveTo(c, "idle") /\ Listen(c, "idle") /\ Forget(c)
  /\ UNCHANGED <<maximum, gate, again>>

(* ProfilePermit::drop: fetch_sub, ...                                     *)
ReturnReservation(c) ==
  /\ at[c] = "leaving"
  /\ in_flight' = [in_flight EXCEPT ![ProfileOf[c]] = @ - 1]
  /\ MoveTo(c, "notifying")
  /\ UNCHANGED <<maximum, free, line, seen, notified, again>>

(* ... then notify_waiters reaches the calls registered at that moment.    *)
(* A rejected call goes round its loop and registers again.                *)
NotifyWaiters(c) ==
  /\ at[c] = "notifying"
  /\ notified' = [d \in Calls |->
                    notified[d] \/ (ProfileOf[d] = ProfileOf[c] /\ Registered(d))]
  /\ MoveTo(c, IF again[c] THEN "registered" ELSE "idle")
  /\ again' = [again EXCEPT ![c] = FALSE]
  /\ UNCHANGED <<maximum, gate, seen>>

-----------------------------------------------------------------------------
Acquire(c)  == ReadMaximum(c) \/ Reserve(c) \/ FindFull(c) \/ Wait(c) \/ Wake(c) \/ Start(c)
GiveBack(c) == Reject(c) \/ Finish(c) \/ ReturnReservation(c) \/ NotifyWaiters(c)
Abort(c)    == AbortGranted(c) \/ AbortQueued(c) \/ AbortWaiting(c)

Next ==
  \/ \E p \in Profiles : SetMaximum(p)
  \/ \E c \in Calls : Register(c) \/ Acquire(c) \/ GiveBack(c) \/ Abort(c)
  \/ GrantGlobal

Spec == Init /\ [][Next]_vars

(* The runtime polls every task that can go on, a waiting one after a      *)
(* second at the latest, and every model call ends.  Nobody is obliged to  *)
(* make calls, to stop them or to change the configuration.                *)
Fairness ==
  /\ WF_vars(GrantGlobal)
  /\ \A c \in Calls : WF_vars(Acquire(c)) /\ WF_vars(GiveBack(c))

FairSpec == Spec /\ Fairness

-----------------------------------------------------------------------------
Running(p) == {c \in Calls : ProfileOf[c] = p /\ at[c] = "calling"}

(* No path of a call, its rejection and its cancellation while it waits    *)
(* included, loses or doubles a permit of the profile or of the process.   *)
PermitsAccounted ==
  /\ \A p \in Profiles :
       in_flight[p] = Cardinality({c \in Calls : ProfileOf[c] = p /\ HoldsProfile(c)})
  /\ free = GlobalSlots - Cardinality({c \in Calls : HoldsGlobal(c)})

(* "Register before reading state so a release cannot be missed": a call   *)
(* that waits unnotified waits because the profile was full by what it had *)
(* read and nothing has been given back since, except by a call that is    *)
(* about to announce it.                                                   *)
ReleaseNotMissed ==
  \A c \in Calls : at[c] = "waiting" /\ ~notified[c] =>
     \/ in_flight[ProfileOf[c]] >= seen[c]
     \/ \E d \in Calls : ProfileOf[d] = ProfileOf[c] /\ at[d] = "notifying"

(* A call starts only if the calls of its profile that then run, whoever   *)
(* admitted them under whatever earlier limit, fit the limit it read after *)
(* it had got its global slot: a lower limit drains before it admits.      *)
StartsWithinLimit ==
  [][\A c \in Calls : at[c] # "calling" /\ at'[c] = "calling" =>
       Cardinality(Running(ProfileOf[c])') <= seen[c]]_vars

(* Once users leave the configuration alone and stop no more calls, the    *)
(* calls of a profile that want to start do not block or reject each other *)
(* for ever: one of them starts, or none is left; and a throttled profile  *)
(* does not keep the global slots that another one needs.                  *)
UsersRest == <>[][maximum' = maximum /\ ~\E c \in Calls : Abort(c)]_vars

NoStandstill ==
  UsersRest =>
    \A p \in Profiles :
      (\E c \in Calls : ProfileOf[c] = p /\ at[c] \notin {"idle", "calling"})
        ~> \/ Running(p) # {}
           \/ \A c \in Calls : ProfileOf[c] = p => at[c] = "idle"
=============================================================================

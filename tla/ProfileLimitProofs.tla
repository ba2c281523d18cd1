------------------------- MODULE ProfileLimitProofs -------------------------
(***************************************************************************)
(* Proofs about ProfileLimit, for any number of calls, profiles, slots and *)
(* limits.                                                                 *)
(*                                                                         *)
(* The accounting of permits is inductive once it is known that the calls  *)
(* in the global queue are exactly "queued" there and stand in it once: a  *)
(* call that is granted a slot or leaves the queue then moves between the  *)
(* classes that the counters count.                                        *)
(***************************************************************************)
EXTENDS ProfileLimit, FiniteSetTheorems, SequenceTheorems, TLAPS

Holders(p) == {c \in Calls : ProfileOf[c] = p /\ HoldsProfile(c)}
Granted    == {c \in Calls : HoldsGlobal(c)}

(* Only queued calls stand in the queue, and none stands in it twice.      *)
LineIsQueue ==
  /\ \A i \in DOMAIN line : at[line[i]] = "queued"
  /\ \A i, j \in DOMAIN line : line[i] = line[j] => i = j

LimitInv == TypeOK /\ LineIsQueue /\ PermitsAccounted

-----------------------------------------------------------------------------
(* Counting                                                                *)

(* The sets that the counters count are finite.                            *)
LEMMA CountedFinite ==
  \A S \in SUBSET Calls : IsFiniteSet(S) /\ Cardinality(S) \in Nat
BY ProfileLimitAssumption, FS_Subset, FS_CardinalityType

(* One call more or less changes a count by one.                           *)
LEMMA OneMore ==
  ASSUME NEW S \in SUBSET Calls, NEW c \in Calls, c \notin S
  PROVE  Cardinality(S \cup {c}) = Cardinality(S) + 1
BY CountedFinite, FS_AddElement

LEMMA OneLess ==
  ASSUME NEW S \in SUBSET Calls, NEW c \in S
  PROVE  Cardinality(S \ {c}) = Cardinality(S) - 1 /\ Cardinality(S) > 0
<1>1. Cardinality(S \ {c}) = Cardinality(S) - 1
  BY CountedFinite, FS_RemoveElement
<1>2. Cardinality(S \ {c}) \in Nat /\ Cardinality(S) \in Nat
  BY CountedFinite
<1>3. QED BY <1>1, <1>2

-----------------------------------------------------------------------------
(* What a move of one call does to the sets                                *)

(* A call that keeps its permits changes neither set.                      *)
LEMMA KeepsPermits ==
  ASSUME TypeOK, NEW c \in Calls, NEW place \in Places, MoveTo(c, place),
         at[c] \in {"queued", "granted", "checking", "calling", "leaving"}
           <=> place \in {"queued", "granted", "checking", "calling", "leaving"},
         at[c] \in {"granted", "checking", "calling"}
           <=> place \in {"granted", "checking", "calling"}
  PROVE  (\A p \in Profiles : Holders(p)' = Holders(p)) /\ Granted' = Granted
BY DEF TypeOK, MoveTo, Holders, Granted, HoldsProfile, HoldsGlobal, Places

(* A reservation is made or given back.                                    *)
LEMMA GainsReservation ==
  ASSUME TypeOK, NEW c \in Calls, at[c] = "deciding", MoveTo(c, "queued")
  PROVE  /\ c \notin Holders(ProfileOf[c])
         /\ Holders(ProfileOf[c])' = Holders(ProfileOf[c]) \cup {c}
         /\ \A p \in Profiles \ {ProfileOf[c]} : Holders(p)' = Holders(p)
         /\ Granted' = Granted
BY DEF TypeOK, MoveTo, Holders, Granted, HoldsProfile, HoldsGlobal

LEMMA LosesReservation ==
  ASSUME TypeOK, NEW c \in Calls, at[c] = "leaving", MoveTo(c, "notifying")
  PROVE  /\ c \in Holders(ProfileOf[c])
         /\ Holders(ProfileOf[c])' = Holders(ProfileOf[c]) \ {c}
         /\ \A p \in Profiles \ {ProfileOf[c]} : Holders(p)' = Holders(p)
         /\ Granted' = Granted
BY DEF TypeOK, MoveTo, Holders, Granted, HoldsProfile, HoldsGlobal

(* A global permit is granted or given back.                               *)
LEMMA GainsGlobal ==
  ASSUME TypeOK, NEW c \in Calls, at[c] = "queued", MoveTo(c, "granted")
  PROVE  /\ c \notin Granted
         /\ Granted' = Granted \cup {c}
         /\ \A p \in Profiles : Holders(p)' = Holders(p)
BY DEF TypeOK, MoveTo, Holders, Granted, HoldsProfile, HoldsGlobal

LEMMA LosesGlobal ==
  ASSUME TypeOK, NEW c \in Calls, at[c] \in {"granted", "checking", "calling"},
         MoveTo(c, "leaving")
  PROVE  /\ c \in Granted
         /\ Granted' = Granted \ {c}
         /\ \A p \in Profiles : Holders(p)' = Holders(p)
BY DEF TypeOK, MoveTo, Holders, Granted, HoldsProfile, HoldsGlobal

(* The counters, written with the sets named above.                        *)
LEMMA Accounts ==
  PermitsAccounted <=> /\ \A p \in Profiles : in_flight[p] = Cardinality(Holders(p))
                       /\ free = GlobalSlots - Cardinality(Granted)
BY DEF PermitsAccounted, Holders, Granted

LEMMA AccountsNext ==
  PermitsAccounted' <=> /\ \A p \in Profiles : in_flight'[p] = Cardinality(Holders(p)')
                        /\ free' = GlobalSlots - Cardinality(Granted')
BY DEF PermitsAccounted, Holders, Granted

(* Nothing that is counted moves.                                          *)
LEMMA SameAccounts ==
  ASSUME PermitsAccounted, UNCHANGED <<in_flight, free>>,
         \A p \in Profiles : Holders(p)' = Holders(p), Granted' = Granted
  PROVE  PermitsAccounted'
BY Accounts, AccountsNext

-----------------------------------------------------------------------------
(* The queue                                                               *)

(* A call that is not queued can move anywhere but into the queue.         *)
LEMMA LineStays ==
  ASSUME TypeOK, LineIsQueue, UNCHANGED line,
         NEW c \in Calls, at[c] # "queued", NEW place \in Places, MoveTo(c, place)
  PROVE  LineIsQueue'
<1>1. \A i \in DOMAIN line : line[i] \in Calls /\ line[i] # c
  BY DEF TypeOK, LineIsQueue
<1>2. QED
  BY <1>1 DEF TypeOK, LineIsQueue, MoveTo

(* A call joins the queue at its end.                                      *)
LEMMA LineGrows ==
  ASSUME TypeOK, LineIsQueue, NEW c \in Calls, at[c] # "queued",
         MoveTo(c, "queued"), line' = Append(line, c)
  PROVE  LineIsQueue' /\ line' \in Seq(Calls)
<1>1. \A i \in DOMAIN line : line[i] \in Calls /\ line[i] # c
  BY DEF TypeOK, LineIsQueue
<1>2. /\ line' \in Seq(Calls) /\ DOMAIN line' = 1 .. Len(line) + 1
      /\ line'[Len(line) + 1] = c
      /\ \A i \in 1 .. Len(line) : line'[i] = line[i]
  BY AppendProperties DEF TypeOK
<1>3. QED
  BY <1>1, <1>2 DEF TypeOK, LineIsQueue, MoveTo

(* Any call leaves the queue; those behind it move up.                     *)
LEMMA LineLoses ==
  ASSUME TypeOK, LineIsQueue, NEW i \in DOMAIN line,
         line' \in Seq(Calls), Len(line') = Len(line) - 1,
         \A k \in 1 .. Len(line) - 1 :
           line'[k] = IF k < i THEN line[k] ELSE line[k + 1],
         NEW place \in Places, MoveTo(line[i], place)
  PROVE  LineIsQueue'
<1> DEFINE n == Len(line)
           old(k) == IF k < i THEN k ELSE k + 1
<1>1. /\ n \in Nat /\ DOMAIN line = 1 .. n /\ i \in 1 .. n /\ DOMAIN line' = 1 .. n - 1
      /\ \A k \in 1 .. n : line[k] \in Calls
  BY DEF TypeOK
<1>2. \A k \in 1 .. n - 1 : /\ old(k) \in 1 .. n /\ old(k) # i
                            /\ line'[k] = line[old(k)]
  BY <1>1
<1>3. \A k, l \in 1 .. n - 1 : old(k) = old(l) => k = l
  BY <1>1
<1> HIDE DEF old, n
<1>4. ASSUME NEW k \in 1 .. n - 1
      PROVE  at'[line'[k]] = "queued"
  <2>1. line[old(k)] \in Calls /\ line[old(k)] # line[i] /\ at[line[old(k)]] = "queued"
    BY <1>1, <1>2 DEF LineIsQueue
  <2>2. at'[line[old(k)]] = at[line[old(k)]]
    BY <2>1 DEF MoveTo, TypeOK
  <2>3. QED BY <1>2, <2>1, <2>2
<1>5. ASSUME NEW k \in 1 .. n - 1, NEW l \in 1 .. n - 1, line'[k] = line'[l]
      PROVE  k = l
  <2>1. line[old(k)] = line[old(l)] BY <1>2, <1>5
  <2>2. old(k) = old(l) BY <1>1, <1>2, <2>1 DEF LineIsQueue
  <2>3. QED BY <1>3, <2>2
<1>6. QED
  BY <1>1, <1>4, <1>5 DEF LineIsQueue

(* The first call leaves the queue.                                        *)
LEMMA LineShrinks ==
  ASSUME TypeOK, LineIsQueue, line # << >>, line' = Tail(line),
         NEW place \in Places, MoveTo(Head(line), place)
  PROVE  LineIsQueue' /\ line' \in Seq(Calls) /\ Head(line) \in Calls
         /\ at[Head(line)] = "queued"
<1>1. /\ Len(line) \in Nat \ {0} /\ DOMAIN line = 1 .. Len(line) /\ 1 \in DOMAIN line
      /\ Head(line) = line[1] /\ line[1] \in Calls
  BY DEF TypeOK
<1>2. /\ line' \in Seq(Calls) /\ Len(line') = Len(line) - 1
      /\ \A k \in 1 .. Len(line) - 1 : line'[k] = line[k + 1]
  BY HeadTailProperties DEF TypeOK
<1>3. \A k \in 1 .. Len(line) - 1 :
        line'[k] = IF k < 1 THEN line[k] ELSE line[k + 1]
  BY <1>1, <1>2
<1>4. MoveTo(line[1], place)
  BY <1>1
<1>5. LineIsQueue'
  BY <1>1, <1>2, <1>3, <1>4, LineLoses
<1>6. QED
  BY <1>1, <1>2, <1>5 DEF LineIsQueue

(* A call in the middle of the queue is stopped.                           *)
LEMMA EntriesAfterRemoval ==
  ASSUME NEW s \in Seq(Calls), NEW i \in DOMAIN s
  PROVE  /\ RemoveAt(s, i) \in Seq(Calls)
         /\ Len(RemoveAt(s, i)) = Len(s) - 1
         /\ \A k \in 1 .. Len(s) - 1 :
              RemoveAt(s, i)[k] = IF k < i THEN s[k] ELSE s[k + 1]
<1> DEFINE n == Len(s)
           a == SubSeq(s, 1, i - 1)
           b == SubSeq(s, i + 1, n)
<1>1. n \in Nat /\ i \in 1 .. n
  BY LenProperties
<1>2. a \in Seq(Calls) /\ Len(a) = i - 1 /\ \A k \in 1 .. i - 1 : a[k] = s[k]
  BY <1>1, SubSeqProperties
<1>3. b \in Seq(Calls) /\ Len(b) = n - i /\ \A k \in 1 .. n - i : b[k] = s[i + k]
  BY <1>1, SubSeqProperties
<1>4. RemoveAt(s, i) = a \o b
  BY DEF RemoveAt
<1> HIDE DEF a, b, n
<1>5. /\ a \o b \in Seq(Calls) /\ Len(a \o b) = Len(a) + Len(b)
      /\ \A k \in 1 .. Len(a) + Len(b) :
           (a \o b)[k] = IF k <= Len(a) THEN a[k] ELSE b[k - Len(a)]
  BY <1>2, <1>3, ConcatProperties
<1>6. ASSUME NEW k \in 1 .. n - 1
      PROVE  (a \o b)[k] = IF k < i THEN s[k] ELSE s[k + 1]
  <2>1. CASE k < i
    <3>1. k \in 1 .. Len(a) + Len(b) /\ k <= Len(a) /\ k \in 1 .. i - 1
      BY <1>1, <1>2, <1>3, <2>1
    <3>2. QED BY <1>2, <1>5, <2>1, <3>1
  <2>2. CASE ~(k < i)
    <3>1. /\ k \in 1 .. Len(a) + Len(b) /\ ~(k <= Len(a))
          /\ k - Len(a) \in 1 .. n - i /\ i + (k - Len(a)) = k + 1
      BY <1>1, <1>2, <1>3, <2>2
    <3>2. (a \o b)[k] = b[k - Len(a)] BY <1>5, <3>1
    <3>3. b[k - Len(a)] = s[i + (k - Len(a))] BY <1>3, <3>1
    <3>4. QED BY <2>2, <3>1, <3>2, <3>3
  <2>3. QED BY <2>1, <2>2
<1>7. Len(a \o b) = n - 1
  BY <1>1, <1>2, <1>3, <1>5
<1>8. /\ a \o b \in Seq(Calls) /\ Len(a \o b) = Len(s) - 1
      /\ \A k \in 1 .. Len(s) - 1 : (a \o b)[k] = IF k < i THEN s[k] ELSE s[k + 1]
  BY <1>5, <1>6, <1>7 DEF n
<1>9. QED
  BY <1>4, <1>8, Zenon

LEMMA LineSkips ==
  ASSUME TypeOK, LineIsQueue, NEW i \in DOMAIN line, line' = RemoveAt(line, i),
         NEW place \in Places, MoveTo(line[i], place)
  PROVE  LineIsQueue' /\ line' \in Seq(Calls) /\ at[line[i]] = "queued"
<1>1. line \in Seq(Calls)
  BY DEF TypeOK
<1>2. /\ line' \in Seq(Calls) /\ Len(line') = Len(line) - 1
      /\ \A k \in 1 .. Len(line) - 1 :
           line'[k] = IF k < i THEN line[k] ELSE line[k + 1]
  BY <1>1, EntriesAfterRemoval
<1>3. LineIsQueue'
  BY <1>2, LineLoses
<1>4. QED
  BY <1>2, <1>3 DEF LineIsQueue

-----------------------------------------------------------------------------
(* The invariant                                                           *)

LEMMA InitLimitInv == Init => LimitInv
<1> SUFFICES ASSUME Init PROVE LimitInv
  OBVIOUS
<1>1. TypeOK
  BY ProfileLimitAssumption DEF Init, TypeOK, Places
<1>2. LineIsQueue
  BY DEF Init, LineIsQueue
<1>3. Granted = {} /\ \A p \in Profiles : Holders(p) = {}
  BY DEF Init, Granted, Holders, HoldsProfile, HoldsGlobal
<1>4. /\ \A p \in Profiles : in_flight[p] = Cardinality(Holders(p))
      /\ free = GlobalSlots - Cardinality(Granted)
  <2>1. Cardinality({}) = 0
    BY FS_EmptySet
  <2>2. Cardinality(Granted) = 0 /\ \A p \in Profiles : Cardinality(Holders(p)) = 0
    BY <1>3, <2>1, Zenon
  <2>3. QED BY <2>2, ProfileLimitAssumption DEF Init
<1>5. QED BY <1>1, <1>2, <1>4, Accounts DEF LimitInv

(* A step that leaves the gate alone and moves a call between places where *)
(* it holds the same permits.                                              *)
LEMMA QuietMove ==
  ASSUME LimitInv, UNCHANGED gate, NEW c \in Calls, NEW place \in Places,
         MoveTo(c, place), at[c] # "queued", place # "queued",
         at[c] \in {"granted", "checking", "calling", "leaving"}
           <=> place \in {"granted", "checking", "calling", "leaving"},
         at[c] \in {"granted", "checking", "calling"}
           <=> place \in {"granted", "checking", "calling"}
  PROVE  LineIsQueue' /\ PermitsAccounted'
<1>1. LineIsQueue'
  BY LineStays DEF LimitInv, gate
<1>2. at[c] \in {"queued", "granted", "checking", "calling", "leaving"}
        <=> place \in {"queued", "granted", "checking", "calling", "leaving"}
  OBVIOUS
<1>3. (\A p \in Profiles : Holders(p)' = Holders(p)) /\ Granted' = Granted
  BY <1>2, KeepsPermits DEF LimitInv
<1>4. PermitsAccounted'
  BY <1>3, SameAccounts DEF LimitInv, gate
<1>5. QED BY <1>1, <1>4

(* A call enters or leaves the reservations of its profile.                *)
LEMMA ReservationCounted ==
  ASSUME LimitInv, UNCHANGED free, NEW c \in Calls,
         \/ /\ at[c] = "deciding" /\ MoveTo(c, "queued")
            /\ in_flight' = [in_flight EXCEPT ![ProfileOf[c]] = @ + 1]
         \/ /\ at[c] = "leaving" /\ MoveTo(c, "notifying")
            /\ in_flight' = [in_flight EXCEPT ![ProfileOf[c]] = @ - 1]
  PROVE  PermitsAccounted' /\ in_flight' \in [Profiles -> Nat]
<1> DEFINE q == ProfileOf[c]
<1>1. TypeOK /\ q \in Profiles /\ Holders(q) \in SUBSET Calls
  BY ProfileLimitAssumption DEF LimitInv, Holders
<1>2. /\ in_flight \in [Profiles -> Nat]
      /\ \A p \in Profiles : in_flight[p] = Cardinality(Holders(p))
      /\ free = GlobalSlots - Cardinality(Granted)
  BY Accounts DEF LimitInv, TypeOK
<1>3. \A p \in Profiles \ {q} : in_flight'[p] = in_flight[p]
  BY <1>2
<1>4. CASE at[c] = "deciding" /\ MoveTo(c, "queued")
             /\ in_flight' = [in_flight EXCEPT ![ProfileOf[c]] = @ + 1]
  <2>1. /\ c \notin Holders(q) /\ Holders(q)' = Holders(q) \cup {c}
        /\ \A p \in Profiles \ {q} : Holders(p)' = Holders(p)
        /\ Granted' = Granted
    BY <1>1, <1>4, GainsReservation
  <2>2. Cardinality(Holders(q) \cup {c}) = Cardinality(Holders(q)) + 1
    BY <1>1, <2>1, OneMore
  <2>3. in_flight'[q] = in_flight[q] + 1 /\ in_flight' \in [Profiles -> Nat]
    BY <1>1, <1>2, <1>4
  <2>4. in_flight'[q] = Cardinality(Holders(q)')
    BY <1>1, <1>2, <2>1, <2>2, <2>3
  <2>5. ASSUME NEW p \in Profiles PROVE in_flight'[p] = Cardinality(Holders(p)')
    <3>1. CASE p = q BY <2>4, <3>1
    <3>2. CASE p # q
      <4>1. in_flight'[p] = Cardinality(Holders(p)) BY <1>2, <1>3, <3>2
      <4>2. Holders(p)' = Holders(p) BY <2>1, <3>2
      <4>3. QED BY <4>1, <4>2
    <3>3. QED BY <3>1, <3>2
  <2>6. free' = GlobalSlots - Cardinality(Granted')
    BY <1>2, <2>1
  <2>7. PermitsAccounted'
    BY <2>5, <2>6, AccountsNext, Zenon
  <2>8. QED BY <2>3, <2>7
<1>5. CASE at[c] = "leaving" /\ MoveTo(c, "notifying")
             /\ in_flight' = [in_flight EXCEPT ![ProfileOf[c]] = @ - 1]
  <2>1. /\ c \in Holders(q) /\ Holders(q)' = Holders(q) \ {c}
        /\ \A p \in Profiles \ {q} : Holders(p)' = Holders(p)
        /\ Granted' = Granted
    BY <1>1, <1>5, LosesReservation
  <2>2. Cardinality(Holders(q) \ {c}) = Cardinality(Holders(q)) - 1
        /\ Cardinality(Holders(q)) > 0
    BY <1>1, <2>1, OneLess
  <2>3. in_flight'[q] = in_flight[q] - 1 /\ in_flight' \in [Profiles -> Nat]
    <3>1. in_flight[q] \in Nat /\ in_flight[q] > 0
      BY <1>1, <1>2, <2>2
    <3>2. in_flight[q] - 1 \in Nat
      BY <3>1
    <3>3. QED BY <1>1, <1>2, <1>5, <3>2
  <2>4. in_flight'[q] = Cardinality(Holders(q)')
    BY <1>1, <1>2, <2>1, <2>2, <2>3
  <2>5. ASSUME NEW p \in Profiles PROVE in_flight'[p] = Cardinality(Holders(p)')
    <3>1. CASE p = q BY <2>4, <3>1
    <3>2. CASE p # q
      <4>1. in_flight'[p] = Cardinality(Holders(p)) BY <1>2, <1>3, <3>2
      <4>2. Holders(p)' = Holders(p) BY <2>1, <3>2
      <4>3. QED BY <4>1, <4>2
    <3>3. QED BY <3>1, <3>2
  <2>6. free' = GlobalSlots - Cardinality(Granted')
    BY <1>2, <2>1
  <2>7. PermitsAccounted'
    BY <2>5, <2>6, AccountsNext, Zenon
  <2>8. QED BY <2>3, <2>7
<1>6. QED BY <1>4, <1>5

(* A call gets or returns a permit of the process.                         *)
LEMMA GlobalCounted ==
  ASSUME LimitInv, UNCHANGED in_flight, NEW c \in Calls,
         \/ /\ at[c] = "queued" /\ MoveTo(c, "granted")
            /\ free > 0 /\ free' = free - 1
         \/ /\ at[c] \in {"granted", "checking", "calling"} /\ MoveTo(c, "leaving")
            /\ free' = free + 1
  PROVE  PermitsAccounted' /\ free' \in 0 .. GlobalSlots
<1>1. TypeOK /\ Granted \in SUBSET Calls
  BY DEF LimitInv, Granted
<1>2. /\ free \in 0 .. GlobalSlots /\ GlobalSlots \in Nat
      /\ \A p \in Profiles : in_flight[p] = Cardinality(Holders(p))
      /\ free = GlobalSlots - Cardinality(Granted)
      /\ Cardinality(Granted) \in Nat
  BY <1>1, Accounts, ProfileLimitAssumption, CountedFinite DEF LimitInv, TypeOK
<1>3. CASE at[c] = "queued" /\ MoveTo(c, "granted") /\ free > 0 /\ free' = free - 1
  <2>1. /\ c \notin Granted /\ Granted' = Granted \cup {c}
        /\ \A p \in Profiles : Holders(p)' = Holders(p)
    BY <1>1, <1>3, GainsGlobal
  <2>2. Cardinality(Granted') = Cardinality(Granted) + 1
    BY <1>1, <2>1, OneMore
  <2>3. free' = GlobalSlots - Cardinality(Granted') /\ free' \in 0 .. GlobalSlots
    BY <1>2, <1>3, <2>2
  <2>4. QED BY <1>2, <2>1, <2>3, AccountsNext
<1>4. CASE at[c] \in {"granted", "checking", "calling"} /\ MoveTo(c, "leaving")
             /\ free' = free + 1
  <2>1. /\ c \in Granted /\ Granted' = Granted \ {c}
        /\ \A p \in Profiles : Holders(p)' = Holders(p)
    BY <1>1, <1>4, LosesGlobal
  <2>2. Cardinality(Granted') = Cardinality(Granted) - 1 /\ Cardinality(Granted) > 0
    BY <1>1, <2>1, OneLess
  <2>3. free' = GlobalSlots - Cardinality(Granted') /\ free' \in 0 .. GlobalSlots
    BY <1>2, <1>4, <2>2
  <2>4. QED BY <1>2, <2>1, <2>3, AccountsNext
<1>5. QED BY <1>3, <1>4

(* What Leave does, whichever step ends the call.                          *)
LEMMA LeaveLimitInv ==
  ASSUME LimitInv, NEW c \in Calls, NEW retry \in BOOLEAN, Leave(c, retry),
         at[c] \in {"granted", "checking", "calling"}
  PROVE  UNCHANGED maximum => LimitInv'
<1> USE DEF Leave, ReturnGlobal
<1>1. PermitsAccounted' /\ free' \in 0 .. GlobalSlots
  BY GlobalCounted
<1>2. LineIsQueue'
  BY LineStays DEF LimitInv, Places
<1>3. TypeOK'
  BY <1>1, ProfileLimitAssumption DEF LimitInv, TypeOK, MoveTo, Forget, Places
<1>4. QED BY <1>1, <1>2, <1>3 DEF LimitInv

LEMMA NextLimitInv == LimitInv /\ [Next]_vars => LimitInv'
<1> SUFFICES ASSUME LimitInv, [Next]_vars PROVE LimitInv'
  OBVIOUS
<1> USE ProfileLimitAssumption
<1>0. TypeOK /\ LineIsQueue /\ PermitsAccounted
  BY DEF LimitInv
<1>1. ASSUME NEW q \in Profiles, SetMaximum(q) PROVE LimitInv'
  <2>1. TypeOK'
    BY <1>0, <1>1 DEF TypeOK, SetMaximum, Allowed, gate
  <2>2. LineIsQueue'
    BY <1>0, <1>1 DEF SetMaximum, gate, LineIsQueue
  <2>3. (\A p \in Profiles : Holders(p)' = Holders(p)) /\ Granted' = Granted
    BY <1>1 DEF SetMaximum, Holders, Granted, HoldsProfile, HoldsGlobal
  <2>4. PermitsAccounted'
    BY <1>0, <1>1, <2>3, SameAccounts DEF SetMaximum, gate
  <2>5. QED BY <2>1, <2>2, <2>4 DEF LimitInv
<1>2. ASSUME NEW c \in Calls, Register(c) PROVE LimitInv'
  <2>1. LineIsQueue' /\ PermitsAccounted'
    BY <1>2, QuietMove DEF Register, Places
  <2>2. TypeOK'
    BY <1>0, <1>2 DEF TypeOK, Register, MoveTo, Listen, gate, Places
  <2>3. QED BY <2>1, <2>2 DEF LimitInv
<1>3. ASSUME NEW c \in Calls, ReadMaximum(c) PROVE LimitInv'
  <2>1. LineIsQueue' /\ PermitsAccounted'
    BY <1>3, QuietMove DEF ReadMaximum, Places
  <2>2. TypeOK'
    BY <1>0, <1>3 DEF TypeOK, ReadMaximum, MoveTo, gate, Places
  <2>3. QED BY <2>1, <2>2 DEF LimitInv
<1>4. ASSUME NEW c \in Calls, Reserve(c) PROVE LimitInv'
  <2>1. LineIsQueue' /\ line' \in Seq(Calls)
    BY <1>0, <1>4, LineGrows DEF Reserve
  <2>2. PermitsAccounted' /\ in_flight' \in [Profiles -> Nat]
    BY <1>4, ReservationCounted DEF Reserve
  <2>3. TypeOK'
    BY <1>0, <1>4, <2>1, <2>2 DEF TypeOK, Reserve, MoveTo, Listen, Forget, Places
  <2>4. QED BY <2>1, <2>2, <2>3 DEF LimitInv
<1>5. ASSUME NEW c \in Calls, FindFull(c) PROVE LimitInv'
  <2>1. LineIsQueue' /\ PermitsAccounted'
    BY <1>5, QuietMove DEF FindFull, Places
  <2>2. TypeOK'
    BY <1>0, <1>5 DEF TypeOK, FindFull, MoveTo, gate, Places
  <2>3. QED BY <2>1, <2>2 DEF LimitInv
<1>6. ASSUME NEW c \in Calls, Wait(c) PROVE LimitInv'
  <2>1. LineIsQueue' /\ PermitsAccounted'
    BY <1>6, QuietMove DEF Wait, Places
  <2>2. TypeOK'
    BY <1>0, <1>6 DEF TypeOK, Wait, MoveTo, Listen, gate, Places
  <2>3. QED BY <2>1, <2>2 DEF LimitInv
<1>7. ASSUME NEW c \in Calls, Wake(c) PROVE LimitInv'
  <2>1. LineIsQueue' /\ PermitsAccounted'
    BY <1>7, QuietMove DEF Wake, Places
  <2>2. TypeOK'
    BY <1>0, <1>7 DEF TypeOK, Wake, MoveTo, Listen, Forget, gate, Places
  <2>3. QED BY <2>1, <2>2 DEF LimitInv
<1>8. ASSUME NEW c \in Calls, Start(c) PROVE LimitInv'
  <2>1. LineIsQueue' /\ PermitsAccounted'
    BY <1>8, QuietMove DEF Start, Places
  <2>2. TypeOK'
    BY <1>0, <1>8 DEF TypeOK, Start, MoveTo, Forget, gate, Places
  <2>3. QED BY <2>1, <2>2 DEF LimitInv
<1>9. ASSUME GrantGlobal PROVE LimitInv'
  <2>1. /\ LineIsQueue' /\ line' \in Seq(Calls) /\ Head(line) \in Calls
        /\ at[Head(line)] = "queued"
    BY <1>0, <1>9, LineShrinks DEF GrantGlobal, Places
  <2>2. PermitsAccounted' /\ free' \in 0 .. GlobalSlots
    BY <1>9, <2>1, GlobalCounted DEF GrantGlobal
  <2>3. TypeOK'
    BY <1>0, <1>9, <2>1, <2>2 DEF TypeOK, GrantGlobal, MoveTo, Places
  <2>4. QED BY <2>1, <2>2, <2>3 DEF LimitInv
<1>10. ASSUME NEW c \in Calls, Reject(c) \/ Finish(c) \/ AbortGranted(c) PROVE LimitInv'
  BY <1>10, LeaveLimitInv DEF Reject, Finish, AbortGranted, Leave
<1>11. ASSUME NEW c \in Calls, AbortQueued(c) PROVE LimitInv'
  <2>1. PICK i \in DOMAIN line : line[i] = c /\ line' = RemoveAt(line, i)
    BY <1>11 DEF AbortQueued
  <2>2. LineIsQueue' /\ line' \in Seq(Calls)
    BY <1>0, <1>11, <2>1, LineSkips DEF AbortQueued, AfterQueue, Places
  <2>3. (\A p \in Profiles : Holders(p)' = Holders(p)) /\ Granted' = Granted
    BY <1>0, <1>11, KeepsPermits DEF AbortQueued, AfterQueue, Places
  <2>4. PermitsAccounted'
    BY <1>0, <1>11, <2>3, SameAccounts DEF AbortQueued
  <2>5. TypeOK'
    BY <1>0, <1>11, <2>2 DEF TypeOK, AbortQueued, AfterQueue, MoveTo, Places
  <2>6. QED BY <2>2, <2>4, <2>5 DEF LimitInv
<1>12. ASSUME NEW c \in Calls, AbortWaiting(c) PROVE LimitInv'
  <2>1. LineIsQueue' /\ PermitsAccounted'
    BY <1>12, QuietMove DEF AbortWaiting, Places
  <2>2. TypeOK'
    BY <1>0, <1>12 DEF TypeOK, AbortWaiting, MoveTo, Listen, Forget, gate, Places
  <2>3. QED BY <2>1, <2>2 DEF LimitInv
<1>13. ASSUME NEW c \in Calls, ReturnReservation(c) PROVE LimitInv'
  <2>1. LineIsQueue'
    BY <1>0, <1>13, LineStays DEF ReturnReservation, Places
  <2>2. PermitsAccounted' /\ in_flight' \in [Profiles -> Nat]
    BY <1>13, ReservationCounted DEF ReturnReservation
  <2>3. TypeOK'
    BY <1>0, <1>13, <2>2 DEF TypeOK, ReturnReservation, MoveTo, Places
  <2>4. QED BY <2>1, <2>2, <2>3 DEF LimitInv
<1>14. ASSUME NEW c \in Calls, NotifyWaiters(c) PROVE LimitInv'
  <2>1. LineIsQueue' /\ PermitsAccounted'
    BY <1>14, QuietMove DEF NotifyWaiters, Places
  <2>2. TypeOK'
    BY <1>0, <1>14 DEF TypeOK, NotifyWaiters, MoveTo, gate, Places, Registered
  <2>3. QED BY <2>1, <2>2 DEF LimitInv
<1>15. CASE UNCHANGED vars
  BY <1>0, <1>15 DEF vars, gate, LimitInv, TypeOK, LineIsQueue, PermitsAccounted,
                     HoldsProfile, HoldsGlobal
<1>16. QED
  BY <1>1, <1>2, <1>3, <1>4, <1>5, <1>6, <1>7, <1>8, <1>9, <1>10, <1>11, <1>12,
     <1>13, <1>14, <1>15
  DEF Next, Acquire, GiveBack, Abort

-----------------------------------------------------------------------------
(* Theorems                                                                *)

(* The invariant that the others rest on.                                  *)
THEOREM LimitInvariant == Spec => []LimitInv
BY InitLimitInv, NextLimitInv, PTL DEF Spec

(* Every value stays in its domain; in particular no counter of            *)
(* reservations, a usize in the code, wraps below zero, and the semaphore  *)
(* never holds more permits than it was made with.                         *)
THEOREM LimitTypeCorrect == Spec => []TypeOK
<1>1. LimitInv => TypeOK BY DEF LimitInv
<1>2. QED BY <1>1, LimitInvariant, PTL

(* Every permit of a profile and of the process is held by exactly one     *)
(* call, through grants, rejections and calls that are stopped.            *)
THEOREM PermitsConserved == Spec => []PermitsAccounted
<1>1. LimitInv => PermitsAccounted BY DEF LimitInv
<1>2. QED BY <1>1, LimitInvariant, PTL

(* Only Start makes a call run.                                            *)
LEMMA OnlyStartRuns ==
  ASSUME LimitInv, [Next]_vars, NEW d \in Calls, at[d] # "calling", at'[d] = "calling"
  PROVE  Start(d)
<1> USE DEF MoveTo
<1>0. at \in [Calls -> Places] /\ line \in Seq(Calls)
  BY DEF LimitInv, TypeOK
<1>1. ASSUME NEW c \in Calls, Start(c) PROVE Start(d)
  BY <1>0, <1>1 DEF Start
<1>2. ASSUME NEW c \in Calls, Register(c) \/ ReadMaximum(c) \/ Reserve(c) \/ FindFull(c)
                              \/ Wait(c) \/ Wake(c)
      PROVE FALSE
  BY <1>0, <1>2 DEF Register, ReadMaximum, Reserve, FindFull, Wait, Wake
<1>3. ASSUME NEW c \in Calls, GiveBack(c) \/ Abort(c) PROVE FALSE
  BY <1>0, <1>3 DEF GiveBack, Abort, Reject, Finish, Leave, ReturnReservation,
                    NotifyWaiters, AbortGranted, AbortQueued, AfterQueue, AbortWaiting
<1>4. CASE GrantGlobal
  BY <1>0, <1>4 DEF GrantGlobal
<1>5. CASE (\E p \in Profiles : SetMaximum(p)) \/ UNCHANGED vars
  BY <1>5 DEF SetMaximum, vars
<1>6. QED
  BY <1>1, <1>2, <1>3, <1>4, <1>5 DEF Next, Acquire

LEMMA StartStep ==
  ASSUME LimitInv, [Next]_vars, NEW c \in Calls, at[c] # "calling", at'[c] = "calling"
  PROVE  Cardinality(Running(ProfileOf[c])') <= seen[c]
<1> DEFINE p == ProfileOf[c]
<1>1. Start(c) BY OnlyStartRuns
<1>2. p \in Profiles /\ at \in [Calls -> Places] /\ seen[c] \in Nat
      /\ in_flight[p] \in Nat
  BY ProfileLimitAssumption DEF LimitInv, TypeOK
<1>3. in_flight[p] = Cardinality(Holders(p)) /\ in_flight[p] <= seen[c]
  BY <1>1, <1>2, Accounts DEF LimitInv, Start, MayStart
<1>4. Running(p)' \subseteq Holders(p) /\ Holders(p) \subseteq Calls
  BY <1>1, <1>2 DEF Start, MoveTo, Running, Holders, HoldsProfile
<1>5. Cardinality(Running(p)') <= Cardinality(Holders(p))
      /\ Cardinality(Running(p)') \in Nat
  BY <1>4, CountedFinite, FS_Subset
<1>6. QED BY <1>2, <1>3, <1>5

(* A call starts only if the calls of its profile that then run fit the    *)
(* limit it read after it had got its global slot.                         *)
THEOREM LowerLimitDrains == Spec => StartsWithinLimit
<1>1. LimitInv /\ [Next]_vars =>
        [\A c \in Calls : at[c] # "calling" /\ at'[c] = "calling" =>
           Cardinality(Running(ProfileOf[c])') <= seen[c]]_vars
  BY StartStep
<1>2. QED
  BY <1>1, LimitInvariant, PTL DEF Spec, StartsWithinLimit

(* ReleaseNotMissed from the moment the profile was found full.            *)
Heard ==
  \A c \in Calls : at[c] \in {"full", "waiting"} /\ ~notified[c] =>
     \/ in_flight[ProfileOf[c]] >= seen[c]
     \/ \E d \in Calls : ProfileOf[d] = ProfileOf[c] /\ at[d] = "notifying"

(* A step of one call that does not end an announcement and takes no       *)
(* reservation away changes nothing for the others.                        *)
LEMMA OthersStillHear ==
  ASSUME LimitInv, Heard, NEW x \in Calls, NEW place \in Places, MoveTo(x, place),
         at[x] # "notifying",
         \A p \in Profiles : in_flight'[p] \in Int /\ in_flight'[p] >= in_flight[p],
         \A c \in Calls \ {x} : seen'[c] = seen[c] /\ notified'[c] = notified[c],
         place \in {"full", "waiting"} /\ ~notified'[x] =>
            in_flight'[ProfileOf[x]] >= seen'[x]
            \/ \E d \in Calls \ {x} : ProfileOf[d] = ProfileOf[x] /\ at[d] = "notifying"
  PROVE  Heard'
<1>1. /\ at \in [Calls -> Places] /\ in_flight \in [Profiles -> Nat]
      /\ seen \in [Calls -> Nat] /\ ProfileOf \in [Calls -> Profiles]
  BY ProfileLimitAssumption DEF LimitInv, TypeOK
<1>2. at'[x] = place /\ \A c \in Calls \ {x} : at'[c] = at[c]
  BY <1>1 DEF MoveTo
<1>3. \A d \in Calls : at[d] = "notifying" => at'[d] = "notifying"
  BY <1>2
<1>4. SUFFICES ASSUME NEW c \in Calls, at'[c] \in {"full", "waiting"}, ~notified'[c]
               PROVE  \/ in_flight'[ProfileOf[c]] >= seen'[c]
                      \/ \E d \in Calls : ProfileOf[d] = ProfileOf[c] /\ at'[d] = "notifying"
  BY DEF Heard
<1>5. CASE c = x
  <2>1. place \in {"full", "waiting"} /\ ~notified'[x]
    BY <1>2, <1>4, <1>5
  <2>2. CASE in_flight'[ProfileOf[x]] >= seen'[x]
    BY <1>5, <2>2
  <2>3. CASE \E d \in Calls \ {x} : ProfileOf[d] = ProfileOf[x] /\ at[d] = "notifying"
    BY <1>3, <1>5, <2>3
  <2>4. QED BY <2>1, <2>2, <2>3
<1>6. CASE c # x
  <2>1. \/ in_flight[ProfileOf[c]] >= seen[c]
        \/ \E d \in Calls : ProfileOf[d] = ProfileOf[c] /\ at[d] = "notifying"
    BY <1>2, <1>4, <1>6 DEF Heard
  <2>2. CASE in_flight[ProfileOf[c]] >= seen[c]
    <3>1. /\ in_flight[ProfileOf[c]] \in Nat /\ seen[c] \in Nat /\ seen'[c] = seen[c]
          /\ in_flight'[ProfileOf[c]] \in Int
          /\ in_flight'[ProfileOf[c]] >= in_flight[ProfileOf[c]]
      BY <1>1, <1>6
    <3>2. QED BY <2>2, <3>1
  <2>3. QED BY <1>3, <2>1, <2>2
<1>7. QED BY <1>5, <1>6

LEMMA NextHeard == LimitInv /\ Heard /\ [Next]_vars => Heard'
<1> SUFFICES ASSUME LimitInv, Heard, [Next]_vars PROVE Heard'
  OBVIOUS
<1> USE ProfileLimitAssumption
<1>0. /\ at \in [Calls -> Places] /\ in_flight \in [Profiles -> Nat]
      /\ seen \in [Calls -> Nat] /\ ProfileOf \in [Calls -> Profiles]
      /\ notified \in [Calls -> BOOLEAN] /\ line \in Seq(Calls)
  BY DEF LimitInv, TypeOK
<1>1. ASSUME NEW c \in Calls,
             Register(c) \/ ReadMaximum(c) \/ Wake(c) \/ Start(c) \/ AbortWaiting(c)
      PROVE  Heard'
  <2>1. PICK place \in Places \ {"full", "waiting"} : MoveTo(c, place)
    BY <1>1 DEF Register, ReadMaximum, Wake, Start, AbortWaiting, Places
  <2>2. /\ at[c] # "notifying" /\ in_flight' = in_flight
        /\ \A d \in Calls \ {c} : seen'[d] = seen[d] /\ notified'[d] = notified[d]
    BY <1>0, <1>1 DEF Register, ReadMaximum, Wake, Start, AbortWaiting, gate, Listen, Forget
  <2>3. \A p \in Profiles : in_flight'[p] \in Int /\ in_flight'[p] >= in_flight[p]
    BY <1>0, <2>2
  <2>4. QED BY <2>1, <2>2, <2>3, OthersStillHear
<1>2. ASSUME NEW c \in Calls, Reject(c) \/ Finish(c) \/ AbortGranted(c) \/ AbortQueued(c)
      PROVE  Heard'
  <2>1. /\ MoveTo(c, "leaving") /\ at[c] # "notifying" /\ in_flight' = in_flight
        /\ \A d \in Calls \ {c} : seen'[d] = seen[d] /\ notified'[d] = notified[d]
    BY <1>0, <1>2 DEF Reject, Finish, AbortGranted, AbortQueued, AfterQueue, Leave, Forget
  <2>2. "leaving" \in Places \ {"full", "waiting"}
    BY DEF Places
  <2>3. \A p \in Profiles : in_flight'[p] \in Int /\ in_flight'[p] >= in_flight[p]
    BY <1>0, <2>1
  <2>4. QED BY <2>1, <2>2, <2>3, OthersStillHear
<1>3. ASSUME NEW c \in Calls, Reserve(c) PROVE Heard'
  <2>1. /\ MoveTo(c, "queued") /\ at[c] # "notifying"
        /\ \A p \in Profiles : in_flight'[p] \in Int /\ in_flight'[p] >= in_flight[p]
        /\ \A d \in Calls \ {c} : seen'[d] = seen[d] /\ notified'[d] = notified[d]
    BY <1>0, <1>3 DEF Reserve, Listen, Forget
  <2>2. QED BY <2>1, OthersStillHear DEF Places
<1>4. ASSUME NEW c \in Calls, FindFull(c) PROVE Heard'
  <2>1. /\ MoveTo(c, "full") /\ at[c] # "notifying" /\ in_flight' = in_flight
        /\ seen' = seen /\ notified' = notified
        /\ in_flight'[ProfileOf[c]] >= seen'[c]
    BY <1>0, <1>4 DEF FindFull, gate
  <2>2. \A p \in Profiles : in_flight'[p] \in Int /\ in_flight'[p] >= in_flight[p]
    BY <1>0, <2>1
  <2>3. "full" \in Places /\ \A d \in Calls \ {c} : seen'[d] = seen[d] /\ notified'[d] = notified[d]
    BY <2>1 DEF Places
  <2>4. QED BY <2>1, <2>2, <2>3, OthersStillHear
<1>5. ASSUME NEW c \in Calls, Wait(c) PROVE Heard'
  <2>1. /\ MoveTo(c, "waiting") /\ at[c] = "full" /\ in_flight' = in_flight
        /\ seen' = seen /\ notified'[c] = notified[c]
        /\ \A d \in Calls \ {c} : notified'[d] = notified[d]
    BY <1>0, <1>5 DEF Wait, gate, Listen
  <2>2. ~notified'[c] =>
           in_flight'[ProfileOf[c]] >= seen'[c]
           \/ \E d \in Calls \ {c} : ProfileOf[d] = ProfileOf[c] /\ at[d] = "notifying"
    BY <2>1 DEF Heard
  <2>3. \A p \in Profiles : in_flight'[p] \in Int /\ in_flight'[p] >= in_flight[p]
    BY <1>0, <2>1
  <2>4. \A d \in Calls \ {c} : seen'[d] = seen[d] /\ notified'[d] = notified[d]
    BY <2>1
  <2>5. QED BY <2>1, <2>2, <2>3, <2>4, OthersStillHear DEF Places
<1>6. ASSUME GrantGlobal PROVE Heard'
  <2>1. /\ MoveTo(Head(line), "granted") /\ in_flight' = in_flight
        /\ seen' = seen /\ notified' = notified
    BY <1>6 DEF GrantGlobal
  <2>2. Head(line) \in Calls /\ at[Head(line)] = "queued"
    BY <1>0, <1>6 DEF GrantGlobal, LimitInv, LineIsQueue
  <2>3. \A p \in Profiles : in_flight'[p] \in Int /\ in_flight'[p] >= in_flight[p]
    BY <1>0, <2>1
  <2>4. \A d \in Calls \ {Head(line)} : seen'[d] = seen[d] /\ notified'[d] = notified[d]
    BY <2>1
  <2>5. QED BY <2>1, <2>2, <2>3, <2>4, OthersStillHear DEF Places
<1>7. ASSUME NEW c \in Calls, ReturnReservation(c) PROVE Heard'
  <2>1. /\ at'[c] = "notifying" /\ seen' = seen /\ notified' = notified
        /\ \A d \in Calls \ {c} : at'[d] = at[d]
        /\ \A p \in Profiles \ {ProfileOf[c]} : in_flight'[p] = in_flight[p]
    BY <1>0, <1>7 DEF ReturnReservation, MoveTo
  <2>2. SUFFICES ASSUME NEW d \in Calls, at'[d] \in {"full", "waiting"}, ~notified'[d]
                 PROVE  \/ in_flight'[ProfileOf[d]] >= seen'[d]
                        \/ \E e \in Calls : ProfileOf[e] = ProfileOf[d] /\ at'[e] = "notifying"
    BY DEF Heard
  <2>3. CASE ProfileOf[d] = ProfileOf[c]
    BY <2>1, <2>3
  <2>4. CASE ProfileOf[d] # ProfileOf[c]
    <3>1. \/ in_flight[ProfileOf[d]] >= seen[d]
          \/ \E e \in Calls : ProfileOf[e] = ProfileOf[d] /\ at[e] = "notifying"
      BY <2>1, <2>2 DEF Heard
    <3>2. in_flight'[ProfileOf[d]] = in_flight[ProfileOf[d]]
      BY <1>0, <2>1, <2>4
    <3>3. QED BY <2>1, <3>1, <3>2
  <2>5. QED BY <2>3, <2>4
<1>8. ASSUME NEW c \in Calls, NotifyWaiters(c) PROVE Heard'
  <2>1. /\ at'[c] \notin {"full", "waiting"} /\ seen' = seen /\ in_flight' = in_flight
        /\ at[c] = "notifying"
        /\ \A d \in Calls \ {c} : at'[d] = at[d]
        /\ \A d \in Calls : notified'[d] = (notified[d] \/
                               (ProfileOf[d] = ProfileOf[c] /\ Registered(d)))
    BY <1>0, <1>8 DEF NotifyWaiters, MoveTo, gate
  <2>2. SUFFICES ASSUME NEW d \in Calls, at'[d] \in {"full", "waiting"}, ~notified'[d]
                 PROVE  \/ in_flight'[ProfileOf[d]] >= seen'[d]
                        \/ \E e \in Calls : ProfileOf[e] = ProfileOf[d] /\ at'[e] = "notifying"
    BY DEF Heard
  <2>3. d # c /\ at[d] \in {"full", "waiting"} /\ ~notified[d]
        /\ ProfileOf[d] # ProfileOf[c]
    BY <2>1, <2>2 DEF Registered
  <2>4. \/ in_flight[ProfileOf[d]] >= seen[d]
        \/ \E e \in Calls : ProfileOf[e] = ProfileOf[d] /\ at[e] = "notifying"
    BY <2>3 DEF Heard
  <2>5. QED BY <2>1, <2>3, <2>4
<1>9. CASE (\E p \in Profiles : SetMaximum(p)) \/ UNCHANGED vars
  BY <1>9 DEF SetMaximum, vars, gate, Heard
<1>10. QED
  BY <1>1, <1>2, <1>3, <1>4, <1>5, <1>6, <1>7, <1>8, <1>9
  DEF Next, Acquire, GiveBack, Abort

(* A call that goes to sleep has missed no release of its profile, whatever *)
(* happened between its reading of the maximum and its falling asleep.     *)
THEOREM NoReleaseMissed == Spec => []ReleaseNotMissed
<1>1. Init => Heard
  BY DEF Init, Heard
<1>2. Heard => ReleaseNotMissed
  BY DEF Heard, ReleaseNotMissed
<1>3. QED
  BY <1>1, <1>2, NextHeard, LimitInvariant, PTL DEF Spec

=============================================================================

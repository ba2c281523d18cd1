-------------------------- MODULE SourceTextProofs --------------------------
(***************************************************************************)
(* Theorems about SourceText for any files.                                *)
(*                                                                         *)
(* BuildDocumentLays: where the lines of a file stand in the text that     *)
(* build_document makes of them, and which segment of the source map each  *)
(* has.  PlacesCompare: what the paragraphs and sentences of two positions *)
(* say of the text between them.  ExtractedIsSeen: what extraction returns *)
(* reads as what a reader sees of the file.                                *)
(***************************************************************************)
EXTENDS SourceText, FiniteSetTheorems, SequenceTheorems, WellFoundedInduction, TLAPS

-----------------------------------------------------------------------------
(* Least and greatest numbers                                              *)

LEMMA LeastNumber ==
  ASSUME NEW T \in SUBSET Nat, T # {}
  PROVE  \E m \in T : \A n \in T : m <= n
<1> DEFINE R == OpToRel(<, Nat)
<1>1. IsWellFoundedOn(R, Nat)
  BY NatLessThanWellFounded
<1>2. \A m, n \in Nat : n < m => <<n, m>> \in R
  BY DEF OpToRel
<1> HIDE DEF R
<1>3. PICK m \in T : \A n \in T : ~(<<n, m>> \in R)
  BY <1>1, WFMin
<1>4. \A n \in T : ~(n < m)
  BY <1>2, <1>3
<1> QED
  BY <1>4

LEMMA MinIsLeast ==
  ASSUME NEW T \in SUBSET Nat, T # {}
  PROVE  Min(T) \in T /\ \A n \in T : Min(T) <= n
BY LeastNumber DEF Min

LEMMA MaxIsGreatest ==
  ASSUME NEW T \in SUBSET Nat, NEW k \in T, NEW bound \in Nat, \A n \in T : n <= bound
  PROVE  Max(T) \in T /\ \A n \in T : n <= Max(T)
<1> DEFINE above == {m \in Nat : \A n \in T : n <= m}
<1>1. PICK m \in above : \A n \in above : m <= n
  <2>1. bound \in above
    OBVIOUS
  <2> HIDE DEF above
  <2>2. above \in SUBSET Nat
    BY DEF above
  <2> QED
    BY <2>1, <2>2, LeastNumber
<1>2. m \in T
  <2> SUFFICES ASSUME m \notin T PROVE FALSE
    OBVIOUS
  <2>1. \A n \in T : n <= m - 1
    BY <1>1
  <2>2. m - 1 \in above
    BY <1>1, <2>1
  <2> QED
    BY <1>1, <2>2
<1>3. \E x \in T : \A y \in T : x >= y
  BY <1>1, <1>2
<1> QED
  BY <1>3 DEF Max
-----------------------------------------------------------------------------
(* Paragraphs                                                              *)

(* A part of a text is blank if its characters are.                        *)
BlankIn(content, start, end) == \A k \in start .. end - 1 : content[k + 1] \in White

LEMMA BlankPart ==
  ASSUME NEW content \in Seq(Int), NEW start \in Nat, NEW end \in Nat, end <= Len(content)
  PROVE  Blank(Sub(content, start, end)) <=> BlankIn(content, start, end)
<1>1. \A i \in start + 1 .. end : content[i] \in Int
  OBVIOUS
<1> DEFINE part == SubSeq(content, start + 1, end)
<1>2. /\ part \in Seq(Int)
      /\ Len(part) = IF start < end THEN end - start ELSE 0
      /\ \A i \in 1 .. end - start : part[i] = content[start + i]
  <2>1. /\ part \in Seq(Int)
        /\ Len(part) = IF start + 1 <= end THEN end - (start + 1) + 1 ELSE 0
        /\ \A i \in 1 .. end - (start + 1) + 1 : part[i] = content[start + 1 + i - 1]
    <3> DEFINE from == start + 1
    <3>1. from \in Int /\ end \in Int /\ \A i \in from .. end : content[i] \in Int
      BY <1>1
    <3> HIDE DEF from
    <3>2. /\ SubSeq(content, from, end) \in Seq(Int)
          /\ Len(SubSeq(content, from, end)) = IF from <= end THEN end - from + 1 ELSE 0
          /\ \A i \in 1 .. end - from + 1 : SubSeq(content, from, end)[i] = content[from + i - 1]
      BY <3>1, SubSeqProperties
    <3> QED
      BY <3>2 DEF from
  <2>2. end - (start + 1) + 1 = end - start /\ \A i \in 1 .. end - start : start + 1 + i - 1 = start + i
    OBVIOUS
  <2>3. start + 1 <= end <=> start < end
    OBVIOUS
  <2> HIDE DEF part
  <2> QED
    BY <2>1, <2>2, <2>3
<1>3. Sub(content, start, end) = part
  BY DEF Sub
<1> HIDE DEF part
<1>4. DOMAIN part = 1 .. Len(part)
  BY <1>2
<1>5. CASE start < end
  <2>1. DOMAIN part = 1 .. end - start
    BY <1>2, <1>4, <1>5
  <2>2. ASSUME Blank(part), NEW k \in start .. end - 1 PROVE content[k + 1] \in White
    <3>1. k - start + 1 \in 1 .. end - start /\ start + (k - start + 1) = k + 1
      OBVIOUS
    <3>2. part[k - start + 1] = content[k + 1]
      BY <1>2, <3>1
    <3> QED
      BY <2>1, <2>2, <3>1, <3>2 DEF Blank
  <2>3. ASSUME BlankIn(content, start, end), NEW i \in 1 .. end - start PROVE part[i] \in White
    <3>1. start + i - 1 \in start .. end - 1 /\ (start + i - 1) + 1 = start + i
      OBVIOUS
    <3> QED
      BY <1>2, <2>3, <3>1 DEF BlankIn
  <2> QED
    BY <1>3, <2>1, <2>2, <2>3 DEF Blank, BlankIn
<1>6. CASE ~(start < end)
  <2>1. DOMAIN part = {}
    BY <1>2, <1>4, <1>6
  <2> QED
    BY <1>3, <1>6, <2>1 DEF Blank, BlankIn
<1> QED
  BY <1>5, <1>6

LEMMA SubItems ==
  ASSUME NEW content \in Seq(Int), NEW a \in Nat, NEW b \in Nat, a <= b, b <= Len(content)
  PROVE  /\ Sub(content, a, b) \in Seq(Int) /\ Len(Sub(content, a, b)) = b - a
         /\ \A i \in 1 .. b - a : Sub(content, a, b)[i] = content[a + i]
<1>1. \A i \in a + 1 .. b : content[i] \in Int
  OBVIOUS
<1>2. /\ SubSeq(content, a + 1, b) \in Seq(Int)
      /\ Len(SubSeq(content, a + 1, b)) = IF a + 1 <= b THEN b - (a + 1) + 1 ELSE 0
      /\ \A i \in 1 .. b - (a + 1) + 1 : SubSeq(content, a + 1, b)[i] = content[a + 1 + i - 1]
  <2> DEFINE first == a + 1
  <2>1. first \in Int /\ b \in Int /\ \A i \in first .. b : content[i] \in Int
    BY <1>1
  <2> HIDE DEF first
  <2>2. /\ SubSeq(content, first, b) \in Seq(Int)
        /\ Len(SubSeq(content, first, b)) = IF first <= b THEN b - first + 1 ELSE 0
        /\ \A i \in 1 .. b - first + 1 : SubSeq(content, first, b)[i] = content[first + i - 1]
    BY <2>1, SubSeqProperties
  <2> QED
    BY <2>2 DEF first
<1> DEFINE part == SubSeq(content, a + 1, b)
<1>3. b - (a + 1) + 1 = b - a /\ \A i \in 1 .. b - a : a + 1 + i - 1 = a + i
  OBVIOUS
<1>4. (IF a + 1 <= b THEN b - a ELSE 0) = b - a
  OBVIOUS
<1>5. Sub(content, a, b) = part
  BY DEF Sub
<1> HIDE DEF part
<1>6. part \in Seq(Int) /\ Len(part) = b - a /\ \A i \in 1 .. b - a : part[i] = content[a + i]
  BY <1>2, <1>3, <1>4 DEF part
<1> QED
  BY <1>5, <1>6

LEMMA SameItems ==
  ASSUME NEW s \in Seq(Int), NEW t \in Seq(Int), Len(s) = Len(t),
         \A i \in 1 .. Len(s) : s[i] = t[i]
  PROVE  s = t
OBVIOUS

Associates(S) == \A s, t, u \in Seq(S) : (s \o t) \o u = s \o (t \o u)

LEMMA PartsAssociate == ASSUME NEW S PROVE Associates(S)
BY ConcatAssociative DEF Associates

-----------------------------------------------------------------------------
(* Recursion over the numbers up to a bound                                *)

LEMMA UpTo ==
  ASSUME NEW N \in Nat, NEW T, 0 \in T, \A n \in 1 .. N : n - 1 \in T => n \in T
  PROVE  \A n \in 0 .. N : n \in T
<1> DEFINE bad == (0 .. N) \ T
<1> SUFFICES ASSUME bad # {} PROVE FALSE
  OBVIOUS
<1>1. PICK m \in bad : \A n \in bad : m <= n
  <2>1. bad \in SUBSET Nat
    OBVIOUS
  <2> HIDE DEF bad
  <2> QED
    BY <2>1, LeastNumber
<1>2. m \in 1 .. N /\ m - 1 \in 0 .. N
  OBVIOUS
<1>3. m - 1 \in T
  BY <1>1, <1>2
<1> QED
  BY <1>1, <1>2, <1>3

(* f is built from base, by one step for each number.                      *)
Iterates(f, N, S, base, step) ==
  f \in [0 .. N -> S] /\ f[0] = base /\ \A n \in 1 .. N : f[n] = step[n][f[n - 1]]

LEMMA Recursion ==
  ASSUME NEW N \in Nat, NEW S, NEW base \in S, NEW step \in [1 .. N -> [S -> S]]
  PROVE  \E f : Iterates(f, N, S, base, step)
<1> DEFINE Good(f, n) == f[0] = base /\ \A k \in 1 .. n : f[k] = step[k][f[k - 1]]
           T == {n \in 0 .. N : \E f \in [0 .. n -> S] : Good(f, n)}
<1>1. 0 \in T
  <2> DEFINE f == [k \in 0 .. 0 |-> base]
  <2>1. 1 .. 0 = {} /\ f[0] = base
    OBVIOUS
  <2>2. f \in [0 .. 0 -> S] /\ Good(f, 0)
    BY <2>1
  <2> HIDE DEF f
  <2>3. \E g \in [0 .. 0 -> S] : Good(g, 0)
    BY <2>2
  <2> QED
    BY <2>3
<1>2. ASSUME NEW n \in 1 .. N, n - 1 \in T PROVE n \in T
  <2>1. PICK f \in [0 .. n - 1 -> S] : Good(f, n - 1)
    BY <1>2
  <2> DEFINE g == [k \in 0 .. n |-> IF k = n THEN step[n][f[n - 1]] ELSE f[k]]
  <2>2. n - 1 \in 0 .. n - 1 /\ f[n - 1] \in S /\ step[n] \in [S -> S]
    OBVIOUS
  <2>3. step[n][f[n - 1]] \in S
    BY <2>2
  <2>4. g \in [0 .. n -> S]
    BY <2>3
  <2>5. \A k \in 0 .. n - 1 : g[k] = f[k]
    OBVIOUS
  <2>6. g[n] = step[n][f[n - 1]]
    OBVIOUS
  <2> HIDE DEF g
  <2>7. Good(g, n)
    <3>1. g[0] = base
      BY <2>1, <2>5
    <3>2. ASSUME NEW k \in 1 .. n PROVE g[k] = step[k][g[k - 1]]
      <4>1. k - 1 \in 0 .. n - 1
        OBVIOUS
      <4>2. g[k - 1] = f[k - 1]
        BY <2>5, <4>1
      <4>3. k = n \/ k \in 1 .. n - 1
        OBVIOUS
      <4> QED
        BY <2>1, <2>5, <2>6, <4>2, <4>3
    <3> QED
      BY <3>1, <3>2
  <2> QED
    BY <2>4, <2>7
<1> HIDE DEF T
<1>3. \A n \in 0 .. N : n \in T
  BY <1>1, <1>2, UpTo, Zenon
<1>4. N \in T
  BY <1>3
<1> QED
  BY <1>4 DEF T, Iterates

-----------------------------------------------------------------------------
(* The numbers of a set in ascending order                                 *)

Ascends(list, S) ==
  /\ list \in Seq(S)
  /\ \A i, j \in 1 .. Len(list) : i < j => list[i] < list[j]
  /\ \A k \in S : \E i \in 1 .. Len(list) : list[i] = k

LEMMA AscendsMore ==
  ASSUME NEW S \in SUBSET Nat, NEW list, Ascends(list, S), NEW k \in Nat, \A n \in S : n < k
  PROVE  Ascends(Append(list, k), S \cup {k})
<1> DEFINE more == Append(list, k)
<1>1. list \in Seq(S \cup {k}) /\ k \in S \cup {k} /\ Len(list) \in Nat
  BY DEF Ascends
<1>2. /\ more \in Seq(S \cup {k}) /\ Len(more) = Len(list) + 1
      /\ \A i \in 1 .. Len(list) : more[i] = list[i]
      /\ more[Len(list) + 1] = k
  BY <1>1, AppendProperties
<1>3. \A i \in 1 .. Len(list) : list[i] \in S
  BY DEF Ascends
<1> HIDE DEF more
<1>4. ASSUME NEW i \in 1 .. Len(more), NEW j \in 1 .. Len(more), i < j
      PROVE  more[i] < more[j]
  <2>1. i \in 1 .. Len(list)
    BY <1>1, <1>2, <1>4
  <2>2. CASE j \in 1 .. Len(list)
    BY <1>2, <1>4, <2>1, <2>2 DEF Ascends
  <2>3. CASE j = Len(list) + 1
    BY <1>2, <1>3, <2>1, <2>3
  <2> QED
    BY <1>1, <1>2, <2>2, <2>3
<1>5. ASSUME NEW n \in S \cup {k} PROVE \E i \in 1 .. Len(more) : more[i] = n
  <2>1. CASE n \in S
    <3>1. PICK i \in 1 .. Len(list) : list[i] = n
      BY <2>1 DEF Ascends
    <3> QED
      BY <1>1, <1>2, <3>1
  <2>2. CASE n = k
    BY <1>1, <1>2, <2>2
  <2> QED
    BY <2>1, <2>2
<1> QED
  BY <1>2, <1>4, <1>5 DEF Ascends, more

LEMMA AscendingAscends ==
  ASSUME NEW S \in SUBSET Nat, NEW bound \in Nat, \A k \in S : k <= bound
  PROVE  Ascends(Ascending(S), S)
<1> DEFINE top == Max(S \cup {0})
           N   == top + 1
           Is(f) == f = [n \in 0 .. N |->
                          IF n = 0 THEN <<>>
                          ELSE IF n - 1 \in S THEN Append(f[n - 1], n - 1) ELSE f[n - 1]]
           step == [n \in 1 .. N |-> [list \in Seq(Nat) |->
                      IF n - 1 \in S THEN Append(list, n - 1) ELSE list]]
<1>1. N \in Nat /\ \A k \in S : k \in Nat /\ k < N
  <2>1. S \cup {0} \in SUBSET Nat /\ 0 \in S \cup {0} /\ \A k \in S \cup {0} : k <= bound
    OBVIOUS
  <2>2. top \in S \cup {0} /\ \A k \in S \cup {0} : k <= top
    BY <2>1, MaxIsGreatest
  <2>3. top \in Nat /\ \A k \in S : k \in Nat /\ k <= top
    BY <2>1, <2>2
  <2> HIDE DEF top
  <2> QED
    BY <2>3
<1>2. Ascending(S) = (CHOOSE f : Is(f))[N]
  BY DEF Ascending
<1> HIDE DEF top, N
<1>3. \E f : Is(f)
  <2>1. step \in [1 .. N -> [Seq(Nat) -> Seq(Nat)]]
    <3> SUFFICES ASSUME NEW n \in 1 .. N, NEW list \in Seq(Nat)
                 PROVE  (IF n - 1 \in S THEN Append(list, n - 1) ELSE list) \in Seq(Nat)
      OBVIOUS
    <3>1. n - 1 \in Nat
      BY <1>1
    <3> QED
      BY <3>1, AppendProperties
  <2> DEFINE base == <<>>
             lists == Seq(Nat)
  <2>2. base \in lists
    OBVIOUS
  <2>3. \A n \in 1 .. N : \A list \in lists :
          step[n][list] = IF n - 1 \in S THEN Append(list, n - 1) ELSE list
    OBVIOUS
  <2>4. step \in [1 .. N -> [lists -> lists]] /\ N \in Nat
    BY <1>1, <2>1
  <2> HIDE DEF step, base, lists
  <2>5. PICK f : Iterates(f, N, lists, base, step)
    BY <2>2, <2>4, Recursion
  <2>6. \A n \in 0 .. N : f[n] = IF n = 0 THEN base
                                 ELSE IF n - 1 \in S THEN Append(f[n - 1], n - 1) ELSE f[n - 1]
    <3> TAKE n \in 0 .. N
    <3>1. n = 0 \/ (n \in 1 .. N /\ n - 1 \in 0 .. N /\ n # 0)
      BY <1>1
    <3> QED
      BY <2>3, <2>5, <3>1, ZenonT(40) DEF Iterates
  <2>7. f = [n \in 0 .. N |-> f[n]]
    BY <2>5 DEF Iterates
  <2> QED
    BY <2>6, <2>7, Zenon DEF base
<1> DEFINE below == CHOOSE f : Is(f)
<1>4. Is(below)
  BY <1>3, Zenon
<1> HIDE DEF below
<1>5. /\ below[0] = <<>>
      /\ \A n \in 1 .. N : below[n] = IF n - 1 \in S THEN Append(below[n - 1], n - 1)
                                                     ELSE below[n - 1]
  <2>1. \A n \in 0 .. N :
          below[n] = IF n = 0 THEN <<>>
                     ELSE IF n - 1 \in S THEN Append(below[n - 1], n - 1) ELSE below[n - 1]
    BY <1>4
  <2>2. 0 \in 0 .. N /\ \A n \in 1 .. N : n \in 0 .. N /\ n # 0
    BY <1>1
  <2> QED
    BY <2>1, <2>2
<1> DEFINE first(n) == {k \in S : k < n}
           T == {n \in 0 .. N : Ascends(below[n], first(n))}
<1>6. 0 \in T
  <2>1. first(0) = {}
    <3>1. \A k \in S : ~(k < 0)
      BY <1>1
    <3> QED
      BY <3>1
  <2>2. Ascends(<<>>, {})
    BY DEF Ascends
  <2>3. 0 \in 0 .. N
    BY <1>1
  <2> HIDE DEF first
  <2> QED
    BY <1>5, <2>1, <2>2, <2>3
<1>7. ASSUME NEW n \in 1 .. N, n - 1 \in T PROVE n \in T
  <2>1. Ascends(below[n - 1], first(n - 1)) /\ n - 1 \in Nat /\ n \in 0 .. N
    BY <1>1, <1>7
  <2>2. \A k \in S : k < n <=> k < n - 1 \/ k = n - 1
    BY <1>1, <2>1
  <2>3. CASE n - 1 \in S
    <3>1. first(n) = first(n - 1) \cup {n - 1}
      BY <2>2, <2>3
    <3>2. below[n] = Append(below[n - 1], n - 1)
      BY <1>5, <2>3
    <3>3. first(n - 1) \in SUBSET Nat /\ \A k \in first(n - 1) : k < n - 1
      BY <1>1
    <3> HIDE DEF first
    <3>4. Ascends(Append(below[n - 1], n - 1), first(n - 1) \cup {n - 1})
      BY <2>1, <3>3, AscendsMore
    <3> QED
      BY <2>1, <3>1, <3>2, <3>4
  <2>4. CASE n - 1 \notin S
    <3>1. first(n) = first(n - 1)
      BY <2>2, <2>4
    <3>2. below[n] = below[n - 1]
      BY <1>5, <2>4
    <3> HIDE DEF first
    <3> QED
      BY <2>1, <3>1, <3>2
  <2> QED
    BY <2>3, <2>4
<1>8. N \in T
  <2> HIDE DEF T
  <2>1. N \in Nat
    BY <1>1
  <2>2. \A n \in 0 .. N : n \in T
    BY <1>6, <1>7, <2>1, UpTo, Zenon
  <2> QED
    BY <2>1, <2>2
<1>9. first(N) = S
  BY <1>1
<1> QED
  BY <1>2, <1>8, <1>9 DEF below

LEMMA AscendsOnce ==
  ASSUME NEW S \in SUBSET Nat, NEW a, NEW b, Ascends(a, S), Ascends(b, S)
  PROVE  a = b
<1>1. /\ a \in Seq(Nat) /\ b \in Seq(Nat) /\ Len(a) \in Nat /\ Len(b) \in Nat
      /\ \A i \in 1 .. Len(a) : a[i] \in S
      /\ \A i \in 1 .. Len(b) : b[i] \in S
  <2>1. a \in Seq(S) /\ b \in Seq(S)
    BY DEF Ascends
  <2> QED
    BY <2>1, SeqMonotonic, LenProperties, ElementOfSeq
(* A list whose first n numbers are those of another reaches as far.       *)
<1> DEFINE Alike(x, y, n) == n <= Len(x) /\ n <= Len(y) /\ \A i \in 1 .. n : x[i] = y[i]
<1>2. ASSUME NEW x \in {a, b}, NEW y \in {a, b}, NEW n \in Nat, Alike(x, y, n), n < Len(x)
      PROVE  n < Len(y) /\ y[n + 1] <= x[n + 1]
  <2>1. /\ Ascends(x, S) /\ Ascends(y, S) /\ Len(x) \in Nat /\ Len(y) \in Nat
        /\ \A i \in 1 .. Len(x) : x[i] \in S /\ x[i] \in Nat
        /\ \A i \in 1 .. Len(y) : y[i] \in S /\ y[i] \in Nat
    BY <1>1
  <2>2. n + 1 \in 1 .. Len(x)
    BY <1>2, <2>1
  <2>3. PICK j \in 1 .. Len(y) : y[j] = x[n + 1]
    BY <2>1, <2>2 DEF Ascends
  <2>4. ~(j <= n)
    <3> SUFFICES ASSUME j <= n PROVE FALSE
      OBVIOUS
    <3>1. j \in 1 .. n /\ j \in 1 .. Len(x) /\ j < n + 1
      BY <1>2, <2>1
    <3>2. x[j] = y[j]
      BY <1>2, <3>1
    <3>3. x[j] < x[n + 1]
      BY <2>1, <2>2, <3>1 DEF Ascends
    <3> QED
      BY <2>1, <2>2, <2>3, <3>1, <3>2, <3>3
  <2>5. n + 1 \in 1 .. Len(y) /\ (n + 1 = j \/ n + 1 < j)
    BY <2>1, <2>4
  <2>6. y[n + 1] <= y[j]
    BY <2>1, <2>5 DEF Ascends
  <2> QED
    BY <2>1, <2>3, <2>5, <2>6
<1> DEFINE T == {n \in 0 .. Len(a) : Alike(a, b, n)}
<1>3. 0 \in T
  BY <1>1
<1>4. ASSUME NEW n \in 1 .. Len(a), n - 1 \in T PROVE n \in T
  <2>1. n - 1 \in Nat /\ Alike(a, b, n - 1) /\ Alike(b, a, n - 1) /\ n - 1 < Len(a)
        /\ n - 1 + 1 = n
    BY <1>1, <1>4
  <2>2. n - 1 < Len(b) /\ b[n] <= a[n]
    BY <1>2, <2>1
  <2>3. a[n] <= b[n]
    BY <1>2, <2>1, <2>2
  <2>4. a[n] \in Nat /\ b[n] \in Nat
    BY <1>1, <2>2
  <2>5. \A i \in 1 .. n : i = n \/ i \in 1 .. n - 1
    OBVIOUS
  <2>6. n <= Len(a) /\ n <= Len(b) /\ n \in 0 .. Len(a)
    BY <1>1, <1>4, <2>1, <2>2
  <2>7. a[n] = b[n]
    BY <2>2, <2>3, <2>4
  <2>8. \A i \in 1 .. n : a[i] = b[i]
    BY <2>1, <2>5, <2>7
  <2> QED
    BY <2>6, <2>8
<1>5. Alike(a, b, Len(a))
  <2>1. Len(a) \in T
    <3> HIDE DEF T
    <3>1. Len(a) \in Nat
      BY <1>1
    <3>2. \A n \in 0 .. Len(a) : n \in T
      BY <1>3, <1>4, <3>1, UpTo, Zenon
    <3> QED
      BY <3>1, <3>2
  <2> QED
    BY <2>1
<1>6. Len(b) = Len(a)
  <2>1. Alike(b, a, Len(a)) /\ Len(a) <= Len(b)
    BY <1>5
  <2>2. ~(Len(a) < Len(b))
    <3> HIDE DEF Alike
    <3>1. Len(a) < Len(b) => Len(a) < Len(a)
      BY <1>1, <1>2, <2>1
    <3> QED
      BY <1>1, <3>1
  <2> QED
    BY <1>1, <2>1, <2>2
<1> QED
  <2>1. \A i \in 1 .. Len(a) : a[i] = b[i]
    BY <1>5
  <2> HIDE DEF Alike, T
  <2> QED
    BY <1>1, <1>6, <2>1, SeqEqual, Zenon

-----------------------------------------------------------------------------
(* What can be read of a text                                              *)

Shown(content) == {k \in DOMAIN content : content[k] \notin Unseen}

LEMMA ShownAscends ==
  ASSUME NEW content \in Seq(Int)
  PROVE  /\ Shown(content) \in SUBSET Nat /\ Shown(content) \subseteq 1 .. Len(content)
         /\ Ascends(Ascending(Shown(content)), Shown(content))
         /\ Len(Ascending(Shown(content))) \in Nat
         /\ Readables(content) = [n \in 1 .. Len(Ascending(Shown(content))) |->
                                    content[Ascending(Shown(content))[n]]]
<1>1. Len(content) \in Nat /\ DOMAIN content = 1 .. Len(content)
  OBVIOUS
<1>2. Shown(content) \subseteq 1 .. Len(content)
  BY <1>1 DEF Shown
<1>3. Shown(content) \in SUBSET Nat /\ \A k \in Shown(content) : k <= Len(content)
  BY <1>1, <1>2
<1>4. Ascends(Ascending(Shown(content)), Shown(content))
  BY <1>1, <1>3, AscendingAscends
<1>5. /\ DOMAIN Ascending(Shown(content)) = 1 .. Len(Ascending(Shown(content)))
      /\ Len(Ascending(Shown(content))) \in Nat
  BY <1>4, LenProperties DEF Ascends
<1> QED
  BY <1>2, <1>3, <1>4, <1>5 DEF Readables, Shown

(* Characters that are shown one by one, in order, elsewhere.              *)
Follows(s, t, f) ==
  /\ \A k \in Shown(s) : f[k] \in Shown(t) /\ t[f[k]] = s[k]
  /\ \A j, k \in Shown(s) : j < k => f[j] < f[k]
  /\ \A k \in Shown(t) : \E j \in Shown(s) : f[j] = k

LEMMA ReadablesFollow ==
  ASSUME NEW s \in Seq(Int), NEW t \in Seq(Int), NEW f, Follows(s, t, f)
  PROVE  Readables(s) = Readables(t)
<1> DEFINE a == Ascending(Shown(s))
           b == Ascending(Shown(t))
           c == [n \in 1 .. Len(a) |-> f[a[n]]]
<1> USE DEF Follows
<1>1. /\ Shown(s) \in SUBSET Nat /\ Ascends(a, Shown(s)) /\ Len(a) \in Nat
      /\ Readables(s) = [n \in 1 .. Len(a) |-> s[a[n]]]
  BY ShownAscends
<1>2. /\ Shown(t) \in SUBSET Nat /\ Ascends(b, Shown(t)) /\ Len(b) \in Nat
      /\ Readables(t) = [n \in 1 .. Len(b) |-> t[b[n]]]
  BY ShownAscends
<1> HIDE DEF a, b
<1>3. \A n \in 1 .. Len(a) : a[n] \in Shown(s)
  BY <1>1, ElementOfSeq DEF Ascends
<1>4. c \in Seq(Shown(t)) /\ Len(c) = Len(a) /\ \A n \in 1 .. Len(a) : c[n] = f[a[n]]
  BY <1>1, <1>3
<1> HIDE DEF c
<1>5. Ascends(c, Shown(t))
  <2>1. ASSUME NEW i \in 1 .. Len(c), NEW j \in 1 .. Len(c), i < j PROVE c[i] < c[j]
    <3>1. i \in 1 .. Len(a) /\ j \in 1 .. Len(a)
      BY <1>4
    <3>2. a[i] < a[j]
      BY <1>1, <2>1, <3>1 DEF Ascends
    <3> QED
      BY <1>3, <1>4, <3>1, <3>2
  <2>2. ASSUME NEW k \in Shown(t) PROVE \E i \in 1 .. Len(c) : c[i] = k
    <3>1. PICK j \in Shown(s) : f[j] = k
      OBVIOUS
    <3>2. PICK i \in 1 .. Len(a) : a[i] = j
      BY <1>1 DEF Ascends
    <3> QED
      BY <1>4, <3>1, <3>2
  <2> QED
    BY <1>4, <2>1, <2>2 DEF Ascends
<1>6. c = b
  BY <1>2, <1>5, AscendsOnce
<1>7. \A n \in 1 .. Len(a) : s[a[n]] = t[b[n]]
  BY <1>3, <1>4, <1>6
<1> QED
  BY <1>1, <1>2, <1>4, <1>6, <1>7

LEMMA ReadablesAre ==
  ASSUME NEW s \in Seq(Int)
  PROVE  /\ Readables(s) \in Seq(Int)
         /\ \A n \in 1 .. Len(Readables(s)) : \E k \in Shown(s) : Readables(s)[n] = s[k]
         /\ \A k \in Shown(s) : \E n \in 1 .. Len(Readables(s)) : Readables(s)[n] = s[k]
         /\ Shown(s) = {} => Readables(s) = <<>>
<1> DEFINE a == Ascending(Shown(s))
<1>1. /\ Shown(s) \in SUBSET Nat /\ Ascends(a, Shown(s)) /\ Len(a) \in Nat
      /\ Shown(s) \subseteq 1 .. Len(s)
      /\ Readables(s) = [n \in 1 .. Len(a) |-> s[a[n]]]
  BY ShownAscends
<1> HIDE DEF a
<1>2. \A n \in 1 .. Len(a) : a[n] \in Shown(s) /\ s[a[n]] \in Int
  BY <1>1, ElementOfSeq DEF Ascends
<1>3. /\ Readables(s) \in Seq(Int) /\ Len(Readables(s)) = Len(a)
      /\ \A n \in 1 .. Len(a) : Readables(s)[n] = s[a[n]]
  BY <1>1, <1>2
<1>4. \A k \in Shown(s) : \E n \in 1 .. Len(a) : a[n] = k
  BY <1>1 DEF Ascends
<1>5. Shown(s) = {} => Len(a) = 0
  BY <1>1, <1>2
<1>6. Shown(s) = {} => Readables(s) = <<>>
  BY <1>1, <1>5
<1>7. \A n \in 1 .. Len(Readables(s)) : \E k \in Shown(s) : Readables(s)[n] = s[k]
  <2> TAKE n \in 1 .. Len(Readables(s))
  <2>1. n \in 1 .. Len(a)
    BY <1>3
  <2> QED
    BY <1>2, <1>3, <2>1, Zenon
<1>8. \A k \in Shown(s) : \E n \in 1 .. Len(Readables(s)) : Readables(s)[n] = s[k]
  <2> TAKE k \in Shown(s)
  <2>1. PICK n \in 1 .. Len(a) : a[n] = k
    BY <1>4
  <2>2. n \in 1 .. Len(Readables(s)) /\ Readables(s)[n] = s[k]
    BY <1>3, <2>1, Zenon
  <2> QED
    BY <2>2
<1> QED
  BY <1>3, <1>6, <1>7, <1>8, Zenon

LEMMA ReadablesOfBoth ==
  ASSUME NEW s \in Seq(Int), NEW t \in Seq(Int)
  PROVE  Readables(s \o t) = Readables(s) \o Readables(t)
<1> DEFINE a == Ascending(Shown(s))
           b == Ascending(Shown(t))
           n == Len(s)
           u == s \o t
           c == [i \in 1 .. Len(a) + Len(b) |-> IF i <= Len(a) THEN a[i] ELSE b[i - Len(a)] + n]
<1>1. /\ Shown(s) \in SUBSET Nat /\ Ascends(a, Shown(s)) /\ Len(a) \in Nat
      /\ Shown(s) \subseteq 1 .. Len(s)
      /\ Readables(s) = [i \in 1 .. Len(a) |-> s[a[i]]]
  BY ShownAscends
<1>2. /\ Shown(t) \in SUBSET Nat /\ Ascends(b, Shown(t)) /\ Len(b) \in Nat
      /\ Shown(t) \subseteq 1 .. Len(t)
      /\ Readables(t) = [i \in 1 .. Len(b) |-> t[b[i]]]
  BY ShownAscends
<1>3. /\ u \in Seq(Int) /\ Len(u) = n + Len(t) /\ n \in Nat /\ Len(t) \in Nat
      /\ \A k \in 1 .. n : u[k] = s[k]
      /\ \A k \in 1 .. Len(t) : u[k + n] = t[k]
  <2>1. /\ u \in Seq(Int) /\ Len(u) = n + Len(t)
        /\ \A k \in 1 .. n + Len(t) : u[k] = IF k <= n THEN s[k] ELSE t[k - n]
    BY ConcatProperties
  <2>2. n \in Nat /\ Len(t) \in Nat
    OBVIOUS
  <2> HIDE DEF u, n
  <2>3. \A k \in 1 .. Len(t) : k + n \in 1 .. n + Len(t) /\ ~(k + n <= n) /\ (k + n) - n = k
    BY <2>2
  <2>4. \A k \in 1 .. n : k \in 1 .. n + Len(t) /\ k <= n
    BY <2>2
  <2>5. \A k \in 1 .. n : u[k] = s[k]
    BY <2>1, <2>4
  <2>6. \A k \in 1 .. Len(t) : u[k + n] = t[k]
    <3> TAKE k \in 1 .. Len(t)
    <3>1. u[k + n] = t[(k + n) - n]
      BY <2>1, <2>3
    <3> QED
      BY <2>3, <3>1
  <2> QED
    BY <2>1, <2>2, <2>5, <2>6
<1> HIDE DEF a, b, n, u
<1>4. \A i \in 1 .. Len(a) : a[i] \in Shown(s) /\ a[i] \in 1 .. n
  BY <1>1, ElementOfSeq DEF Ascends, n
<1>5. \A i \in 1 .. Len(b) : b[i] \in Shown(t) /\ b[i] \in 1 .. Len(t)
  BY <1>2, ElementOfSeq DEF Ascends
<1>6. Shown(u) = Shown(s) \cup {k + n : k \in Shown(t)}
  <2>1. /\ DOMAIN u = 1 .. Len(u) /\ DOMAIN s = 1 .. n /\ DOMAIN t = 1 .. Len(t)
    BY <1>3 DEF n
  <2>2. \A k \in 1 .. Len(u) : k \in 1 .. n \/ (k - n \in 1 .. Len(t) /\ k = (k - n) + n)
    BY <1>3
  <2>3. \A k \in 1 .. n : k \in 1 .. Len(u)
    BY <1>3
  <2>4. \A k \in 1 .. Len(t) : k + n \in 1 .. Len(u)
    BY <1>3
  <2>5. \A k \in 1 .. n : k \in Shown(u) <=> k \in Shown(s)
    BY <1>3, <2>1, <2>3 DEF Shown
  <2>6. \A k \in 1 .. Len(t) : k + n \in Shown(u) <=> k \in Shown(t)
    BY <1>3, <2>1, <2>4 DEF Shown
  <2>7. Shown(u) \subseteq 1 .. Len(u)
    BY <2>1 DEF Shown
  <2>8. ASSUME NEW k \in Shown(u) PROVE k \in Shown(s) \cup {j + n : j \in Shown(t)}
    BY <2>2, <2>5, <2>6, <2>7
  <2>9. ASSUME NEW k \in Shown(s) \cup {j + n : j \in Shown(t)} PROVE k \in Shown(u)
    BY <1>1, <1>2, <2>5, <2>6 DEF n
  <2> QED
    BY <2>8, <2>9
<1>7. /\ c \in Seq(Shown(u)) /\ Len(c) = Len(a) + Len(b)
      /\ \A i \in 1 .. Len(a) : c[i] = a[i]
      /\ \A i \in 1 .. Len(b) : c[i + Len(a)] = b[i] + n
  <2>1. \A i \in 1 .. Len(a) + Len(b) : i \in 1 .. Len(a) \/ (~(i <= Len(a)) /\ i - Len(a) \in 1 .. Len(b))
    BY <1>1, <1>2
  <2>2. \A i \in 1 .. Len(b) : b[i] + n \in Shown(u)
    BY <1>5, <1>6
  <2>3. \A i \in 1 .. Len(a) : a[i] \in Shown(u)
    BY <1>4, <1>6
  <2>4. \A i \in 1 .. Len(a) + Len(b) : c[i] \in Shown(u)
    BY <2>1, <2>2, <2>3
  <2>5. Len(a) + Len(b) \in Nat /\ \A i \in 1 .. Len(a) : i \in 1 .. Len(a) + Len(b) /\ i <= Len(a)
    BY <1>1, <1>2
  <2>6. \A i \in 1 .. Len(b) : i + Len(a) \in 1 .. Len(a) + Len(b) /\ ~(i + Len(a) <= Len(a))
                                /\ (i + Len(a)) - Len(a) = i
    BY <1>1, <1>2
  <2> QED
    BY <2>4, <2>5, <2>6
<1> HIDE DEF c
<1>8. Ascends(c, Shown(u))
  <2>1. ASSUME NEW i \in 1 .. Len(c), NEW j \in 1 .. Len(c), i < j PROVE c[i] < c[j]
    <3>1. CASE j <= Len(a)
      <4>1. i \in 1 .. Len(a) /\ j \in 1 .. Len(a)
        BY <1>1, <2>1, <3>1
      <4> QED
        <5>1. a[i] < a[j]
          BY <1>1, <2>1, <4>1 DEF Ascends
        <5> QED
          BY <1>7, <4>1, <5>1
    <3>2. CASE i <= Len(a) /\ ~(j <= Len(a))
      <4>1. i \in 1 .. Len(a) /\ j - Len(a) \in 1 .. Len(b) /\ j = (j - Len(a)) + Len(a)
        BY <1>1, <1>2, <1>7, <3>2
      <4>2. c[i] \in 1 .. n /\ c[j] = b[j - Len(a)] + n
        <5>1. c[i] = a[i] /\ c[j] = b[j - Len(a)] + n
          BY <1>7, <4>1
        <5> QED
          BY <1>4, <4>1, <5>1
      <4>3. b[j - Len(a)] \in 1 .. Len(t)
        BY <1>5, <4>1
      <4>4. n \in Nat /\ Len(t) \in Nat
        BY <1>3
      <4> QED
        BY <4>2, <4>3, <4>4
    <3>3. CASE ~(i <= Len(a))
      <4>1. /\ i - Len(a) \in 1 .. Len(b) /\ i = (i - Len(a)) + Len(a)
            /\ j - Len(a) \in 1 .. Len(b) /\ j = (j - Len(a)) + Len(a)
            /\ i - Len(a) < j - Len(a)
        BY <1>1, <1>2, <1>7, <2>1, <3>3
      <4>2. c[i] = b[i - Len(a)] + n /\ c[j] = b[j - Len(a)] + n
        <5> HIDE DEF Ascends
        <5> QED
          BY <1>7, <4>1
      <4>3. /\ b[i - Len(a)] < b[j - Len(a)]
            /\ b[i - Len(a)] \in 1 .. Len(t) /\ b[j - Len(a)] \in 1 .. Len(t)
        BY <1>2, <1>5, <4>1 DEF Ascends
      <4>4. n \in Nat /\ Len(t) \in Nat
        BY <1>3
      <4> QED
        BY <4>2, <4>3, <4>4
    <3> QED
      BY <3>1, <3>2, <3>3
  <2>2. ASSUME NEW k \in Shown(u) PROVE \E i \in 1 .. Len(c) : c[i] = k
    <3>1. CASE k \in Shown(s)
      <4>1. PICK i \in 1 .. Len(a) : a[i] = k
        BY <1>1, <3>1 DEF Ascends
      <4>2. i \in 1 .. Len(c)
        BY <1>1, <1>2, <1>7
      <4> QED
        BY <1>7, <4>1, <4>2
    <3>2. CASE \E j \in Shown(t) : k = j + n
      <4>1. PICK j \in Shown(t) : k = j + n
        BY <3>2
      <4>2. PICK i \in 1 .. Len(b) : b[i] = j
        BY <1>2 DEF Ascends
      <4>3. i + Len(a) \in 1 .. Len(c)
        BY <1>1, <1>2, <1>7
      <4> QED
        BY <1>7, <4>1, <4>2, <4>3
    <3> QED
      BY <1>6, <3>1, <3>2
  <2> QED
    BY <1>7, <2>1, <2>2 DEF Ascends
<1> DEFINE d == Ascending(Shown(u))
<1>9. /\ Shown(u) \in SUBSET Nat /\ Ascends(d, Shown(u))
      /\ Readables(u) = [i \in 1 .. Len(d) |-> u[d[i]]]
  BY <1>3, ShownAscends
<1> HIDE DEF d
<1>10. c = d
  BY <1>8, <1>9, AscendsOnce
<1>11. /\ Len(Readables(s)) = Len(a) /\ Len(Readables(t)) = Len(b)
       /\ Readables(s) \in Seq(Int) /\ Readables(t) \in Seq(Int)
  <2>1. Readables(s) \in Seq(Int) /\ Readables(t) \in Seq(Int)
    BY ReadablesAre
  <2>2. Len(Readables(s)) = Len(a)
    BY <1>1
  <2>3. Len(Readables(t)) = Len(b)
    BY <1>2
  <2> QED
    BY <2>1, <2>2, <2>3
<1> DEFINE w == Readables(s) \o Readables(t)
<1>12. /\ w \in Seq(Int) /\ Len(w) = Len(a) + Len(b)
       /\ \A i \in 1 .. Len(a) + Len(b) :
            w[i] = IF i <= Len(a) THEN Readables(s)[i] ELSE Readables(t)[i - Len(a)]
  BY <1>11, ConcatProperties
<1> HIDE DEF w
<1>13. ASSUME NEW i \in 1 .. Len(a) + Len(b) PROVE u[c[i]] = w[i]
  <2>1. CASE i <= Len(a)
    <3>1. i \in 1 .. Len(a)
      BY <1>1, <2>1
    <3>2. c[i] = a[i] /\ a[i] \in 1 .. n /\ Readables(s)[i] = s[a[i]]
      BY <1>1, <1>4, <1>7, <3>1
    <3> QED
      BY <1>3, <1>12, <2>1, <3>2
  <2>2. CASE ~(i <= Len(a))
    <3>1. i - Len(a) \in 1 .. Len(b) /\ i = (i - Len(a)) + Len(a)
      BY <1>1, <1>2, <2>2
    <3>2. /\ c[i] = b[i - Len(a)] + n /\ b[i - Len(a)] \in 1 .. Len(t)
          /\ Readables(t)[i - Len(a)] = t[b[i - Len(a)]]
      BY <1>2, <1>5, <1>7, <3>1
    <3> QED
      BY <1>3, <1>12, <2>2, <3>2
  <2> QED
    BY <2>1, <2>2
<1>14. Readables(u) = w
  <2>1. Readables(u) = [i \in 1 .. Len(a) + Len(b) |-> u[c[i]]]
    BY <1>7, <1>9, <1>10
  <2>2. w = [i \in 1 .. Len(a) + Len(b) |-> w[i]]
    BY <1>12
  <2> QED
    BY <1>13, <2>1, <2>2
<1> QED
  BY <1>14 DEF u, w

-----------------------------------------------------------------------------
(* How a document is laid out                                              *)

SourceLines == [content : Seq(Int), page : Nat, line : Nat, breakAfter : BOOLEAN]

Segments == [start : Nat, end : Nat, page : Nat, line : Nat, paragraph : Nat]

Documents == [text : Seq(Int), segments : Seq(Segments), paragraph : Nat]

(* Whether a paragraph ends with the n-th line, and the breaks after it.   *)
Ends(lines, n) == n < Len(lines) /\ lines[n].breakAfter

Gap(lines, n) == IF n = Len(lines) THEN 0 ELSE IF lines[n].breakAfter THEN 2 ELSE 1

LEMMA AddLineAdds ==
  ASSUME NEW lines \in Seq(SourceLines), NEW n \in 1 .. Len(lines), NEW d \in Documents
  PROVE  LET e       == AddLine(lines, d, n)
             content == lines[n].content
             start   == Len(d.text)
             stop    == Len(d.text) + Len(content)
         IN /\ e \in Documents
            /\ Len(e.text) = stop + Gap(lines, n)
            /\ \A k \in 1 .. start : e.text[k] = d.text[k]
            /\ \A k \in 1 .. Len(content) : e.text[start + k] = content[k]
            /\ \A k \in stop + 1 .. Len(e.text) : e.text[k] = LineBreak
            /\ e.paragraph = d.paragraph + (IF Ends(lines, n) THEN 1 ELSE 0)
                                         + (IF Blank(content) THEN 1 ELSE 0)
            /\ content = <<>> => e.segments = d.segments
            /\ content # <<>> =>
                 e.segments = Append(d.segments,
                   [start |-> start, end |-> stop, page |-> lines[n].page,
                    line |-> lines[n].line, paragraph |-> d.paragraph])
<1> DEFINE line    == lines[n]
           content == line.content
           start   == Len(d.text)
           stop    == Len(d.text) + Len(content)
           ends    == n < Len(lines) /\ line.breakAfter
           breaks  == IF n = Len(lines) THEN <<>> ELSE IF ends THEN <<LineBreak, LineBreak>>
                      ELSE <<LineBreak>>
           body    == d.text \o content
           e       == AddLine(lines, d, n)
           segment == [start |-> start, end |-> stop, page |-> line.page, line |-> line.line,
                       paragraph |-> d.paragraph]
<1>1. /\ line \in SourceLines /\ content \in Seq(Int) /\ line.page \in Nat /\ line.line \in Nat
      /\ line.breakAfter \in BOOLEAN
      /\ d.text \in Seq(Int) /\ d.segments \in Seq(Segments) /\ d.paragraph \in Nat
      /\ Len(content) \in Nat /\ start \in Nat /\ stop \in Nat
      /\ Len(lines) \in Nat /\ n \in Nat
  <2>1. line \in SourceLines
    BY ElementOfSeq
  <2>2. content \in Seq(Int) /\ line.page \in Nat /\ line.line \in Nat /\ line.breakAfter \in BOOLEAN
    BY <2>1 DEF SourceLines
  <2>3. d.text \in Seq(Int) /\ d.segments \in Seq(Segments) /\ d.paragraph \in Nat
    BY DEF Documents
  <2>4. Len(content) \in Nat /\ start \in Nat /\ Len(lines) \in Nat /\ n \in Nat
    BY <2>2, <2>3
  <2>5. stop \in Nat
    <3> HIDE DEF content
    <3> QED
      BY <2>4
  <2> HIDE DEF line, content, start, stop
  <2> QED
    BY <2>1, <2>2, <2>3, <2>4, <2>5
<1>2. /\ e = [text |-> body \o breaks,
              segments |-> IF content = <<>> THEN d.segments ELSE Append(d.segments, segment),
              paragraph |-> d.paragraph + (IF ends THEN 1 ELSE 0)
                                        + (IF Blank(content) THEN 1 ELSE 0)]
      /\ ends = Ends(lines, n)
  BY DEF AddLine, Ends
<1> HIDE DEF e
<1>3. /\ breaks \in Seq(Int) /\ Len(breaks) = Gap(lines, n)
      /\ \A k \in 1 .. Len(breaks) : breaks[k] = LineBreak
  <2>1. LineBreak \in Int
    BY DEF LineBreak
  <2>2. CASE n = Len(lines)
    BY <2>2 DEF Gap
  <2>3. CASE n # Len(lines) /\ line.breakAfter
    <3>1. breaks = <<LineBreak, LineBreak>>
      BY <1>1, <2>3
    <3>2. Gap(lines, n) = 2
      BY <2>3 DEF Gap
    <3> HIDE DEF breaks
    <3> QED
      BY <2>1, <3>1, <3>2
  <2>4. CASE n # Len(lines) /\ ~line.breakAfter
    <3>1. breaks = <<LineBreak>>
      BY <1>1, <2>4
    <3>2. Gap(lines, n) = 1
      BY <2>4 DEF Gap
    <3> HIDE DEF breaks
    <3> QED
      BY <2>1, <3>1, <3>2
  <2> QED
    BY <2>2, <2>3, <2>4
<1> HIDE DEF breaks
<1>4. /\ body \in Seq(Int) /\ Len(body) = stop
      /\ \A k \in 1 .. stop : body[k] = IF k <= start THEN d.text[k] ELSE content[k - start]
  <2> HIDE DEF content
  <2> QED
    BY <1>1, ConcatProperties
<1> HIDE DEF body
<1>5. /\ e.text \in Seq(Int) /\ Len(e.text) = stop + Gap(lines, n)
      /\ \A k \in 1 .. stop + Gap(lines, n) :
           e.text[k] = IF k <= stop THEN body[k] ELSE breaks[k - stop]
  <2>1. e.text = body \o breaks
    BY <1>2
  <2> HIDE DEF stop
  <2>2. /\ body \o breaks \in Seq(Int) /\ Len(body \o breaks) = Len(body) + Len(breaks)
        /\ \A k \in 1 .. Len(body) + Len(breaks) :
             (body \o breaks)[k] = IF k <= Len(body) THEN body[k] ELSE breaks[k - Len(body)]
    BY <1>3, <1>4, ConcatProperties, ZenonT(40)
  <2>3. Len(body) = stop /\ Len(breaks) = Gap(lines, n)
    BY <1>3, <1>4
  <2> QED
    BY <2>1, <2>2, <2>3
<1>6. Gap(lines, n) \in 0 .. 2
  BY DEF Gap
<1>7. ASSUME NEW k \in 1 .. start PROVE e.text[k] = d.text[k]
  <2>1. k \in 1 .. stop /\ k \in 1 .. stop + Gap(lines, n) /\ k <= stop /\ k <= start
    <3>1. start \in Nat /\ Len(content) \in Nat /\ stop = start + Len(content)
      BY <1>1
    <3> HIDE DEF content, start, stop
    <3> QED
      BY <1>6, <3>1
  <2> HIDE DEF start, stop
  <2> QED
    BY <1>4, <1>5, <2>1
<1>8. ASSUME NEW k \in 1 .. Len(content) PROVE e.text[start + k] = content[k]
  <2>1. /\ start + k \in 1 .. stop /\ start + k \in 1 .. stop + Gap(lines, n) /\ start + k <= stop
        /\ ~(start + k <= start) /\ (start + k) - start = k
    <3>1. start \in Nat /\ Len(content) \in Nat /\ stop = start + Len(content)
      BY <1>1
    <3> HIDE DEF content, start, stop
    <3> QED
      BY <1>6, <3>1
  <2> HIDE DEF start, stop
  <2> QED
    BY <1>4, <1>5, <2>1
<1>9. ASSUME NEW k \in stop + 1 .. Len(e.text) PROVE e.text[k] = LineBreak
  <2>1. k \in 1 .. stop + Gap(lines, n) /\ ~(k <= stop) /\ k - stop \in 1 .. Len(breaks)
    <3>1. stop \in Nat
      BY <1>1
    <3> HIDE DEF stop
    <3> QED
      BY <1>3, <1>5, <1>6, <3>1
  <2> HIDE DEF stop
  <2> QED
    BY <1>3, <1>5, <2>1
<1>10. segment \in Segments
  <2>1. start \in Nat /\ stop \in Nat /\ line.page \in Nat /\ line.line \in Nat /\ d.paragraph \in Nat
    BY <1>1
  <2> HIDE DEF start, stop, line
  <2> QED
    BY <2>1 DEF Segments
<1>11. /\ content = <<>> => e.segments = d.segments
       /\ content # <<>> => e.segments = Append(d.segments, segment)
       /\ e.paragraph = d.paragraph + (IF Ends(lines, n) THEN 1 ELSE 0)
                                    + (IF Blank(content) THEN 1 ELSE 0)
  BY <1>2
<1>12. e.segments \in Seq(Segments) /\ e.paragraph \in Nat
  <2>1. Append(d.segments, segment) \in Seq(Segments)
    BY <1>1, <1>10, AppendProperties
  <2>2. e.segments \in Seq(Segments)
    BY <1>1, <1>11, <2>1
  <2>3. e.paragraph \in Nat
    BY <1>1, <1>11
  <2> QED
    BY <2>2, <2>3
<1>13. e \in Documents
  <2>1. e = [text |-> e.text, segments |-> e.segments, paragraph |-> e.paragraph]
    BY <1>2
  <2> QED
    BY <1>5, <1>12, <2>1 DEF Documents
<1> HIDE DEF content, start, stop, segment
<1> QED
  BY <1>5, <1>7, <1>8, <1>9, <1>11, <1>13 DEF e, content, start, stop, segment, line

(* The document after each line.                                           *)
Grows(upTo, lines) ==
  /\ upTo \in [0 .. Len(lines) -> Documents]
  /\ upTo[0] = [text |-> <<>>, segments |-> <<>>, paragraph |-> 0]
  /\ \A n \in 1 .. Len(lines) : upTo[n] = AddLine(lines, upTo[n - 1], n)

LEMMA BuildDocumentGrows ==
  ASSUME NEW lines \in Seq(SourceLines)
  PROVE  \E upTo : Grows(upTo, lines) /\ BuildDocument(lines) = upTo[Len(lines)]
<1> DEFINE N     == Len(lines)
           empty == [text |-> <<>>, segments |-> <<>>, paragraph |-> 0]
           Is(f) == f = [n \in 0 .. N |-> IF n = 0 THEN empty ELSE AddLine(lines, f[n - 1], n)]
           step  == [n \in 1 .. N |-> [d \in Documents |-> AddLine(lines, d, n)]]
           built == CHOOSE f : Is(f)
<1>1. N \in Nat
  OBVIOUS
<1>2. BuildDocument(lines) = built[N]
  BY DEF BuildDocument
<1>3. empty \in Documents
  BY DEF Documents
<1>4. \A n \in 1 .. N : \A d \in Documents : AddLine(lines, d, n) \in Documents
  BY AddLineAdds
<1> HIDE DEF N, empty
<1>5. step \in [1 .. N -> [Documents -> Documents]]
  BY <1>4
<1>6. \A n \in 1 .. N : \A d \in Documents : step[n][d] = AddLine(lines, d, n)
  OBVIOUS
<1> HIDE DEF step
<1>7. PICK f : Iterates(f, N, Documents, empty, step)
  BY <1>1, <1>3, <1>5, Recursion
<1>8. \A n \in 0 .. N : n = 0 \/ (n \in 1 .. N /\ n - 1 \in 0 .. N /\ n # 0)
  BY <1>1
<1>9. Is(f)
  <2>1. \A n \in 0 .. N : f[n] = IF n = 0 THEN empty ELSE AddLine(lines, f[n - 1], n)
    BY <1>6, <1>7, <1>8 DEF Iterates
  <2>2. f = [n \in 0 .. N |-> f[n]]
    BY <1>7 DEF Iterates
  <2> QED
    BY <2>1, <2>2
<1>10. Is(built)
  BY <1>9
<1> HIDE DEF built
<1>11. \A n \in 0 .. N : built[n] = IF n = 0 THEN empty ELSE AddLine(lines, built[n - 1], n)
  BY <1>10
<1>12. built[0] = empty /\ \A n \in 1 .. N : built[n] = AddLine(lines, built[n - 1], n)
  <2>1. 0 \in 0 .. N /\ \A n \in 1 .. N : n \in 0 .. N /\ n # 0
    BY <1>1
  <2> QED
    BY <1>11, <2>1
<1>13. \A n \in 0 .. N : built[n] \in Documents
  <2> DEFINE T == {n \in 0 .. N : built[n] \in Documents}
  <2>1. 0 \in T
    BY <1>1, <1>3, <1>12
  <2>2. ASSUME NEW n \in 1 .. N, n - 1 \in T PROVE n \in T
    BY <1>1, <1>4, <1>12, <2>2
  <2> HIDE DEF T
  <2>3. \A n \in 0 .. N : n \in T
    BY <1>1, <2>1, <2>2, UpTo, Zenon
  <2> QED
    BY <2>3 DEF T
<1>14. built = [n \in 0 .. N |-> built[n]]
  <2>1. DOMAIN built = 0 .. N
    BY <1>10
  <2> QED
    BY <1>10, <2>1
<1>15. built \in [0 .. N -> Documents]
  BY <1>13, <1>14
<1> QED
  BY <1>2, <1>12, <1>15 DEF Grows, N, empty

(* Where the lines start, and the numbers of their paragraphs.             *)
Starts(at, lines) ==
  /\ at \in [1 .. Len(lines) + 1 -> Nat] /\ at[1] = 0
  /\ \A n \in 1 .. Len(lines) : at[n + 1] = at[n] + Len(lines[n].content) + Gap(lines, n)

Numbers(par, lines) ==
  /\ par \in [1 .. Len(lines) + 1 -> Nat] /\ par[1] = 0
  /\ \A n \in 1 .. Len(lines) :
       par[n + 1] = par[n] + (IF Ends(lines, n) THEN 1 ELSE 0)
                           + (IF Blank(lines[n].content) THEN 1 ELSE 0)

(* The text has the n-th line where it starts, and line breaks after it.   *)
Carries(content, lines, at, n) ==
  /\ \A k \in 1 .. Len(lines[n].content) : content[at[n] + k] = lines[n].content[k]
  /\ \A k \in at[n] + Len(lines[n].content) + 1 .. at[n + 1] : content[k] = LineBreak

SegmentOf(lines, at, par, n) ==
  [start |-> at[n], end |-> at[n] + Len(lines[n].content), page |-> lines[n].page,
   line |-> lines[n].line, paragraph |-> par[n]]

Filled(lines, n) == {k \in 1 .. n : lines[k].content # <<>>}

Mapped(segments, lines, at, par, n) ==
  \E filled :
    /\ Ascends(filled, Filled(lines, n)) /\ Len(segments) = Len(filled)
    /\ \A i \in 1 .. Len(filled) : segments[i] = SegmentOf(lines, at, par, filled[i])

Laid(d, lines, at, par) ==
  /\ d \in Documents /\ Starts(at, lines) /\ Numbers(par, lines)
  /\ Len(d.text) = at[Len(lines) + 1]
  /\ \A n \in 1 .. Len(lines) : Carries(d.text, lines, at, n)
  /\ Mapped(d.segments, lines, at, par, Len(lines))

LEMMA GapsAre ==
  ASSUME NEW lines, NEW n
  PROVE  Gap(lines, n) \in 0 .. 2 /\ Gap(lines, n) \in Nat
BY DEF Gap

LEMMA LineSizes ==
  ASSUME NEW lines \in Seq(SourceLines), NEW n \in 1 .. Len(lines)
  PROVE  /\ lines[n] \in SourceLines /\ lines[n].content \in Seq(Int)
         /\ Len(lines[n].content) \in Nat
         /\ lines[n].page \in Nat /\ lines[n].line \in Nat /\ lines[n].breakAfter \in BOOLEAN
<1>1. lines[n] \in SourceLines
  BY ElementOfSeq
<1>2. /\ lines[n].content \in Seq(Int)
      /\ lines[n].page \in Nat /\ lines[n].line \in Nat /\ lines[n].breakAfter \in BOOLEAN
  BY <1>1 DEF SourceLines
<1>3. Len(lines[n].content) \in Nat
  BY <1>2
<1> QED
  BY <1>1, <1>2, <1>3

LEMMA StartsGrow ==
  ASSUME NEW lines \in Seq(SourceLines), NEW at, Starts(at, lines)
  PROVE  /\ \A n \in 1 .. Len(lines) + 1 : at[n] \in Nat
         /\ \A n \in 1 .. Len(lines) :
              /\ at[n] + Len(lines[n].content) \in Nat
              /\ at[n] <= at[n] + Len(lines[n].content)
              /\ at[n] + Len(lines[n].content) <= at[n + 1]
         /\ \A n \in 1 .. Len(lines) + 1 : \A m \in 1 .. n : at[m] <= at[n]
<1> DEFINE N == Len(lines)
<1>1. N \in Nat
  OBVIOUS
<1>2. \A n \in 1 .. N + 1 : at[n] \in Nat
  BY DEF Starts
<1>3. \A n \in 1 .. N : Len(lines[n].content) \in Nat /\ Gap(lines, n) \in Nat
  BY LineSizes, GapsAre
<1>4. \A n \in 1 .. N : at[n + 1] = at[n] + Len(lines[n].content) + Gap(lines, n)
  BY DEF Starts
<1> HIDE DEF N
<1>5. \A n \in 1 .. N : n \in 1 .. N + 1 /\ n + 1 \in 1 .. N + 1
  BY <1>1
<1>6. ASSUME NEW n \in 1 .. N
      PROVE  /\ at[n] + Len(lines[n].content) \in Nat
             /\ at[n] <= at[n] + Len(lines[n].content)
             /\ at[n] + Len(lines[n].content) <= at[n + 1] /\ at[n] <= at[n + 1]
  <2>1. at[n] \in Nat /\ Len(lines[n].content) \in Nat /\ Gap(lines, n) \in Nat
    BY <1>2, <1>3, <1>5
  <2>2. at[n + 1] = at[n] + Len(lines[n].content) + Gap(lines, n)
    BY <1>4
  <2> DEFINE here == at[n]
             size == Len(lines[n].content)
             gap  == Gap(lines, n)
             next == at[n + 1]
  <2>3. here \in Nat /\ size \in Nat /\ gap \in Nat /\ next = here + size + gap
    BY <2>1, <2>2
  <2> HIDE DEF here, size, gap, next
  <2>4. here + size \in Nat /\ here <= here + size /\ here + size <= next /\ here <= next
    BY <2>3
  <2> QED
    BY <2>4, Zenon DEF here, size, next
<1> DEFINE T == {n \in 0 .. N : \A m \in 1 .. n + 1 : at[m] <= at[n + 1]}
<1>7. 0 \in T
  <2>1. at[1] \in Nat /\ \A m \in 1 .. 0 + 1 : m = 1
    BY <1>1, <1>2
  <2> QED
    BY <1>1, <2>1
<1>8. ASSUME NEW n \in 1 .. N, n - 1 \in T PROVE n \in T
  <2>1. \A m \in 1 .. n : at[m] <= at[n]
    <3>1. \A m \in 1 .. (n - 1) + 1 : at[m] <= at[(n - 1) + 1]
      BY <1>8
    <3>2. (n - 1) + 1 = n
      BY <1>1
    <3> QED
      BY <3>1, <3>2
  <2>2. at[n] <= at[n + 1] /\ at[n] \in Nat /\ at[n + 1] \in Nat
    BY <1>2, <1>5, <1>6
  <2>3. ASSUME NEW m \in 1 .. n + 1 PROVE at[m] <= at[n + 1]
    <3>1. m = n + 1 \/ m \in 1 .. n
      BY <1>1
    <3>2. m \in 1 .. N + 1
      BY <1>1
    <3>3. at[m] \in Nat
      BY <1>2, <3>2
    <3> QED
      BY <2>1, <2>2, <3>1, <3>3
  <2>4. n \in 0 .. N
    BY <1>1
  <2> QED
    BY <2>3, <2>4
<1>9. \A n \in 0 .. N : n \in T
  <2> HIDE DEF T
  <2> QED
    BY <1>1, <1>7, <1>8, UpTo, Zenon
<1>10. ASSUME NEW n \in 1 .. N + 1, NEW m \in 1 .. n PROVE at[m] <= at[n]
  <2>1. n - 1 \in 0 .. N /\ (n - 1) + 1 = n
    BY <1>1
  <2>2. \A k \in 1 .. (n - 1) + 1 : at[k] <= at[(n - 1) + 1]
    BY <1>9, <2>1
  <2> QED
    BY <2>1, <2>2
<1> QED
  BY <1>2, <1>6, <1>10 DEF N

(* build_document lays the lines of any file out in its text.             *)
THEOREM BuildDocumentLays ==
  ASSUME NEW lines \in Seq(SourceLines)
  PROVE  \E at, par : Laid(BuildDocument(lines), lines, at, par)
<1>1. PICK upTo : Grows(upTo, lines) /\ BuildDocument(lines) = upTo[Len(lines)]
  BY BuildDocumentGrows
<1> DEFINE N   == Len(lines)
           at  == [n \in 1 .. N + 1 |-> Len(upTo[n - 1].text)]
           par == [n \in 1 .. N + 1 |-> upTo[n - 1].paragraph]
<1>2. N \in Nat
  OBVIOUS
<1>3. /\ upTo \in [0 .. N -> Documents] /\ upTo[0] = [text |-> <<>>, segments |-> <<>>, paragraph |-> 0]
      /\ \A n \in 1 .. N : upTo[n] = AddLine(lines, upTo[n - 1], n)
  BY <1>1 DEF Grows
<1>4. \A n \in 1 .. N : n - 1 \in 0 .. N /\ n \in 0 .. N /\ n \in 1 .. N + 1 /\ n + 1 \in 1 .. N + 1
                        /\ (n + 1) - 1 = n
  BY <1>2
<1>5. \A n \in 0 .. N : upTo[n] \in Documents /\ Len(upTo[n].text) \in Nat
                        /\ upTo[n].paragraph \in Nat
  BY <1>3 DEF Documents
<1>6. \A n \in 1 .. N + 1 : n - 1 \in 0 .. N
  BY <1>2
<1>7. /\ at \in [1 .. N + 1 -> Nat] /\ par \in [1 .. N + 1 -> Nat]
      /\ \A n \in 1 .. N + 1 : at[n] = Len(upTo[n - 1].text) /\ par[n] = upTo[n - 1].paragraph
  BY <1>5, <1>6
<1>8. at[1] = 0 /\ par[1] = 0
  <2>1. 1 \in 1 .. N + 1 /\ 1 - 1 = 0
    BY <1>2
  <2>2. upTo[0].text = <<>> /\ upTo[0].paragraph = 0
    BY <1>3
  <2> QED
    BY <1>7, <2>1, <2>2
<1> HIDE DEF at, par
<1>9. ASSUME NEW n \in 1 .. N
      PROVE  /\ at[n + 1] = at[n] + Len(lines[n].content) + Gap(lines, n)
             /\ par[n + 1] = par[n] + (IF Ends(lines, n) THEN 1 ELSE 0)
                                    + (IF Blank(lines[n].content) THEN 1 ELSE 0)
             /\ \A k \in 1 .. at[n] : upTo[n].text[k] = upTo[n - 1].text[k]
             /\ Carries(upTo[n].text, lines, at, n)
             /\ lines[n].content = <<>> => upTo[n].segments = upTo[n - 1].segments
             /\ lines[n].content # <<>> =>
                  upTo[n].segments = Append(upTo[n - 1].segments, SegmentOf(lines, at, par, n))
  <2> DEFINE d == upTo[n - 1]
  <2>1. /\ at[n] = Len(d.text) /\ par[n] = d.paragraph
        /\ at[n + 1] = Len(upTo[n].text) /\ par[n + 1] = upTo[n].paragraph
    BY <1>4, <1>7
  <2>2. d \in Documents /\ upTo[n] = AddLine(lines, d, n)
    BY <1>3, <1>4, <1>5
  <2> HIDE DEF d
  <2>3. LET e       == AddLine(lines, d, n)
             content == lines[n].content
             start   == Len(d.text)
             stop    == Len(d.text) + Len(content)
         IN /\ e \in Documents
            /\ Len(e.text) = stop + Gap(lines, n)
            /\ \A k \in 1 .. start : e.text[k] = d.text[k]
            /\ \A k \in 1 .. Len(content) : e.text[start + k] = content[k]
            /\ \A k \in stop + 1 .. Len(e.text) : e.text[k] = LineBreak
            /\ e.paragraph = d.paragraph + (IF Ends(lines, n) THEN 1 ELSE 0)
                                         + (IF Blank(content) THEN 1 ELSE 0)
            /\ content = <<>> => e.segments = d.segments
            /\ content # <<>> =>
                 e.segments = Append(d.segments,
                   [start |-> start, end |-> stop, page |-> lines[n].page,
                    line |-> lines[n].line, paragraph |-> d.paragraph])
    BY <2>2, AddLineAdds, Zenon
  <2> QED
    BY <2>1, <2>2, <2>3, Zenon DEF Carries, SegmentOf, d
<1>10. Starts(at, lines) /\ Numbers(par, lines)
  BY <1>7, <1>8, <1>9 DEF Starts, Numbers
<1>11. /\ \A n \in 1 .. N + 1 : at[n] \in Nat
       /\ \A n \in 1 .. N : at[n] + Len(lines[n].content) \in Nat
            /\ at[n] <= at[n] + Len(lines[n].content) /\ at[n] + Len(lines[n].content) <= at[n + 1]
       /\ \A n \in 1 .. N + 1 : \A m \in 1 .. n : at[m] <= at[n]
  BY <1>10, StartsGrow
<1> DEFINE T == {n \in 0 .. N : /\ \A m \in 1 .. n : Carries(upTo[n].text, lines, at, m)
                                /\ Mapped(upTo[n].segments, lines, at, par, n)}
<1>12. 0 \in T
  <2>1. Filled(lines, 0) = {} /\ \A m \in 1 .. 0 : FALSE
    BY DEF Filled
  <2>2. Ascends(<<>>, {}) /\ Len(<<>>) = 0
    BY DEF Ascends
  <2>3. upTo[0].segments = <<>>
    BY <1>3
  <2>4. Mapped(upTo[0].segments, lines, at, par, 0)
    BY <2>1, <2>2, <2>3 DEF Mapped
  <2> QED
    BY <1>2, <2>1, <2>4
<1>13. ASSUME NEW n \in 1 .. N, n - 1 \in T PROVE n \in T
  <2>1. ASSUME NEW m \in 1 .. n PROVE Carries(upTo[n].text, lines, at, m)
    <3>1. CASE m = n
      BY <1>9, <3>1
    <3>2. CASE m # n
      <4>1. m \in 1 .. n - 1 /\ m \in 1 .. N /\ m + 1 \in 1 .. n /\ n \in 1 .. N + 1
            /\ m + 1 \in 1 .. N + 1 /\ m \in 1 .. N + 1
        BY <1>2, <3>2
      <4>2. Carries(upTo[n - 1].text, lines, at, m)
        BY <1>13, <4>1
      <4>3. /\ at[m] \in Nat /\ at[m + 1] \in Nat /\ at[n] \in Nat /\ at[m + 1] <= at[n]
            /\ at[m] + Len(lines[m].content) \in Nat /\ at[m] + Len(lines[m].content) <= at[m + 1]
        BY <1>11, <4>1
      <4>4. Len(lines[m].content) \in Nat
        BY <4>1, LineSizes
      <4>5. \A k \in 1 .. Len(lines[m].content) : at[m] + k \in 1 .. at[n]
        <5> DEFINE here == at[m]
                   size == Len(lines[m].content)
                   next == at[m + 1]
                   top  == at[n]
        <5>1. here \in Nat /\ size \in Nat /\ next \in Nat /\ top \in Nat
              /\ next <= top /\ here + size <= next
          BY <4>3, <4>4
        <5> HIDE DEF here, size, next, top
        <5>2. \A k \in 1 .. size : here + k \in 1 .. top
          BY <5>1
        <5> QED
          BY <5>2 DEF here, size, top
      <4>6. \A k \in at[m] + Len(lines[m].content) + 1 .. at[m + 1] : k \in 1 .. at[n]
        <5> DEFINE here == at[m] + Len(lines[m].content)
                   next == at[m + 1]
                   top  == at[n]
        <5>1. here \in Nat /\ next \in Nat /\ top \in Nat /\ next <= top
          BY <4>3, <4>4
        <5> HIDE DEF here, next, top
        <5>2. \A k \in here + 1 .. next : k \in 1 .. top
          BY <5>1
        <5> QED
          BY <5>2 DEF here, next, top
      <4>7. \A k \in 1 .. at[n] : upTo[n].text[k] = upTo[n - 1].text[k]
        BY <1>9
      <4> QED
        BY <4>2, <4>5, <4>6, <4>7 DEF Carries
    <3> QED
      BY <3>1, <3>2
  <2>2. Mapped(upTo[n].segments, lines, at, par, n)
    <3>1. Mapped(upTo[n - 1].segments, lines, at, par, n - 1)
      BY <1>13
    <3>2. PICK filled : /\ Ascends(filled, Filled(lines, n - 1))
                        /\ Len(upTo[n - 1].segments) = Len(filled)
                        /\ \A i \in 1 .. Len(filled) :
                             upTo[n - 1].segments[i] = SegmentOf(lines, at, par, filled[i])
      BY <3>1 DEF Mapped
    <3>3. \A k \in 1 .. n : k = n \/ k \in 1 .. n - 1
      BY <1>2
    <3>4. \A k \in 1 .. n - 1 : k \in 1 .. n /\ k < n /\ k \in Nat
      BY <1>2
    <3>5. n \in 1 .. n /\ n \in Nat /\ n - 1 \in 0 .. N
      BY <1>2
    <3>6. CASE lines[n].content = <<>>
      <4>1. Filled(lines, n) = Filled(lines, n - 1)
        BY <3>3, <3>4, <3>6 DEF Filled
      <4>2. upTo[n].segments = upTo[n - 1].segments
        BY <1>9, <3>6
      <4> QED
        BY <3>2, <4>1, <4>2 DEF Mapped
    <3>7. CASE lines[n].content # <<>>
      <4> DEFINE more == Append(filled, n)
                 old  == upTo[n - 1].segments
                 new  == SegmentOf(lines, at, par, n)
      <4>1. Filled(lines, n) = Filled(lines, n - 1) \cup {n}
        BY <3>3, <3>4, <3>5, <3>7 DEF Filled
      <4>2. Filled(lines, n - 1) \in SUBSET Nat /\ \A k \in Filled(lines, n - 1) : k < n
        BY <3>4 DEF Filled
      <4>3. Ascends(more, Filled(lines, n))
        BY <3>2, <3>5, <4>1, <4>2, AscendsMore
      <4>4. upTo[n].segments = Append(old, new)
        BY <1>9, <3>7
      <4>5. filled \in Seq(Nat) /\ old \in Seq(Segments) /\ Len(old) = Len(filled) /\ Len(filled) \in Nat
        <5>1. filled \in Seq(Filled(lines, n - 1))
          BY <3>2 DEF Ascends
        <5>2. filled \in Seq(Nat)
          BY <4>2, <5>1, SeqMonotonic
        <5>3. old \in Seq(Segments)
          BY <1>5, <3>5 DEF Documents
        <5> QED
          BY <3>2, <5>2, <5>3
      <4> HIDE DEF new, old
      <4>6. /\ Len(Append(old, new)) = Len(filled) + 1
            /\ \A i \in 1 .. Len(filled) : Append(old, new)[i] = old[i]
            /\ Append(old, new)[Len(filled) + 1] = new
        BY <4>5
      <4>7. /\ Len(more) = Len(filled) + 1 /\ more[Len(filled) + 1] = n
            /\ \A i \in 1 .. Len(filled) : more[i] = filled[i]
        BY <3>5, <4>5
      <4> HIDE DEF more
      <4>8. \A i \in 1 .. Len(more) :
              Append(old, new)[i] = SegmentOf(lines, at, par, more[i])
        <5> TAKE i \in 1 .. Len(more)
        <5>1. i \in 1 .. Len(filled) \/ i = Len(filled) + 1
          BY <4>5, <4>7
        <5> QED
          BY <3>2, <4>6, <4>7, <5>1 DEF new, old
      <4> QED
        BY <4>3, <4>4, <4>6, <4>7, <4>8 DEF Mapped
    <3> QED
      BY <3>6, <3>7
  <2>3. n \in 0 .. N
    BY <1>4
  <2> QED
    BY <2>1, <2>2, <2>3
<1>14. N \in T
  <2> HIDE DEF T, N
  <2>1. \A n \in 0 .. N : n \in T
    BY <1>2, <1>12, <1>13, UpTo, Zenon
  <2>2. N \in 0 .. N
    BY <1>2
  <2> QED
    BY <2>1, <2>2
<1>15. Laid(upTo[N], lines, at, par)
  <2>1. upTo[N] \in Documents /\ Len(upTo[N].text) = at[N + 1]
    <3>1. N \in 0 .. N /\ N + 1 \in 1 .. N + 1 /\ (N + 1) - 1 = N
      BY <1>2
    <3> QED
      BY <1>5, <1>7, <3>1
  <2> QED
    BY <1>10, <1>14, <2>1 DEF Laid
<1> QED
  BY <1>1, <1>15

-----------------------------------------------------------------------------
(* Where a range of the text is located                                    *)

(* Where the characters of a line end.                                     *)
Top(lines, at, n) == at[n] + Len(lines[n].content)

LEMMA LineOf ==
  ASSUME NEW lines \in Seq(SourceLines), NEW at, Starts(at, lines),
         NEW p \in Nat, p < at[Len(lines) + 1]
  PROVE  \E n \in 1 .. Len(lines) : at[n] <= p /\ p < at[n + 1]
<1> DEFINE N == Len(lines)
           above == {m \in 1 .. N + 1 : p < at[m]}
<1>1. N \in Nat /\ at[1] = 0 /\ \A n \in 1 .. N + 1 : at[n] \in Nat
  BY StartsGrow DEF Starts
<1> HIDE DEF N
<1>2. PICK m \in above : \A n \in above : m <= n
  <2>1. above \in SUBSET Nat /\ N + 1 \in above
    BY <1>1 DEF N
  <2> HIDE DEF above
  <2> QED
    BY <2>1, LeastNumber
<1>3. m # 1
  BY <1>1, <1>2
<1>4. m - 1 \in 1 .. N /\ m - 1 \in 1 .. N + 1 /\ (m - 1) + 1 = m
  BY <1>1, <1>2, <1>3
<1>5. m - 1 \notin above
  BY <1>1, <1>2, <1>4
<1>6. at[m - 1] <= p
  BY <1>1, <1>4, <1>5
<1> QED
  BY <1>2, <1>4, <1>6 DEF N

(* A character is one of its line, or a line break after it.               *)
LEMMA TextAt ==
  ASSUME NEW lines \in Seq(SourceLines), NEW d, NEW at, NEW par, Laid(d, lines, at, par),
         NEW n \in 1 .. Len(lines), NEW p \in Nat, at[n] <= p, p < at[n + 1]
  PROVE  /\ p < Top(lines, at, n) => /\ (p - at[n]) + 1 \in 1 .. Len(lines[n].content)
                                     /\ d.text[p + 1] = lines[n].content[(p - at[n]) + 1]
         /\ p >= Top(lines, at, n) => d.text[p + 1] = LineBreak
<1> DEFINE here == at[n]
           size == Len(lines[n].content)
           next == at[n + 1]
<1>1. /\ here \in Nat /\ size \in Nat /\ next \in Nat
      /\ Top(lines, at, n) = here + size
  <2>1. n \in 1 .. Len(lines) + 1 /\ n + 1 \in 1 .. Len(lines) + 1
    OBVIOUS
  <2>2. \A m \in 1 .. Len(lines) + 1 : at[m] \in Nat
    BY StartsGrow DEF Laid
  <2> QED
    BY <2>1, <2>2, LineSizes DEF Top
<1>2. /\ \A k \in 1 .. size : d.text[here + k] = lines[n].content[k]
      /\ \A k \in here + size + 1 .. next : d.text[k] = LineBreak
  BY DEF Laid, Carries
<1>3. here <= p /\ p < next
  OBVIOUS
<1> HIDE DEF here, size, next
<1>4. ASSUME p < here + size
      PROVE  (p - here) + 1 \in 1 .. size /\ d.text[p + 1] = lines[n].content[(p - here) + 1]
  <2>1. (p - here) + 1 \in 1 .. size /\ here + ((p - here) + 1) = p + 1
    BY <1>1, <1>3, <1>4
  <2> QED
    BY <1>2, <2>1
<1>5. ASSUME p >= here + size PROVE d.text[p + 1] = LineBreak
  <2>1. p + 1 \in here + size + 1 .. next
    BY <1>1, <1>3, <1>5
  <2> QED
    BY <1>2, <2>1
<1> QED
  BY <1>1, <1>4, <1>5 DEF here, size

(* Whether a range has a character of the line, or stands within it.       *)
Touched(lines, at, n, start, end) ==
  lines[n].content # <<>> /\ at[n] < end /\ Top(lines, at, n) > start

Begins(d, number) == Min({s.start : s \in {s \in ToSet(d.segments) : s.paragraph = number}})

Marks(d, number, start) ==
  Cardinality({k \in Begins(d, number) .. start - 1 : d.text[k + 1] = Stop})

Located(d, lines, at, par, start, end, first, last) ==
  /\ first \in 1 .. Len(lines) /\ last \in 1 .. Len(lines)
  /\ Touched(lines, at, first, start, end) /\ Touched(lines, at, last, start, end)
  /\ \A n \in 1 .. Len(lines) : Touched(lines, at, n, start, end) => first <= n /\ n <= last
  /\ Begins(d, par[first]) \in Nat /\ Begins(d, par[first]) <= at[first]
  /\ Location(d, start, end) =
       [page |-> lines[first].page,
        pageEnd |-> IF lines[last].page # lines[first].page THEN lines[last].page ELSE 0,
        lineStart |-> lines[first].line, lineEnd |-> lines[last].line,
        paragraph |-> par[first], sentence |-> Marks(d, par[first], start)]

LEMMA LocationIs ==
  ASSUME NEW lines \in Seq(SourceLines), NEW d, NEW at, NEW par, Laid(d, lines, at, par),
         NEW start \in Nat, NEW end \in Nat, start < end, end <= Len(d.text)
  PROVE  \/ /\ Location(d, start, end) = None
            /\ \A n \in 1 .. Len(lines) : ~Touched(lines, at, n, start, end)
         \/ \E first, last : Located(d, lines, at, par, start, end, first, last)
<1> DEFINE N == Len(lines)
           segments == d.segments
           meeting == {i \in DOMAIN segments : segments[i].start < end /\ segments[i].end > start}
           from    == segments[Min(meeting)]
           to      == segments[Max(meeting)]
<1>1. PICK filled :
        /\ Ascends(filled, Filled(lines, N)) /\ Len(segments) = Len(filled)
        /\ \A i \in 1 .. Len(filled) : segments[i] = SegmentOf(lines, at, par, filled[i])
  BY DEF Laid, Mapped
<1>2. /\ N \in Nat /\ segments \in Seq(Segments) /\ DOMAIN segments = 1 .. Len(filled)
      /\ Len(filled) \in Nat
  <2>1. segments \in Seq(Segments)
    BY DEF Laid, Documents
  <2> QED
    BY <1>1, <2>1
<1>3. \A i \in 1 .. Len(filled) : filled[i] \in 1 .. N /\ lines[filled[i]].content # <<>>
  <2>1. filled \in Seq(Filled(lines, N))
    BY <1>1 DEF Ascends
  <2>2. \A i \in 1 .. Len(filled) : filled[i] \in Filled(lines, N)
    BY <2>1, ElementOfSeq
  <2> QED
    BY <2>2 DEF Filled
<1>4. \A n \in 1 .. N : at[n] \in Nat /\ Top(lines, at, n) \in Nat
  <2>1. \A n \in 1 .. N : n \in 1 .. N + 1
    BY <1>2
  <2> QED
    BY <2>1, StartsGrow DEF Laid, Top
<1>5. \A i \in 1 .. Len(filled) :
        /\ segments[i].start = at[filled[i]] /\ segments[i].end = Top(lines, at, filled[i])
        /\ segments[i].page = lines[filled[i]].page /\ segments[i].line = lines[filled[i]].line
        /\ segments[i].paragraph = par[filled[i]]
  <2>1. \A n : LET s == SegmentOf(lines, at, par, n)
               IN /\ s.start = at[n] /\ s.end = Top(lines, at, n) /\ s.page = lines[n].page
                  /\ s.line = lines[n].line /\ s.paragraph = par[n]
    BY DEF SegmentOf, Top
  <2>2. \A i \in 1 .. Len(filled) : segments[i] = SegmentOf(lines, at, par, filled[i])
    BY <1>1
  <2> HIDE DEF segments
  <2> TAKE i \in 1 .. Len(filled)
  <2>3. segments[i] = SegmentOf(lines, at, par, filled[i])
    BY <2>2
  <2> DEFINE s == SegmentOf(lines, at, par, filled[i])
  <2>4. /\ s.start = at[filled[i]] /\ s.end = Top(lines, at, filled[i])
        /\ s.page = lines[filled[i]].page /\ s.line = lines[filled[i]].line
        /\ s.paragraph = par[filled[i]]
    BY <2>1, Zenon
  <2> HIDE DEF s
  <2> QED
    <3>1. segments[i] = s
      BY <2>3 DEF s
    <3> QED
      BY <2>4, <3>1
<1>6. \A i \in 1 .. Len(filled) : i \in meeting <=> Touched(lines, at, filled[i], start, end)
  <2> HIDE DEF segments
  <2> QED
    BY <1>2, <1>3, <1>5 DEF Touched
<1>7. meeting \subseteq 1 .. Len(filled)
  BY <1>2
<1>8. ASSUME NEW n \in 1 .. N, Touched(lines, at, n, start, end)
      PROVE  \E i \in meeting : filled[i] = n
  <2>1. n \in Filled(lines, N)
    BY <1>2, <1>8 DEF Filled, Touched
  <2>2. PICK i \in 1 .. Len(filled) : filled[i] = n
    BY <1>1, <2>1 DEF Ascends
  <2> HIDE DEF meeting
  <2> QED
    BY <1>6, <1>8, <2>2
<1>9. Location(d, start, end) =
        IF start >= end \/ end > Len(d.text) \/ meeting = {} THEN None
        ELSE [page |-> from.page, pageEnd |-> IF to.page # from.page THEN to.page ELSE 0,
              lineStart |-> from.line, lineEnd |-> to.line, paragraph |-> from.paragraph,
              sentence |-> Marks(d, from.paragraph, start)]
  BY DEF Location, Marks, Begins
<1>10. ~(start >= end) /\ ~(end > Len(d.text))
  <2>1. Len(d.text) \in Nat
    BY DEF Laid, Documents
  <2> QED
    BY <2>1
<1> HIDE DEF meeting, segments, N
<1>11. CASE meeting = {}
  <2>1. Location(d, start, end) = None
    BY <1>9, <1>11
  <2> QED
    BY <1>8, <1>11, <2>1 DEF N
<1>12. CASE meeting # {}
  <2>1. meeting \in SUBSET Nat /\ \A i \in meeting : i <= Len(filled)
    BY <1>2, <1>7
  <2>2. Min(meeting) \in meeting /\ \A i \in meeting : Min(meeting) <= i
    BY <1>12, <2>1, MinIsLeast
  <2>3. Max(meeting) \in meeting /\ \A i \in meeting : i <= Max(meeting)
    BY <1>2, <2>1, <2>2, MaxIsGreatest
  <2> DEFINE first == filled[Min(meeting)]
             last  == filled[Max(meeting)]
  <2>4. /\ first \in 1 .. N /\ last \in 1 .. N
        /\ Touched(lines, at, first, start, end) /\ Touched(lines, at, last, start, end)
    BY <1>3, <1>6, <1>7, <2>2, <2>3
  <2>5. \A i, j \in 1 .. Len(filled) : i <= j => filled[i] <= filled[j]
    <3>1. \A i \in 1 .. Len(filled) : filled[i] \in Nat
      BY <1>2, <1>3
    <3>2. \A i, j \in 1 .. Len(filled) : i < j => filled[i] < filled[j]
      BY <1>1 DEF Ascends
    <3> QED
      BY <3>1, <3>2
  <2>6. ASSUME NEW n \in 1 .. N, Touched(lines, at, n, start, end)
        PROVE  first <= n /\ n <= last
    <3>1. PICK i \in meeting : filled[i] = n
      BY <1>8, <2>6
    <3> QED
      BY <1>7, <2>2, <2>3, <2>5, <3>1
  <2>7. /\ from.page = lines[first].page /\ from.line = lines[first].line
        /\ from.paragraph = par[first] /\ from.start = at[first]
        /\ to.page = lines[last].page /\ to.line = lines[last].line
    BY <1>5, <1>7, <2>2, <2>3
  <2>8. Begins(d, par[first]) \in Nat /\ Begins(d, par[first]) <= at[first]
    <3> DEFINE alike  == {s \in ToSet(d.segments) : s.paragraph = par[first]}
               starts == {s.start : s \in alike}
    <3>1. ToSet(d.segments) \subseteq Segments
      <4>1. d.segments \in Seq(Segments)
        BY <1>2 DEF segments
      <4> QED
        BY <4>1, ElementOfSeq DEF ToSet
    <3>2. starts \in SUBSET Nat
      BY <3>1 DEF Segments
    <3>3. from \in ToSet(d.segments)
      BY <1>2, <1>7, <2>2 DEF ToSet, segments
    <3>4. at[first] \in starts
      BY <2>7, <3>3
    <3>5. Begins(d, par[first]) = Min(starts)
      BY DEF Begins
    <3> HIDE DEF starts
    <3>6. Min(starts) \in starts /\ Min(starts) <= at[first]
      BY <3>2, <3>4, MinIsLeast
    <3> QED
      BY <3>2, <3>5, <3>6
  <2>9. Location(d, start, end) =
          [page |-> lines[first].page,
           pageEnd |-> IF lines[last].page # lines[first].page THEN lines[last].page ELSE 0,
           lineStart |-> lines[first].line, lineEnd |-> lines[last].line,
           paragraph |-> par[first], sentence |-> Marks(d, par[first], start)]
    BY <1>9, <1>10, <1>12, <2>7
  <2> HIDE DEF first, last
  <2>10. Located(d, lines, at, par, start, end, first, last)
    BY <2>4, <2>6, <2>8, <2>9 DEF Located, N
  <2> QED
    BY <2>10
<1> QED
  BY <1>11, <1>12

(* Of two lines the first ends, and is followed by a break, before the     *)
(* second starts.                                                          *)
LEMMA LinesFollow ==
  ASSUME NEW lines \in Seq(SourceLines), NEW at, Starts(at, lines),
         NEW i \in 1 .. Len(lines)
  PROVE  /\ at[i] \in Nat /\ Top(lines, at, i) \in Nat /\ at[i + 1] \in Nat
         /\ at[i] <= Top(lines, at, i) /\ Top(lines, at, i) <= at[i + 1]
         /\ at[i + 1] <= at[Len(lines) + 1]
         /\ i < Len(lines) => Top(lines, at, i) < at[i + 1]
         /\ Ends(lines, i) => at[i + 1] = Top(lines, at, i) + 2
         /\ ~Ends(lines, i) => at[i + 1] <= Top(lines, at, i) + 1
         /\ \A j \in 1 .. Len(lines) + 1 : i < j => at[i + 1] <= at[j]
<1> DEFINE N == Len(lines)
           size == Len(lines[i].content)
<1>1. N \in Nat /\ i \in 1 .. N + 1 /\ i + 1 \in 1 .. N + 1 /\ N + 1 \in 1 .. N + 1 /\ i \in Nat
  OBVIOUS
<1>2. \A n \in 1 .. N + 1 : at[n] \in Nat
  BY StartsGrow
<1>3. size \in Nat /\ lines[i].breakAfter \in BOOLEAN
  BY LineSizes
<1>4. at[i + 1] = at[i] + size + Gap(lines, i)
  BY DEF Starts
<1>5. Top(lines, at, i) = at[i] + size
  BY DEF Top
<1>6. \A n \in 1 .. N + 1 : \A m \in 1 .. n : at[m] <= at[n]
  BY StartsGrow
<1>7. /\ Gap(lines, i) \in Nat
      /\ i < N => Gap(lines, i) >= 1
      /\ Ends(lines, i) => Gap(lines, i) = 2
      /\ ~Ends(lines, i) => Gap(lines, i) <= 1
  BY <1>1, <1>3 DEF Gap, Ends
<1> HIDE DEF N, size
<1>8. at[i + 1] <= at[N + 1]
  BY <1>1, <1>6
<1>9. \A j \in 1 .. N + 1 : i < j => at[i + 1] <= at[j]
  <2> TAKE j \in 1 .. N + 1
  <2> HAVE i < j
  <2>1. i + 1 \in 1 .. j
    BY <1>1
  <2> QED
    BY <1>6, <2>1
<1>10. at[i] \in Nat /\ at[i + 1] \in Nat
  BY <1>1, <1>2
<1>11. /\ Top(lines, at, i) \in Nat
       /\ at[i] <= Top(lines, at, i) /\ Top(lines, at, i) <= at[i + 1]
       /\ i < N => Top(lines, at, i) < at[i + 1]
       /\ Ends(lines, i) => at[i + 1] = Top(lines, at, i) + 2
       /\ ~Ends(lines, i) => at[i + 1] <= Top(lines, at, i) + 1
  <2> DEFINE here == at[i]
             gap  == Gap(lines, i)
             next == at[i + 1]
             top  == Top(lines, at, i)
  <2>1. here \in Nat /\ size \in Nat /\ gap \in Nat /\ top = here + size /\ next = here + size + gap
    BY <1>3, <1>4, <1>5, <1>7, <1>10
  <2>2. (i < N => gap >= 1) /\ (Ends(lines, i) => gap = 2) /\ (~Ends(lines, i) => gap <= 1)
    BY <1>7
  <2> HIDE DEF here, gap, next, top
  <2>3. top \in Nat /\ here <= top /\ top <= next /\ (i < N => top < next)
    BY <2>1, <2>2
  <2>4. (Ends(lines, i) => next = top + 2) /\ (~Ends(lines, i) => next <= top + 1)
    BY <2>1, <2>2
  <2> QED
    BY <2>3, <2>4 DEF here, next, top
<1> QED
  BY <1>8, <1>9, <1>10, <1>11 DEF N

LEMMA BreaksOnly ==
  ASSUME NEW lines \in Seq(SourceLines), NEW d, NEW at, NEW par, Laid(d, lines, at, par),
         NEW start \in Nat, NEW end \in Nat, end <= Len(d.text),
         \A n \in 1 .. Len(lines) : ~Touched(lines, at, n, start, end),
         NEW p \in start .. end - 1
  PROVE  d.text[p + 1] = LineBreak
<1>1. Starts(at, lines) /\ Len(d.text) = at[Len(lines) + 1] /\ Len(d.text) \in Nat
  BY DEF Laid, Documents
<1>2. p \in Nat /\ p < at[Len(lines) + 1] /\ p < end /\ start <= p
  BY <1>1
<1>3. PICK n \in 1 .. Len(lines) : at[n] <= p /\ p < at[n + 1]
  BY <1>1, <1>2, LineOf
<1>4. ASSUME p < Top(lines, at, n) PROVE FALSE
  <2>1. (p - at[n]) + 1 \in 1 .. Len(lines[n].content)
    BY <1>2, <1>3, <1>4, TextAt
  <2>2. lines[n].content # <<>>
    BY <2>1
  <2>3. at[n] \in Nat /\ Top(lines, at, n) \in Nat
    BY <1>1, LinesFollow
  <2> QED
    BY <1>2, <1>3, <1>4, <2>2, <2>3 DEF Touched
<1>5. Top(lines, at, n) \in Nat
  BY <1>1, LinesFollow
<1>6. p >= Top(lines, at, n)
  BY <1>2, <1>4, <1>5
<1> QED
  BY <1>2, <1>3, <1>6, TextAt

(* A range that starts with a character that is not white starts in the    *)
(* first line it meets, and one that ends so ends in the last.             *)
LEMMA FirstHolds ==
  ASSUME NEW lines \in Seq(SourceLines), NEW d, NEW at, NEW par, Laid(d, lines, at, par),
         NEW start \in Nat, NEW end \in Nat, start < end, end <= Len(d.text),
         NEW first, NEW last, Located(d, lines, at, par, start, end, first, last),
         d.text[start + 1] \notin White
  PROVE  at[first] <= start /\ start < Top(lines, at, first)
<1>1. Starts(at, lines) /\ Len(d.text) = at[Len(lines) + 1] /\ Len(d.text) \in Nat
  BY DEF Laid, Documents
<1>2. start < at[Len(lines) + 1]
  BY <1>1
<1>3. PICK n \in 1 .. Len(lines) : at[n] <= start /\ start < at[n + 1]
  BY <1>1, <1>2, LineOf
<1>4. at[n] \in Nat /\ Top(lines, at, n) \in Nat
  BY <1>1, LinesFollow
<1>5. start < Top(lines, at, n)
  <2>1. start >= Top(lines, at, n) => d.text[start + 1] = LineBreak
    BY <1>3, TextAt
  <2>2. LineBreak \in White
    BY DEF White
  <2> QED
    BY <1>4, <2>1, <2>2
<1>6. lines[n].content # <<>>
  <2>1. (start - at[n]) + 1 \in 1 .. Len(lines[n].content)
    BY <1>3, <1>5, TextAt
  <2> QED
    BY <2>1
<1>7. Touched(lines, at, n, start, end)
  BY <1>3, <1>4, <1>5, <1>6 DEF Touched
<1>8. first <= n /\ first \in 1 .. Len(lines) /\ Top(lines, at, first) > start
  BY <1>7 DEF Located, Touched
<1>9. ~(first < n)
  <2> SUFFICES ASSUME first < n PROVE FALSE
    OBVIOUS
  <2>1. n \in 1 .. Len(lines) + 1
    OBVIOUS
  <2>2. /\ Top(lines, at, first) <= at[first + 1] /\ at[first + 1] <= at[n]
        /\ Top(lines, at, first) \in Nat /\ at[first + 1] \in Nat
    BY <1>1, <1>8, <2>1, LinesFollow
  <2> QED
    BY <1>3, <1>4, <1>8, <2>2
<1>10. first = n
  BY <1>8, <1>9
<1> QED
  BY <1>3, <1>5, <1>10

LEMMA LastHolds ==
  ASSUME NEW lines \in Seq(SourceLines), NEW d, NEW at, NEW par, Laid(d, lines, at, par),
         NEW start \in Nat, NEW end \in Nat, start < end, end <= Len(d.text),
         NEW first, NEW last, Located(d, lines, at, par, start, end, first, last),
         d.text[end] \notin White
  PROVE  at[last] <= end - 1 /\ end - 1 < Top(lines, at, last)
<1>1. Starts(at, lines) /\ Len(d.text) = at[Len(lines) + 1] /\ Len(d.text) \in Nat
  BY DEF Laid, Documents
<1>2. end - 1 \in Nat /\ end - 1 < at[Len(lines) + 1] /\ (end - 1) + 1 = end
  BY <1>1
<1>3. PICK n \in 1 .. Len(lines) : at[n] <= end - 1 /\ end - 1 < at[n + 1]
  BY <1>1, <1>2, LineOf
<1>4. at[n] \in Nat /\ Top(lines, at, n) \in Nat /\ at[n + 1] \in Nat
  BY <1>1, LinesFollow
<1>5. end - 1 < Top(lines, at, n)
  <2>1. end - 1 >= Top(lines, at, n) => d.text[end] = LineBreak
    BY <1>2, <1>3, TextAt
  <2>2. LineBreak \in White
    BY DEF White
  <2> QED
    BY <1>2, <1>4, <2>1, <2>2
<1>6. lines[n].content # <<>>
  <2>1. ((end - 1) - at[n]) + 1 \in 1 .. Len(lines[n].content)
    BY <1>2, <1>3, <1>5, TextAt
  <2> QED
    BY <2>1
<1>7. Touched(lines, at, n, start, end)
  BY <1>2, <1>3, <1>4, <1>5, <1>6 DEF Touched
<1>8. n <= last /\ last \in 1 .. Len(lines) /\ at[last] < end
  BY <1>7 DEF Located, Touched
<1>9. ~(n < last)
  <2> SUFFICES ASSUME n < last PROVE FALSE
    OBVIOUS
  <2>1. last \in 1 .. Len(lines) + 1
    BY <1>8
  <2>2. at[n + 1] <= at[last] /\ at[last] \in Nat
    BY <1>1, <1>8, <2>1, LinesFollow
  <2> QED
    BY <1>2, <1>3, <1>4, <1>8, <2>2
<1>10. last = n
  BY <1>8, <1>9
<1> QED
  BY <1>3, <1>5, <1>10

-----------------------------------------------------------------------------
(* Where paragraphs change                                                 *)

(* The next line has another paragraph number.                             *)
Turns(lines, n) == Ends(lines, n) \/ Blank(lines[n].content)

LEMMA NumbersGrow ==
  ASSUME NEW lines \in Seq(SourceLines), NEW par, Numbers(par, lines),
         NEW j \in 1 .. Len(lines) + 1, NEW i \in 1 .. j
  PROVE  /\ par[i] \in Nat /\ par[j] \in Nat /\ par[i] <= par[j]
         /\ par[i] # par[j] <=> \E l \in i .. j - 1 : Turns(lines, l)
<1> DEFINE N == Len(lines)
           Grown(m, n) == /\ par[m] <= par[n]
                          /\ par[m] # par[n] <=> \E l \in m .. n - 1 : Turns(lines, l)
           T == {n \in 0 .. N : \A m \in 1 .. n + 1 : Grown(m, n + 1)}
<1>1. N \in Nat /\ \A n \in 1 .. N + 1 : par[n] \in Nat
  BY DEF Numbers
<1>2. \A n \in 1 .. N :
        /\ par[n] \in Nat /\ par[n + 1] \in Nat /\ par[n] <= par[n + 1]
        /\ par[n] # par[n + 1] <=> Turns(lines, n)
  <2> TAKE n \in 1 .. N
  <2>1. n \in 1 .. N + 1 /\ n + 1 \in 1 .. N + 1
    BY <1>1
  <2> DEFINE old == par[n]
             new == par[n + 1]
  <2>2. /\ new = old + (IF Ends(lines, n) THEN 1 ELSE 0)
                     + (IF Blank(lines[n].content) THEN 1 ELSE 0)
        /\ old \in Nat /\ new \in Nat
    BY <1>1, <2>1 DEF Numbers
  <2> HIDE DEF old, new
  <2>3. old <= new /\ (old # new <=> Ends(lines, n) \/ Blank(lines[n].content))
    BY <2>2
  <2> QED
    BY <2>2, <2>3 DEF old, new, Turns
<1> HIDE DEF N
<1>3. 0 \in T
  <2>1. \A m \in 1 .. 0 + 1 : m = 1 /\ m .. (0 + 1) - 1 = {}
    OBVIOUS
  <2>2. par[1] \in Nat /\ par[1] <= par[1] /\ 0 + 1 = 1
    BY <1>1
  <2>3. Grown(1, 0 + 1)
    BY <2>1, <2>2
  <2> QED
    BY <1>1, <2>1, <2>3
<1>4. ASSUME NEW n \in 1 .. N, n - 1 \in T PROVE n \in T
  <2>1. (n - 1) + 1 = n /\ (n + 1) - 1 = n /\ n \in 0 .. N /\ n \in Nat
    BY <1>1
  <2>2. \A m \in 1 .. n : Grown(m, n)
    <3>1. \A m \in 1 .. (n - 1) + 1 : Grown(m, (n - 1) + 1)
      BY <1>4
    <3> HIDE DEF Grown
    <3> QED
      BY <2>1, <3>1
  <2>3. ASSUME NEW m \in 1 .. n PROVE Grown(m, n + 1)
    <3> DEFINE here == par[m]
               old  == par[n]
               new  == par[n + 1]
    <3>1. m \in 1 .. N + 1
      BY <1>1
    <3>2. /\ here \in Nat /\ old \in Nat /\ new \in Nat /\ old <= new
          /\ old # new <=> Turns(lines, n)
      BY <1>1, <1>2, <3>1
    <3>3. /\ here <= old
          /\ here # old <=> \E l \in m .. n - 1 : Turns(lines, l)
      BY <2>2
    <3>4. \A l : l \in m .. n <=> (l \in m .. n - 1 \/ l = n)
      BY <2>1
    <3> HIDE DEF here, old, new
    <3>5. here <= new /\ (here # new <=> here # old \/ old # new)
      BY <3>2, <3>3
    <3>6. (\E l \in m .. n : Turns(lines, l))
            <=> (\E l \in m .. n - 1 : Turns(lines, l)) \/ Turns(lines, n)
      BY <3>4
    <3>7. here # new <=> \E l \in m .. n : Turns(lines, l)
      BY <3>2, <3>3, <3>5, <3>6
    <3> QED
      BY <2>1, <3>5, <3>7 DEF here, new
  <2>4. Grown(n + 1, n + 1)
    <3>1. (n + 1) .. (n + 1) - 1 = {}
      BY <2>1
    <3>2. n + 1 \in 1 .. N + 1
      BY <1>1
    <3>3. par[n + 1] <= par[n + 1]
      BY <1>1, <3>2
    <3> QED
      BY <3>1, <3>3
  <2>5. \A m \in 1 .. n + 1 : m \in 1 .. n \/ m = n + 1
    BY <2>1
  <2> HIDE DEF Grown
  <2> QED
    BY <2>1, <2>3, <2>4, <2>5
<1>5. \A n \in 0 .. N : n \in T
  <2> HIDE DEF T
  <2> QED
    BY <1>1, <1>3, <1>4, UpTo, Zenon
<1>6. j - 1 \in 0 .. N /\ (j - 1) + 1 = j /\ i \in 1 .. N + 1 /\ j \in 1 .. N + 1
  BY <1>1 DEF N
<1>7. Grown(i, j)
  <2>1. \A m \in 1 .. (j - 1) + 1 : Grown(m, (j - 1) + 1)
    BY <1>5, <1>6
  <2> HIDE DEF Grown
  <2> QED
    BY <1>6, <2>1
<1> QED
  BY <1>1, <1>6, <1>7

(* Two line breaks of the text with nothing but white characters between.  *)
BlankLine(content, a, b) ==
  \E p, q \in a .. b - 1 :
    /\ p < q /\ content[p + 1] = LineBreak /\ content[q + 1] = LineBreak
    /\ BlankIn(content, p, q)

(* A character of the i-th line.                                           *)
In(lines, at, i, a) == i \in 1 .. Len(lines) /\ at[i] <= a /\ a < Top(lines, at, i)

LEMMA TurnsAreBlankLines ==
  ASSUME NEW lines \in Seq(SourceLines), NEW d, NEW at, NEW par, Laid(d, lines, at, par),
         NEW a \in Nat, NEW b \in Nat, NEW i, NEW j, In(lines, at, i, a), In(lines, at, j, b),
         d.text[a + 1] \notin White, NEW l \in i .. j - 1, Turns(lines, l)
  PROVE  BlankLine(d.text, a, b)
<1> DEFINE N == Len(lines)
<1>1. /\ N \in Nat /\ i \in 1 .. N /\ j \in 1 .. N /\ l \in 1 .. N /\ i <= l /\ l < j /\ l \in Nat
      /\ Starts(at, lines) /\ at[i] <= a /\ a < Top(lines, at, i) /\ at[j] <= b
      /\ l < N /\ j \in 1 .. N + 1 /\ l \in 1 .. N + 1
  BY DEF In, Laid
<1>2. /\ at[l] \in Nat /\ Top(lines, at, l) \in Nat /\ at[l + 1] \in Nat
      /\ at[l] <= Top(lines, at, l) /\ Top(lines, at, l) < at[l + 1]
      /\ Ends(lines, l) => at[l + 1] = Top(lines, at, l) + 2
      /\ at[l + 1] <= at[j]
  BY <1>1, LinesFollow
<1>3. at[i] \in Nat /\ Top(lines, at, i) \in Nat /\ at[j] \in Nat
  BY <1>1, LinesFollow
<1>4. i < l => Top(lines, at, i) <= at[l]
  <2> SUFFICES ASSUME i < l PROVE Top(lines, at, i) <= at[l]
    OBVIOUS
  <2>1. Top(lines, at, i) <= at[i + 1] /\ at[i + 1] <= at[l] /\ at[i + 1] \in Nat
    BY <1>1, LinesFollow
  <2> QED
    BY <1>2, <1>3, <2>1
<1>5. LineBreak \in White
  BY DEF White
<1> DEFINE here == at[l]
           top  == Top(lines, at, l)
           next == at[l + 1]
<1>6. CASE Ends(lines, l)
  <2>1. a < top
    <3>1. CASE i = l
      BY <1>1, <3>1
    <3>2. CASE i < l
      <4>1. Top(lines, at, i) <= at[l]
        BY <1>4, <3>2
      <4> QED
        BY <1>1, <1>2, <1>3, <4>1
    <3> QED
      BY <1>1, <3>1, <3>2
  <2>2. next = top + 2 /\ next <= b
    BY <1>1, <1>2, <1>3, <1>6
  <2>3. here \in Nat /\ top \in Nat /\ here <= top
    BY <1>2
  <2>4. \A p \in Nat : here <= p /\ p < next /\ p >= top => d.text[p + 1] = LineBreak
    BY <1>1, TextAt
  <2> HIDE DEF here, top, next
  <2>5. d.text[top + 1] = LineBreak /\ d.text[(top + 1) + 1] = LineBreak
    <3>1. top + 1 \in Nat /\ here <= top + 1 /\ top + 1 < next /\ top < next
      BY <2>2, <2>3
    <3> QED
      BY <2>2, <2>3, <2>4, <3>1
  <2>6. BlankIn(d.text, top, top + 1)
    <3>1. \A k \in top .. (top + 1) - 1 : k = top
      BY <2>3
    <3> QED
      BY <1>5, <2>5, <3>1 DEF BlankIn
  <2>7. top \in a .. b - 1 /\ top + 1 \in a .. b - 1 /\ top < top + 1
    BY <2>1, <2>2, <2>3
  <2> QED
    BY <2>5, <2>6, <2>7 DEF BlankLine
<1>7. CASE Blank(lines[l].content)
  <2>1. i # l
    <3> SUFFICES ASSUME i = l PROVE FALSE
      OBVIOUS
    <3>1. a < at[l + 1]
      BY <1>1, <1>2
    <3>2. /\ (a - at[l]) + 1 \in 1 .. Len(lines[l].content)
          /\ d.text[a + 1] = lines[l].content[(a - at[l]) + 1]
      BY <1>1, <3>1, TextAt
    <3>3. DOMAIN lines[l].content = 1 .. Len(lines[l].content)
      BY <1>1, LineSizes
    <3> QED
      BY <1>7, <3>2, <3>3 DEF Blank
  <2> DEFINE m    == l - 1
             last == Top(lines, at, m)
  <2>2. m \in 1 .. N /\ m < N /\ m + 1 = l
    BY <1>1, <2>1
  <2>3. /\ at[m] \in Nat /\ last \in Nat /\ at[m] <= last /\ last < here
    BY <1>1, <2>2, LinesFollow
  <2>4. \A p \in Nat : at[m] <= p /\ p < here /\ p >= last => d.text[p + 1] = LineBreak
    BY <1>1, <2>2, TextAt
  <2>5. here \in Nat /\ top \in Nat /\ next \in Nat /\ here <= top /\ top < next /\ next <= b
    <3>1. next <= at[j] /\ at[j] <= b /\ at[j] \in Nat /\ next \in Nat
      BY <1>1, <1>2, <1>3
    <3>2. next <= b
      <4> DEFINE far == at[j]
      <4> HIDE DEF far, next
      <4> QED
        BY <3>1 DEF far
    <3> QED
      BY <1>2, <3>2
  <2>6. a < here
    <3>1. i < l
      BY <1>1, <2>1
    <3>2. /\ a < Top(lines, at, i) /\ Top(lines, at, i) <= here
          /\ Top(lines, at, i) \in Nat /\ here \in Nat
      BY <1>1, <1>2, <1>3, <1>4, <3>1
    <3> HIDE DEF here
    <3> QED
      BY <3>2
  <2>7. \A p \in Nat : here <= p /\ p < next /\ p >= top => d.text[p + 1] = LineBreak
    BY <1>1, TextAt
  <2>8. \A p \in Nat : here <= p /\ p < top => d.text[p + 1] \in White
    <3> TAKE p \in Nat
    <3> HAVE here <= p /\ p < top
    <3>1. p < next
      BY <2>5
    <3>2. /\ (p - at[l]) + 1 \in 1 .. Len(lines[l].content)
          /\ d.text[p + 1] = lines[l].content[(p - at[l]) + 1]
      BY <1>1, <3>1, TextAt
    <3>3. DOMAIN lines[l].content = 1 .. Len(lines[l].content)
      BY <1>1, LineSizes
    <3> QED
      BY <1>7, <3>2, <3>3 DEF Blank
  <2> DEFINE begin == at[m]
  <2>9. begin \in Nat /\ last \in Nat /\ begin <= last /\ last < here
        /\ \A p \in Nat : begin <= p /\ p < here /\ p >= last => d.text[p + 1] = LineBreak
    BY <2>3, <2>4
  <2> HIDE DEF here, top, next, last, begin
  <2>10. d.text[(here - 1) + 1] = LineBreak
    <3>1. here - 1 \in Nat /\ begin <= here - 1 /\ here - 1 < here /\ here - 1 >= last
      BY <2>5, <2>9
    <3> QED
      BY <2>9, <3>1
  <2>11. d.text[top + 1] = LineBreak
    <3>1. here <= top /\ top < next /\ top >= top
      BY <2>5
    <3> QED
      BY <2>5, <2>7, <3>1
  <2>12. BlankIn(d.text, here - 1, top)
    <3> SUFFICES ASSUME NEW k \in here - 1 .. top - 1 PROVE d.text[k + 1] \in White
      BY DEF BlankIn
    <3>1. k = here - 1 \/ (k \in Nat /\ here <= k /\ k < top)
      BY <2>5
    <3> QED
      BY <1>5, <2>8, <2>10, <3>1
  <2>13. here - 1 \in a .. b - 1 /\ top \in a .. b - 1 /\ here - 1 < top
    BY <2>5, <2>6
  <2> QED
    BY <2>10, <2>11, <2>12, <2>13 DEF BlankLine
<1> QED
  BY <1>6, <1>7 DEF Turns

(* The line breaks of the text stand between its lines, or the lines are   *)
(* paragraphs, without a blank line in any of them.                        *)
BreaksBetween(lines) ==
  \A n \in 1 .. Len(lines) : \A k \in 1 .. Len(lines[n].content) :
    lines[n].content[k] # LineBreak

WholeParagraphs(lines) ==
  \A n \in 1 .. Len(lines) :
    /\ n < Len(lines) => lines[n].breakAfter
    /\ ~\E j, k \in DOMAIN lines[n].content :
         /\ j < k /\ lines[n].content[j] = LineBreak /\ lines[n].content[k] = LineBreak
         /\ Blank(Sub(lines[n].content, j, k))

LEMMA BlankLinesAreTurns ==
  ASSUME NEW lines \in Seq(SourceLines), NEW d, NEW at, NEW par, Laid(d, lines, at, par),
         BreaksBetween(lines) \/ WholeParagraphs(lines),
         NEW a \in Nat, NEW b \in Nat, NEW i, NEW j, In(lines, at, i, a), In(lines, at, j, b),
         BlankLine(d.text, a, b)
  PROVE  \E l \in i .. j - 1 : Turns(lines, l)
<1> DEFINE N == Len(lines)
<1>1. /\ N \in Nat /\ i \in 1 .. N /\ j \in 1 .. N /\ Starts(at, lines)
      /\ at[i] <= a /\ a < Top(lines, at, i) /\ at[j] <= b /\ b < Top(lines, at, j)
      /\ Len(d.text) = at[N + 1] /\ i \in 1 .. N + 1 /\ j \in 1 .. N + 1
  BY DEF In, Laid
<1>2. PICK p \in a .. b - 1 : \E q \in a .. b - 1 :
        /\ p < q /\ d.text[p + 1] = LineBreak /\ d.text[q + 1] = LineBreak
        /\ BlankIn(d.text, p, q)
  BY DEF BlankLine
<1>3. PICK q \in a .. b - 1 :
        /\ p < q /\ d.text[p + 1] = LineBreak /\ d.text[q + 1] = LineBreak
        /\ BlankIn(d.text, p, q)
  BY <1>2
<1>4. p \in Nat /\ q \in Nat /\ a <= p /\ p < q /\ q < b
  BY <1>3
<1>5. /\ at[j] \in Nat /\ Top(lines, at, j) \in Nat /\ at[j + 1] \in Nat
      /\ Top(lines, at, j) <= at[j + 1] /\ at[j + 1] <= at[N + 1] /\ at[N + 1] \in Nat
  <2>1. N + 1 \in 1 .. N + 1
    BY <1>1
  <2>2. at[N + 1] \in Nat
    BY <1>1, <2>1, StartsGrow
  <2> QED
    BY <1>1, <2>2, LinesFollow
<1>6. p < at[N + 1] /\ q < at[N + 1]
  <2> DEFINE top  == Top(lines, at, j)
             next == at[j + 1]
             all  == at[N + 1]
  <2>1. /\ top \in Nat /\ next \in Nat /\ all \in Nat /\ top <= next /\ next <= all
        /\ p \in Nat /\ q \in Nat /\ p < q /\ q < b /\ b < top
    BY <1>1, <1>4, <1>5
  <2> HIDE DEF top, next, all
  <2>2. p < all /\ q < all
    BY <2>1
  <2> QED
    BY <2>2 DEF all
<1>7. PICK m \in 1 .. N : at[m] <= p /\ p < at[m + 1]
  BY <1>1, <1>4, <1>6, LineOf
<1>8. PICK n \in 1 .. N : at[n] <= q /\ q < at[n + 1]
  BY <1>1, <1>4, <1>6, LineOf
<1>9. /\ at[m] \in Nat /\ Top(lines, at, m) \in Nat /\ at[m + 1] \in Nat
      /\ at[m] <= Top(lines, at, m) /\ Top(lines, at, m) <= at[m + 1]
      /\ ~Ends(lines, m) => at[m + 1] <= Top(lines, at, m) + 1
      /\ m \in 1 .. N + 1
  BY <1>1, LinesFollow
<1>10. /\ at[n] \in Nat /\ Top(lines, at, n) \in Nat /\ at[n + 1] \in Nat
       /\ at[n] <= Top(lines, at, n) /\ Top(lines, at, n) <= at[n + 1]
       /\ n \in 1 .. N + 1
  BY <1>1, LinesFollow
<1>11. at[i] \in Nat
  BY <1>1, LinesFollow
(* Lines that follow.                                                      *)
<1>12. \A x \in 1 .. N : \A y \in 1 .. N : x < y => at[x + 1] <= at[y]
  <2>1. \A y \in 1 .. N : y \in 1 .. N + 1
    BY <1>1
  <2> QED
    BY <1>1, <2>1, LinesFollow
<1>13. m <= n /\ i <= m /\ n <= j
  <2>1. ~(n < m)
    <3>1. n < m => at[n + 1] <= at[m]
      BY <1>12
    <3> QED
      BY <1>4, <1>7, <1>8, <1>9, <1>10, <3>1
  <2>2. ~(m < i)
    <3>1. m < i => at[m + 1] <= at[i]
      BY <1>1, <1>12
    <3> QED
      BY <1>1, <1>4, <1>7, <1>9, <1>11, <3>1
  <2>3. ~(j < n)
    <3> DEFINE here == at[n]
               top  == Top(lines, at, j)
               next == at[j + 1]
    <3>1. j < n => next <= here
      BY <1>1, <1>12
    <3>2. /\ here \in Nat /\ top \in Nat /\ next \in Nat /\ top <= next /\ here <= q /\ q < b
          /\ b < top /\ q \in Nat
      BY <1>1, <1>4, <1>5, <1>8, <1>10
    <3> HIDE DEF here, top, next
    <3> QED
      BY <3>1, <3>2
  <2> QED
    BY <1>1, <2>1, <2>2, <2>3
<1>14. p >= Top(lines, at, m) => m # j
  BY <1>1, <1>4, <1>9
<1>15. q >= Top(lines, at, n) => n # j
  BY <1>1, <1>4, <1>10
<1>16. m # j => m \in i .. j - 1
  BY <1>1, <1>13
<1>17. n # j => n \in i .. j - 1
  BY <1>1, <1>13
<1>18. p < Top(lines, at, m) =>
         /\ (p - at[m]) + 1 \in 1 .. Len(lines[m].content)
         /\ lines[m].content[(p - at[m]) + 1] = LineBreak
  <2>1. p < Top(lines, at, m) =>
          /\ (p - at[m]) + 1 \in 1 .. Len(lines[m].content)
          /\ d.text[p + 1] = lines[m].content[(p - at[m]) + 1]
    BY <1>4, <1>7, TextAt
  <2> QED
    BY <1>3, <2>1, Zenon
<1>19. q < Top(lines, at, n) =>
         /\ (q - at[n]) + 1 \in 1 .. Len(lines[n].content)
         /\ lines[n].content[(q - at[n]) + 1] = LineBreak
  <2>1. q < Top(lines, at, n) =>
          /\ (q - at[n]) + 1 \in 1 .. Len(lines[n].content)
          /\ d.text[q + 1] = lines[n].content[(q - at[n]) + 1]
    BY <1>4, <1>8, TextAt
  <2> QED
    BY <1>3, <2>1, Zenon
<1>20. CASE BreaksBetween(lines)
  <2>1. p >= Top(lines, at, m) /\ q >= Top(lines, at, n)
    <3>1. ~(p < Top(lines, at, m))
      BY <1>18, <1>20 DEF BreaksBetween
    <3>2. ~(q < Top(lines, at, n))
      BY <1>19, <1>20 DEF BreaksBetween
    <3>3. p \in Nat /\ q \in Nat /\ Top(lines, at, m) \in Nat /\ Top(lines, at, n) \in Nat
      BY <1>4, <1>9, <1>10
    <3> QED
      BY <3>1, <3>2, <3>3
  <2>2. CASE m = n
    <3>1. Ends(lines, m)
      BY <1>4, <1>8, <1>9, <2>1, <2>2
    <3> QED
      BY <1>14, <1>16, <2>1, <3>1 DEF Turns
  <2>3. CASE m # n
    <3>1. at[m + 1] <= at[n]
      BY <1>12, <1>13, <2>3
    <3>2. ASSUME NEW k \in 1 .. Len(lines[n].content) PROVE lines[n].content[k] \in White
      <4> DEFINE here == at[n]
                 size == Len(lines[n].content)
                 x    == here + (k - 1)
      <4>1. here \in Nat /\ size \in Nat /\ Top(lines, at, n) = here + size
        BY <1>10, LineSizes DEF Top
      <4>2. k \in 1 .. size /\ p < here /\ here + size <= q
        <5>1. k \in 1 .. size
          OBVIOUS
        <5>2. here + size <= q
          BY <2>1, <4>1
        <5>3. p < at[n]
          BY <1>4, <1>7, <1>9, <1>10, <3>1
        <5> QED
          BY <5>1, <5>2, <5>3
      <4>3. here + size <= at[n + 1] /\ at[n + 1] \in Nat
        BY <1>10, <4>1
      <4> HIDE DEF here, size
      <4>4. /\ x \in Nat /\ here <= x /\ x < here + size /\ (x - here) + 1 = k /\ x < at[n + 1]
            /\ x \in p .. q - 1
        <5> DEFINE next == at[n + 1]
        <5>1. /\ here \in Nat /\ size \in Nat /\ k \in 1 .. size /\ p \in Nat /\ q \in Nat
              /\ p < here /\ here + size <= q /\ here + size <= next /\ next \in Nat
          BY <1>4, <4>1, <4>2, <4>3
        <5> HIDE DEF next
        <5>2. /\ x \in Nat /\ here <= x /\ x < here + size /\ (x - here) + 1 = k
          BY <5>1
        <5>3. x < next /\ x \in p .. q - 1
          BY <5>1, <5>2
        <5> QED
          BY <5>2, <5>3 DEF next
      <4> HIDE DEF x
      <4>5. d.text[x + 1] = lines[n].content[(x - at[n]) + 1]
        <5>1. /\ at[n] <= x /\ x < at[n + 1] /\ x < Top(lines, at, n) /\ x \in Nat
              /\ n \in 1 .. Len(lines)
          BY <4>1, <4>4 DEF here
        <5> QED
          BY <5>1, TextAt
      <4>6. d.text[x + 1] \in White
        BY <1>3, <4>4 DEF BlankIn
      <4> QED
        BY <4>4, <4>5, <4>6 DEF here
    <3>3. Blank(lines[n].content)
      <4>1. DOMAIN lines[n].content = 1 .. Len(lines[n].content)
        BY LineSizes
      <4> QED
        BY <3>2, <4>1 DEF Blank
    <3> QED
      BY <1>15, <1>17, <2>1, <3>3 DEF Turns
  <2> QED
    BY <2>2, <2>3
<1>21. CASE WholeParagraphs(lines)
  <2>1. \A l \in 1 .. N : l < N => Ends(lines, l)
    BY <1>21 DEF WholeParagraphs, Ends
  <2>2. m # j => Ends(lines, m)
    BY <1>1, <1>13, <2>1
  <2>3. n # j => Ends(lines, n)
    BY <1>1, <1>13, <2>1
  <2>4. CASE m # j
    BY <1>16, <2>2, <2>4 DEF Turns
  <2>5. CASE n # j
    BY <1>17, <2>3, <2>5 DEF Turns
  <2>6. CASE m = j /\ n = j
    <3> DEFINE content == lines[m].content
               here == at[m]
               size == Len(content)
               first  == (p - here) + 1
               second == (q - here) + 1
    <3>1. p < Top(lines, at, m) /\ q < Top(lines, at, n)
      BY <1>4, <1>9, <1>10, <1>14, <1>15, <2>6
    <3>2. /\ first \in 1 .. size /\ second \in 1 .. size
          /\ content[first] = LineBreak /\ content[second] = LineBreak
      BY <1>18, <1>19, <2>6, <3>1
    <3>3. /\ content \in Seq(Int) /\ size \in Nat /\ here \in Nat
          /\ DOMAIN content = 1 .. size /\ here <= p
      BY <1>7, <1>9, LineSizes
    <3>4. at[m + 1] \in Nat /\ Top(lines, at, m) = here + size /\ here + size <= at[m + 1]
      BY <1>9 DEF Top
    <3>5. \A x \in Nat : here <= x /\ x < here + size => d.text[x + 1] = content[(x - here) + 1]
      <4> TAKE x \in Nat
      <4> HAVE here <= x /\ x < here + size
      <4>1. x < at[m + 1]
        <5> DEFINE next == at[m + 1]
        <5>1. here + size <= next /\ next \in Nat /\ here \in Nat /\ size \in Nat
          BY <3>3, <3>4
        <5> HIDE DEF here, size, next
        <5>2. x < next
          BY <5>1
        <5> QED
          BY <5>2 DEF next
      <4> QED
        BY <3>4, <4>1, TextAt
    <3> HIDE DEF content, here, size
    <3>6. BlankIn(content, first, second)
      <4> SUFFICES ASSUME NEW t \in first .. second - 1 PROVE content[t + 1] \in White
        BY DEF BlankIn
      <4> DEFINE x == here + t
      <4>1. first \in Nat /\ second \in Nat /\ second <= size
        BY <3>2, <3>3
      <4>2. /\ x \in Nat /\ here <= x /\ x < here + size /\ (x - here) + 1 = t + 1
            /\ p < x /\ x <= q
        BY <1>4, <3>3, <4>1
      <4> HIDE DEF x
      <4>3. d.text[x + 1] = content[t + 1]
        BY <3>5, <4>2
      <4>4. x \in p .. q - 1 \/ x = q
        BY <1>4, <4>2
      <4>5. d.text[x + 1] \in White
        <5>1. LineBreak \in White
          BY DEF White
        <5> QED
          BY <1>3, <4>4, <5>1 DEF BlankIn
      <4> QED
        BY <4>3, <4>5
    <3>7. first < second /\ first \in Nat /\ second \in Nat /\ second <= size
      BY <1>4, <3>2, <3>3
    <3> HIDE DEF first, second
    <3>8. Blank(Sub(content, first, second))
      BY <3>3, <3>6, <3>7, BlankPart DEF size
    <3>9. first \in DOMAIN content /\ second \in DOMAIN content
      BY <3>2, <3>3
    <3> QED
      BY <1>21, <3>2, <3>7, <3>8, <3>9 DEF WholeParagraphs, content
  <2> QED
    BY <2>4, <2>5, <2>6
<1> QED
  BY <1>20, <1>21

(* The marks from one place to a later one.                                *)
Stops(content, a, b) == Cardinality({k \in a .. b - 1 : content[k + 1] = Stop})

LEMMA MarksAdd ==
  ASSUME NEW content, NEW begin \in Nat, NEW a \in Nat, NEW b \in Nat, begin <= a, a <= b
  PROVE  Stops(content, begin, b) - Stops(content, begin, a) = Stops(content, a, b)
<1> DEFINE all   == {k \in begin .. b - 1 : content[k + 1] = Stop}
           early == {k \in begin .. a - 1 : content[k + 1] = Stop}
           late  == {k \in a .. b - 1 : content[k + 1] = Stop}
<1>1. all = early \cup late /\ early \cap late = {}
  OBVIOUS
<1>2. IsFiniteSet(early) /\ IsFiniteSet(late)
  <2>1. IsFiniteSet(begin .. a - 1) /\ IsFiniteSet(a .. b - 1)
    BY FS_Interval
  <2> QED
    BY <2>1, FS_Subset
<1> HIDE DEF all, early, late
<1>3. Cardinality(all) = Cardinality(early) + Cardinality(late) - Cardinality(early \cap late)
  BY <1>1, <1>2, FS_Union
<1>4. Cardinality(early \cap late) = 0
  BY <1>1, FS_EmptySet
<1>5. Cardinality(early) \in Nat /\ Cardinality(late) \in Nat
  BY <1>2, FS_CardinalityType
<1>6. Cardinality(all) - Cardinality(early) = Cardinality(late)
  BY <1>3, <1>4, <1>5
<1> QED
  BY <1>6 DEF Stops, all, early, late

(* What the locations of two places of the text say of each other.         *)
Compared(lines, d, a, aEnd, b, bEnd) ==
  LET from == Location(d, a, aEnd)
      to   == Location(d, b, bEnd)
  IN /\ from.paragraph <= to.paragraph
     /\ from.paragraph # to.paragraph => BlankLine(d.text, a, b)
     /\ (BreaksBetween(lines) \/ WholeParagraphs(lines)) /\ BlankLine(d.text, a, b)
          => from.paragraph # to.paragraph
     /\ from.paragraph = to.paragraph =>
          to.sentence - from.sentence = Stops(d.text, a, b)

(* What Compared says holds of any two places that start at characters a   *)
(* reader sees.                                                            *)
THEOREM PlacesCompare ==
  ASSUME NEW lines \in Seq(SourceLines), NEW d, NEW at, NEW par, Laid(d, lines, at, par),
         NEW a \in Nat, NEW aEnd \in Nat, a < aEnd, aEnd <= Len(d.text),
         NEW b \in Nat, NEW bEnd \in Nat, b < bEnd, bEnd <= Len(d.text), a < b,
         Location(d, a, aEnd) # None, Location(d, b, bEnd) # None,
         d.text[a + 1] \notin White, d.text[b + 1] \notin White
  PROVE  Compared(lines, d, a, aEnd, b, bEnd)
<1>1. PICK i, aLast : Located(d, lines, at, par, a, aEnd, i, aLast)
  BY LocationIs
<1>2. PICK j, bLast : Located(d, lines, at, par, b, bEnd, j, bLast)
  BY LocationIs
<1>3. Starts(at, lines) /\ Numbers(par, lines)
  BY DEF Laid
<1>4. at[i] <= a /\ a < Top(lines, at, i) /\ i \in 1 .. Len(lines)
  BY <1>1, FirstHolds DEF Located
<1>5. at[j] <= b /\ b < Top(lines, at, j) /\ j \in 1 .. Len(lines)
  BY <1>2, FirstHolds DEF Located
<1>6. In(lines, at, i, a) /\ In(lines, at, j, b)
  BY <1>4, <1>5 DEF In
<1>7. i <= j
  <2>1. ~(j < i)
    <3> SUFFICES ASSUME j < i PROVE FALSE
      OBVIOUS
    <3>1. i \in 1 .. Len(lines) + 1
      BY <1>4
    <3>2. /\ Top(lines, at, j) <= at[j + 1] /\ at[j + 1] <= at[i]
          /\ Top(lines, at, j) \in Nat /\ at[j + 1] \in Nat
      BY <1>3, <1>5, <3>1, LinesFollow
    <3>3. at[i] \in Nat
      BY <1>3, <1>4, LinesFollow
    <3> QED
      BY <1>4, <1>5, <3>2, <3>3
  <2> QED
    BY <1>4, <1>5, <2>1
<1>8. i \in 1 .. j /\ j \in 1 .. Len(lines) + 1
  BY <1>4, <1>5, <1>7
<1>9. /\ par[i] \in Nat /\ par[j] \in Nat /\ par[i] <= par[j]
      /\ par[i] # par[j] <=> \E l \in i .. j - 1 : Turns(lines, l)
  BY <1>3, <1>8, NumbersGrow
<1> DEFINE from == Location(d, a, aEnd)
           to   == Location(d, b, bEnd)
<1>10. from.paragraph = par[i] /\ from.sentence = Marks(d, par[i], a)
  BY <1>1 DEF Located
<1>11. to.paragraph = par[j] /\ to.sentence = Marks(d, par[j], b)
  BY <1>2 DEF Located
<1> HIDE DEF from, to
<1>12. par[i] # par[j] => BlankLine(d.text, a, b)
  <2> SUFFICES ASSUME par[i] # par[j] PROVE BlankLine(d.text, a, b)
    OBVIOUS
  <2>1. PICK l \in i .. j - 1 : Turns(lines, l)
    BY <1>9
  <2> QED
    BY <1>6, <2>1, TurnsAreBlankLines
<1>13. (BreaksBetween(lines) \/ WholeParagraphs(lines)) /\ BlankLine(d.text, a, b)
         => par[i] # par[j]
  BY <1>6, <1>9, BlankLinesAreTurns
<1>14. par[i] = par[j] =>
         Marks(d, par[j], b) - Marks(d, par[i], a)
           = Stops(d.text, a, b)
  <2> SUFFICES ASSUME par[i] = par[j]
               PROVE  Marks(d, par[j], b) - Marks(d, par[i], a)
                        = Stops(d.text, a, b)
    OBVIOUS
  <2> DEFINE begin == Begins(d, par[i])
  <2>1. begin \in Nat /\ begin <= at[i]
    BY <1>1 DEF Located
  <2>2. at[i] \in Nat
    BY <1>3, <1>4, LinesFollow
  <2> HIDE DEF begin
  <2>3. begin <= a /\ a <= b
    BY <1>4, <2>1, <2>2
  <2>4. Begins(d, par[j]) = begin /\ Begins(d, par[i]) = begin
    BY DEF begin
  <2>5. Marks(d, par[j], b) = Stops(d.text, begin, b)
    BY <2>4 DEF Marks, Stops
  <2>6. Marks(d, par[i], a) = Stops(d.text, begin, a)
    BY <2>4 DEF Marks, Stops
  <2>7. Stops(d.text, begin, b) - Stops(d.text, begin, a) = Stops(d.text, a, b)
    BY <2>1, <2>3, MarksAdd
  <2> QED
    BY <2>5, <2>6, <2>7
<1> QED
  BY <1>9, <1>10, <1>11, <1>12, <1>13, <1>14 DEF Compared, from, to

-----------------------------------------------------------------------------
(* What is read of parts                                                   *)

LEMMA SubJoins ==
  ASSUME NEW content \in Seq(Int), NEW a \in Nat, NEW b \in Nat, NEW c \in Nat,
         a <= b, b <= c, c <= Len(content)
  PROVE  Sub(content, a, b) \o Sub(content, b, c) = Sub(content, a, c)
<1> DEFINE s == Sub(content, a, b)
           t == Sub(content, b, c)
           u == Sub(content, a, c)
           w == s \o t
<1>1. /\ s \in Seq(Int) /\ Len(s) = b - a /\ \A i \in 1 .. b - a : s[i] = content[a + i]
  <2>1. b <= Len(content)
    BY LenProperties
  <2> QED
    BY <2>1, SubItems
<1>2. /\ t \in Seq(Int) /\ Len(t) = c - b /\ \A i \in 1 .. c - b : t[i] = content[b + i]
  BY SubItems
<1>3. /\ u \in Seq(Int) /\ Len(u) = c - a /\ \A i \in 1 .. c - a : u[i] = content[a + i]
  <2>1. a <= c
    OBVIOUS
  <2> QED
    BY <2>1, SubItems
<1> HIDE DEF s, t, u
<1>4. /\ w \in Seq(Int) /\ Len(w) = Len(s) + Len(t)
      /\ \A i \in 1 .. Len(s) + Len(t) : w[i] = IF i <= Len(s) THEN s[i] ELSE t[i - Len(s)]
  BY <1>1, <1>2, ConcatProperties
<1> HIDE DEF w
<1>5. ASSUME NEW i \in 1 .. c - a PROVE w[i] = u[i]
  <2>1. i \in 1 .. Len(s) + Len(t)
    BY <1>1, <1>2
  <2>2. CASE i <= b - a
    <3>1. i \in 1 .. b - a /\ i <= Len(s)
      BY <1>1, <2>2
    <3>2. w[i] = s[i]
      BY <1>4, <2>1, <3>1
    <3> QED
      BY <1>1, <1>3, <3>1, <3>2
  <2>3. CASE ~(i <= b - a)
    <3>1. i - (b - a) \in 1 .. c - b /\ b + (i - (b - a)) = a + i
      BY <2>3
    <3>2. w[i] = t[i - (b - a)]
      BY <1>1, <1>4, <2>1, <2>3
    <3> QED
      BY <1>2, <1>3, <3>1, <3>2
  <2> QED
    BY <2>2, <2>3
<1>6. Len(w) = Len(u)
  BY <1>1, <1>2, <1>3, <1>4
<1>7. w = u
  BY <1>3, <1>4, <1>5, <1>6, SameItems
<1> QED
  BY <1>7 DEF w, s, t, u

LEMMA SubWhole ==
  ASSUME NEW content \in Seq(Int)
  PROVE  Sub(content, 0, Len(content)) = content
<1> DEFINE s == Sub(content, 0, Len(content))
<1>1. /\ s \in Seq(Int) /\ Len(s) = Len(content) - 0
      /\ \A i \in 1 .. Len(content) - 0 : s[i] = content[0 + i]
  <2> DEFINE size == Len(content)
  <2>1. 0 \in Nat /\ size \in Nat /\ 0 <= size /\ size <= Len(content)
    BY LenProperties
  <2> HIDE DEF size
  <2>2. /\ Sub(content, 0, size) \in Seq(Int) /\ Len(Sub(content, 0, size)) = size - 0
        /\ \A i \in 1 .. size - 0 : Sub(content, 0, size)[i] = content[0 + i]
    BY <2>1, SubItems
  <2> QED
    BY <2>2 DEF size
<1> HIDE DEF s
<1>2. Len(s) = Len(content) /\ \A i \in 1 .. Len(s) : s[i] = content[i]
  BY <1>1
<1>3. s = content
  BY <1>1, <1>2, SameItems
<1> QED
  BY <1>3 DEF s

LEMMA BlankReads ==
  ASSUME NEW content \in Seq(Int), Blank(content)
  PROVE  Readables(content) = <<>>
<1>1. Shown(content) = {}
  BY DEF Shown, Blank, Unseen
<1> QED
  BY <1>1, ReadablesAre

LEMMA PartReads ==
  ASSUME NEW content \in Seq(Int), NEW a \in Nat, NEW b \in Nat, NEW c \in Nat,
         a <= b, b <= c, c <= Len(content)
  PROVE  Readables(Sub(content, a, c))
           = Readables(Sub(content, a, b)) \o Readables(Sub(content, b, c))
<1>1. Sub(content, a, c) = Sub(content, a, b) \o Sub(content, b, c)
  BY SubJoins
<1>2. Sub(content, a, b) \in Seq(Int) /\ Sub(content, b, c) \in Seq(Int)
  <2>1. b <= Len(content)
    BY LenProperties
  <2> QED
    BY <2>1, SubItems
<1> QED
  BY <1>1, <1>2, ReadablesOfBoth

LEMMA BreaksRead ==
  ASSUME NEW content \in Seq(Int), NEW a \in Nat, NEW b \in Nat, b <= Len(content),
         \A k \in a .. b - 1 : content[k + 1] = LineBreak
  PROVE  Readables(Sub(content, a, b)) = <<>>
<1>1. BlankIn(content, a, b)
  BY DEF BlankIn, White
<1>2. Blank(Sub(content, a, b))
  BY <1>1, BlankPart
<1>3. Sub(content, a, b) \in Seq(Int)
  <2>1. \A i \in a + 1 .. b : content[i] \in Int
    OBVIOUS
  <2> DEFINE first == a + 1
  <2>2. first \in Int /\ \A i \in first .. b : content[i] \in Int
    BY <2>1
  <2> HIDE DEF first
  <2>3. SubSeq(content, first, b) \in Seq(Int)
    BY <2>2, SubSeqProperties
  <2> QED
    BY <2>3 DEF Sub, first
<1> QED
  BY <1>2, <1>3, BlankReads

-----------------------------------------------------------------------------
(* Lists of lists, one after the other                                     *)

Joins(joined, parts, S) ==
  /\ joined \in [0 .. Len(parts) -> Seq(S)] /\ joined[0] = <<>>
  /\ \A n \in 1 .. Len(parts) : joined[n] = joined[n - 1] \o parts[n]

LEMMA JoinsExist ==
  ASSUME NEW S, NEW parts \in Seq(Seq(S))
  PROVE  \E joined : Joins(joined, parts, S)
<1> DEFINE N    == Len(parts)
           T    == Seq(S)
           step == [n \in 1 .. N |-> [s \in T |-> s \o parts[n]]]
<1>1. N \in Nat /\ <<>> \in T /\ \A n \in 1 .. N : parts[n] \in T
  BY LenProperties, ElementOfSeq, EmptySeq
<1>2. \A n \in 1 .. N : \A s \in T : s \o parts[n] \in T
  BY <1>1, ConcatProperties
<1> HIDE DEF N, T
<1>3. step \in [1 .. N -> [T -> T]]
  BY <1>2
<1>4. \A n \in 1 .. N : \A s \in T : step[n][s] = s \o parts[n]
  OBVIOUS
<1> HIDE DEF step
<1>5. PICK joined : Iterates(joined, N, T, <<>>, step)
  BY <1>1, <1>3, Recursion
<1>6. \A n \in 1 .. N : joined[n] = joined[n - 1] \o parts[n]
  <2>1. \A n \in 1 .. N : n - 1 \in 0 .. N
    BY <1>1
  <2> QED
    BY <1>4, <1>5, <2>1 DEF Iterates
<1> QED
  BY <1>5, <1>6 DEF Iterates, Joins, N, T

LEMMA FlattenJoins ==
  ASSUME NEW S, NEW parts \in Seq(Seq(S)), NEW joined, Joins(joined, parts, S)
  PROVE  FlattenSeq(parts) = joined[Len(parts)] /\ FlattenSeq(parts) \in Seq(S)
<1> DEFINE N == Len(parts)
           Is(f) == f = [i \in 1 .. N |-> IF i = 1 THEN parts[i] ELSE f[i - 1] \o parts[i]]
           flat == CHOOSE f : Is(f)
<1>1. /\ N \in Nat /\ joined \in [0 .. N -> Seq(S)] /\ joined[0] = <<>>
      /\ \A n \in 1 .. N : joined[n] = joined[n - 1] \o parts[n]
      /\ \A n \in 1 .. N : parts[n] \in Seq(S)
  BY LenProperties, ElementOfSeq DEF Joins
<1>2. FlattenSeq(parts) = IF N = 0 THEN parts ELSE flat[N]
  BY DEF FlattenSeq
<1>3. N = 0 => parts = <<>>
  BY LenProperties, EmptySeq
<1> HIDE DEF N
<1>4. \A n \in 1 .. N : joined[n] = IF n = 1 THEN parts[n] ELSE joined[n - 1] \o parts[n]
  <2>1. 1 \in 1 .. N => joined[1] = <<>> \o parts[1] /\ parts[1] \in Seq(S)
    <3>1. 1 - 1 = 0
      OBVIOUS
    <3> QED
      BY <1>1, <3>1
  <2>2. 1 \in 1 .. N => joined[1] = parts[1]
    BY <2>1, ConcatEmptySeq
  <2> QED
    BY <1>1, <2>2
<1>5. Is([n \in 1 .. N |-> joined[n]])
  <2> DEFINE f == [n \in 1 .. N |-> joined[n]]
  <2>1. \A n \in 1 .. N : n = 1 \/ n - 1 \in 1 .. N
    BY <1>1
  <2>2. \A n \in 1 .. N : f[n] = joined[n]
    OBVIOUS
  <2>3. \A n \in 1 .. N : f[n] = IF n = 1 THEN parts[n] ELSE f[n - 1] \o parts[n]
    <3> HIDE DEF f
    <3> QED
      BY <1>4, <2>1, <2>2
  <2>4. f = [n \in 1 .. N |-> f[n]]
    OBVIOUS
  <2> HIDE DEF f
  <2>5. Is(f)
    BY <2>3, <2>4, Zenon
  <2> QED
    BY <2>5, Zenon DEF f
<1>6. Is(flat)
  BY <1>5, Zenon
<1> HIDE DEF flat
<1>7. \A n \in 1 .. N : flat[n] = IF n = 1 THEN parts[n] ELSE flat[n - 1] \o parts[n]
  BY <1>6
<1> DEFINE T == {n \in 0 .. N : n = 0 \/ flat[n] = joined[n]}
<1>8. 0 \in T
  BY <1>1
<1>9. ASSUME NEW n \in 1 .. N, n - 1 \in T PROVE n \in T
  <2>1. n = 1 \/ flat[n - 1] = joined[n - 1]
    BY <1>1, <1>9
  <2>2. flat[n] = joined[n]
    BY <1>4, <1>7, <2>1
  <2> QED
    BY <1>1, <2>2
<1>10. \A n \in 0 .. N : n \in T
  <2> HIDE DEF T
  <2> QED
    BY <1>1, <1>8, <1>9, UpTo, Zenon
<1>11. FlattenSeq(parts) = joined[N]
  <2>1. N \in 0 .. N
    BY <1>1
  <2> QED
    BY <1>1, <1>2, <1>3, <1>10, <2>1
<1>12. joined[N] \in Seq(S)
  BY <1>1
<1> QED
  BY <1>11, <1>12 DEF N

(* What is read of the parts is read of the whole.                         *)
Readings(parts) == [n \in 1 .. Len(parts) |-> Readables(parts[n])]

LEMMA ReadingsAre ==
  ASSUME NEW parts \in Seq(Seq(Int))
  PROVE  /\ Readings(parts) \in Seq(Seq(Int)) /\ Len(Readings(parts)) = Len(parts)
         /\ \A n \in 1 .. Len(parts) : Readings(parts)[n] = Readables(parts[n])
<1>1. Len(parts) \in Nat /\ \A n \in 1 .. Len(parts) : parts[n] \in Seq(Int)
  BY LenProperties, ElementOfSeq
<1>2. \A n \in 1 .. Len(parts) : Readables(parts[n]) \in Seq(Int)
  BY <1>1, ReadablesAre
<1> QED
  BY <1>1, <1>2, IsASeq DEF Readings

LEMMA FlattenReads ==
  ASSUME NEW parts \in Seq(Seq(Int))
  PROVE  Readables(FlattenSeq(parts)) = FlattenSeq(Readings(parts))
<1> DEFINE N == Len(parts)
           reads == Readings(parts)
<1>1. /\ reads \in Seq(Seq(Int)) /\ Len(reads) = N /\ N \in Nat
      /\ \A n \in 1 .. N : reads[n] = Readables(parts[n]) /\ parts[n] \in Seq(Int)
  BY ReadingsAre, LenProperties, ElementOfSeq
<1> HIDE DEF N, reads
<1>2. PICK joined : Joins(joined, parts, Int)
  BY JoinsExist
<1>3. PICK read : Joins(read, reads, Int)
  BY <1>1, JoinsExist
<1>4. /\ joined \in [0 .. N -> Seq(Int)] /\ joined[0] = <<>>
      /\ \A n \in 1 .. N : joined[n] = joined[n - 1] \o parts[n]
  BY <1>2 DEF Joins, N
<1>5. /\ read[0] = <<>>
      /\ \A n \in 1 .. N : read[n] = read[n - 1] \o Readables(parts[n])
  BY <1>1, <1>3 DEF Joins
<1> DEFINE T == {n \in 0 .. N : Readables(joined[n]) = read[n]}
<1>6. 0 \in T
  <2>1. <<>> \in Seq(Int) /\ Blank(<<>>)
    BY DEF Blank
  <2>2. Readables(<<>>) = <<>>
    BY <2>1, BlankReads
  <2> QED
    BY <1>1, <1>4, <1>5, <2>2
<1>7. ASSUME NEW n \in 1 .. N, n - 1 \in T PROVE n \in T
  <2>1. n - 1 \in 0 .. N /\ n \in 0 .. N
    BY <1>1
  <2>2. joined[n - 1] \in Seq(Int) /\ parts[n] \in Seq(Int)
    BY <1>1, <1>4, <2>1
  <2>3. Readables(joined[n]) = Readables(joined[n - 1]) \o Readables(parts[n])
    BY <1>4, <2>2, ReadablesOfBoth
  <2> QED
    BY <1>5, <1>7, <2>1, <2>3
<1>8. \A n \in 0 .. N : n \in T
  <2> HIDE DEF T
  <2> QED
    BY <1>1, <1>6, <1>7, UpTo, Zenon
<1>9. FlattenSeq(parts) = joined[N] /\ FlattenSeq(reads) = read[N]
  BY <1>1, <1>2, <1>3, FlattenJoins DEF N
<1>10. N \in 0 .. N
  BY <1>1
<1> QED
  BY <1>8, <1>9, <1>10 DEF reads

LEMMA FlattenBoth ==
  ASSUME NEW S, NEW p \in Seq(Seq(S)), NEW q \in Seq(Seq(S))
  PROVE  FlattenSeq(p \o q) = FlattenSeq(p) \o FlattenSeq(q)
<1> DEFINE r == p \o q
           P == Len(p)
           Q == Len(q)
<1>1. /\ r \in Seq(Seq(S)) /\ Len(r) = P + Q /\ P \in Nat /\ Q \in Nat
      /\ \A n \in 1 .. P + Q : r[n] = IF n <= P THEN p[n] ELSE q[n - P]
      /\ \A n \in 1 .. P : p[n] \in Seq(S)
      /\ \A n \in 1 .. Q : q[n] \in Seq(S)
  BY ConcatProperties, LenProperties, ElementOfSeq
<1> HIDE DEF r
<1>2. PICK j : Joins(j, r, S)
  BY <1>1, JoinsExist
<1>3. PICK jp : Joins(jp, p, S)
  BY JoinsExist
<1>4. PICK jq : Joins(jq, q, S)
  BY JoinsExist
<1>5. FlattenSeq(r) = j[P + Q] /\ FlattenSeq(p) = jp[P] /\ FlattenSeq(q) = jq[Q]
  BY <1>1, <1>2, <1>3, <1>4, FlattenJoins
<1>6. j[0] = <<>> /\ \A n \in 1 .. P + Q : j[n] = j[n - 1] \o r[n]
  BY <1>1, <1>2 DEF Joins
<1>7. /\ jp \in [0 .. P -> Seq(S)] /\ jp[0] = <<>>
      /\ \A n \in 1 .. P : jp[n] = jp[n - 1] \o p[n]
  BY <1>3 DEF Joins
<1>8. /\ jq \in [0 .. Q -> Seq(S)] /\ jq[0] = <<>>
      /\ \A n \in 1 .. Q : jq[n] = jq[n - 1] \o q[n]
  BY <1>4 DEF Joins
<1> HIDE DEF P, Q
<1> DEFINE T == {n \in 0 .. P : j[n] = jp[n]}
           U == {n \in 0 .. Q : j[P + n] = jp[P] \o jq[n]}
<1>9. \A n \in 0 .. P : n \in T
  <2>1. 0 \in T
    BY <1>1, <1>6, <1>7
  <2>2. ASSUME NEW n \in 1 .. P, n - 1 \in T PROVE n \in T
    <3>1. n \in 0 .. P /\ n \in 1 .. P + Q /\ n <= P
      BY <1>1
    <3>2. r[n] = p[n] /\ j[n] = j[n - 1] \o r[n] /\ jp[n] = jp[n - 1] \o p[n]
      BY <1>1, <1>6, <1>7, <3>1
    <3>3. j[n - 1] = jp[n - 1]
      BY <2>2
    <3> QED
      BY <3>1, <3>2, <3>3
  <2> HIDE DEF T
  <2> QED
    BY <1>1, <2>1, <2>2, UpTo, Zenon
<1>10. \A n \in 0 .. Q : n \in U
  <2>1. 0 \in U
    <3>1. P + 0 = P /\ P \in 0 .. P /\ 0 \in 0 .. Q
      BY <1>1
    <3>2. jp[P] \in Seq(S)
      BY <1>7, <3>1
    <3>3. jp[P] \o <<>> = jp[P]
      BY <3>2, ConcatEmptySeq
    <3>4. j[P] = jp[P]
      BY <1>9, <3>1
    <3>5. j[P + 0] = jp[P] \o jq[0]
      BY <1>8, <3>1, <3>3, <3>4
    <3> QED
      BY <3>1, <3>5
  <2>2. ASSUME NEW n \in 1 .. Q, n - 1 \in U PROVE n \in U
    <3>1. /\ n \in 0 .. Q /\ P + n \in 1 .. P + Q /\ ~(P + n <= P) /\ (P + n) - P = n
          /\ (P + n) - 1 = P + (n - 1) /\ n - 1 \in 0 .. Q /\ P \in 0 .. P
      BY <1>1
    <3>2. r[P + n] = q[n] /\ j[P + n] = j[P + (n - 1)] \o r[P + n]
      <4>1. j[P + n] = j[(P + n) - 1] \o r[P + n]
        BY <1>6, <3>1
      <4>2. r[P + n] = q[(P + n) - P]
        BY <1>1, <3>1
      <4> QED
        BY <3>1, <4>1, <4>2
    <3>3. j[P + (n - 1)] = jp[P] \o jq[n - 1]
      BY <2>2
    <3>4. jp[P] \in Seq(S) /\ jq[n - 1] \in Seq(S) /\ q[n] \in Seq(S)
      BY <1>1, <1>7, <1>8, <3>1
    <3>5. (jp[P] \o jq[n - 1]) \o q[n] = jp[P] \o (jq[n - 1] \o q[n])
      <4>1. Associates(S)
        BY PartsAssociate, Zenon
      <4> QED
        BY <3>4, <4>1, Zenon DEF Associates
    <3>6. jq[n] = jq[n - 1] \o q[n]
      BY <1>8
    <3>7. j[P + n] = jp[P] \o jq[n]
      BY <3>2, <3>3, <3>5, <3>6
    <3> QED
      BY <3>1, <3>7
  <2> HIDE DEF U
  <2> QED
    BY <1>1, <2>1, <2>2, UpTo, Zenon
<1>11. Q \in 0 .. Q
  BY <1>1
<1>12. j[P + Q] = jp[P] \o jq[Q]
  BY <1>10, <1>11
<1> QED
  BY <1>5, <1>12 DEF r

(* Lists of lists of lists: the order of joining them does not matter.     *)
LEMMA FlattenTwice ==
  ASSUME NEW S, NEW pages \in Seq(Seq(Seq(S)))
  PROVE  /\ [n \in 1 .. Len(pages) |-> FlattenSeq(pages[n])] \in Seq(Seq(S))
         /\ FlattenSeq(FlattenSeq(pages))
              = FlattenSeq([n \in 1 .. Len(pages) |-> FlattenSeq(pages[n])])
<1> DEFINE N     == Len(pages)
           R     == Seq(S)
           whole == [n \in 1 .. N |-> FlattenSeq(pages[n])]
<1>1. N \in Nat /\ \A n \in 1 .. N : pages[n] \in Seq(R)
  BY LenProperties, ElementOfSeq
<1>2. \A n \in 1 .. N : FlattenSeq(pages[n]) \in Seq(S)
  <2> TAKE n \in 1 .. N
  <2>1. pages[n] \in Seq(Seq(S))
    BY <1>1
  <2>2. PICK j : Joins(j, pages[n], S)
    BY <2>1, JoinsExist
  <2> QED
    BY <2>1, <2>2, FlattenJoins
<1>3. /\ whole \in Seq(Seq(S)) /\ Len(whole) = N
      /\ \A n \in 1 .. N : whole[n] = FlattenSeq(pages[n])
  BY <1>1, <1>2, IsASeq
<1>4. PICK j : Joins(j, pages, R)
  BY JoinsExist
<1>5. PICK w : Joins(w, whole, S)
  BY <1>3, JoinsExist
<1>6. FlattenSeq(pages) = j[N] /\ FlattenSeq(whole) = w[N]
  <2>1. FlattenSeq(pages) = j[Len(pages)]
    BY <1>4, FlattenJoins
  <2>2. FlattenSeq(whole) = w[Len(whole)]
    <3> HIDE DEF whole, N
    <3> QED
      BY <1>3, <1>5, FlattenJoins
  <2> QED
    BY <1>3, <2>1, <2>2
<1>7. /\ j \in [0 .. N -> Seq(R)] /\ j[0] = <<>>
      /\ \A n \in 1 .. N : j[n] = j[n - 1] \o pages[n]
  BY <1>4 DEF Joins
<1>8. w[0] = <<>> /\ \A n \in 1 .. N : w[n] = w[n - 1] \o FlattenSeq(pages[n])
  BY <1>3, <1>5 DEF Joins
<1> HIDE DEF N, whole
<1> DEFINE T == {n \in 0 .. N : FlattenSeq(j[n]) = w[n]}
<1>9. 0 \in T
  <2>1. FlattenSeq(<<>>) = <<>>
    BY DEF FlattenSeq
  <2> QED
    BY <1>1, <1>7, <1>8, <2>1
<1>10. ASSUME NEW n \in 1 .. N, n - 1 \in T PROVE n \in T
  <2>1. n - 1 \in 0 .. N /\ n \in 0 .. N
    BY <1>1
  <2>2. j[n - 1] \in Seq(Seq(S)) /\ pages[n] \in Seq(Seq(S))
    BY <1>1, <1>7, <2>1
  <2>3. FlattenSeq(j[n - 1] \o pages[n]) = FlattenSeq(j[n - 1]) \o FlattenSeq(pages[n])
    BY <2>2, FlattenBoth
  <2> QED
    BY <1>7, <1>8, <1>10, <2>1, <2>3
<1>11. \A n \in 0 .. N : n \in T
  <2> HIDE DEF T
  <2> QED
    BY <1>1, <1>9, <1>10, UpTo, Zenon
<1>12. N \in 0 .. N
  BY <1>1
<1> QED
  BY <1>3, <1>6, <1>11, <1>12 DEF whole, N

(* f of each item of a list.                                               *)
Maps(f, S, T) == \A x \in S : f[x] \in T

Each(f, list) == [k \in 1 .. Len(list) |-> f[list[k]]]

LEMMA EachAre ==
  ASSUME NEW S, NEW T, NEW f, Maps(f, S, T), NEW list \in Seq(S)
  PROVE  /\ Each(f, list) \in Seq(T) /\ Len(Each(f, list)) = Len(list)
         /\ \A k \in 1 .. Len(list) : Each(f, list)[k] = f[list[k]]
<1>1. Len(list) \in Nat /\ \A k \in 1 .. Len(list) : list[k] \in S
  BY LenProperties, ElementOfSeq
<1>2. \A k \in 1 .. Len(list) : f[list[k]] \in T
  BY <1>1 DEF Maps
<1> QED
  BY <1>1, <1>2, IsASeq DEF Each

LEMMA EachOfBoth ==
  ASSUME NEW S, NEW T, NEW f, Maps(f, S, T), NEW s \in Seq(S), NEW t \in Seq(S)
  PROVE  Each(f, s \o t) = Each(f, s) \o Each(f, t)
<1> DEFINE both == s \o t
           es   == Each(f, s)
           et   == Each(f, t)
           eb   == Each(f, both)
           m    == Len(s)
           n    == Len(t)
<1>1. /\ both \in Seq(S) /\ Len(both) = m + n /\ m \in Nat /\ n \in Nat
      /\ \A k \in 1 .. m + n : both[k] = IF k <= m THEN s[k] ELSE t[k - m]
  BY ConcatProperties, LenProperties
<1>2. es \in Seq(T) /\ Len(es) = m /\ \A k \in 1 .. m : es[k] = f[s[k]]
  BY EachAre
<1>3. et \in Seq(T) /\ Len(et) = n /\ \A k \in 1 .. n : et[k] = f[t[k]]
  BY EachAre
<1> HIDE DEF both
<1>4. eb \in Seq(T) /\ Len(eb) = m + n /\ \A k \in 1 .. m + n : eb[k] = f[both[k]]
  BY <1>1, EachAre
<1> HIDE DEF es, et, eb, m, n
<1>5. /\ es \o et \in Seq(T) /\ Len(es \o et) = m + n
      /\ \A k \in 1 .. m + n : (es \o et)[k] = IF k <= m THEN es[k] ELSE et[k - m]
  <2>1. es \in Seq(T) /\ et \in Seq(T)
    BY <1>2, <1>3
  <2>2. /\ es \o et \in Seq(T) /\ Len(es \o et) = Len(es) + Len(et)
        /\ \A k \in 1 .. Len(es) + Len(et) :
             (es \o et)[k] = IF k <= Len(es) THEN es[k] ELSE et[k - Len(es)]
    BY <2>1, ConcatProperties, Zenon
  <2>3. Len(es) = m /\ Len(et) = n
    BY <1>2, <1>3
  <2> QED
    BY <2>2, <2>3
<1>6. ASSUME NEW k \in 1 .. m + n PROVE eb[k] = (es \o et)[k]
  <2>1. CASE k <= m
    <3>1. k \in 1 .. m
      BY <1>1, <2>1
    <3>2. eb[k] = f[both[k]] /\ both[k] = s[k]
      BY <1>1, <1>4, <2>1
    <3>3. (es \o et)[k] = es[k] /\ es[k] = f[s[k]]
      BY <1>2, <1>5, <2>1, <3>1
    <3> QED
      BY <3>2, <3>3
  <2>2. CASE ~(k <= m)
    <3>1. k - m \in 1 .. n
      BY <1>1, <2>2
    <3>2. eb[k] = f[both[k]] /\ both[k] = t[k - m]
      BY <1>1, <1>4, <2>2
    <3>3. (es \o et)[k] = et[k - m] /\ et[k - m] = f[t[k - m]]
      BY <1>3, <1>5, <2>2, <3>1
    <3> QED
      BY <3>2, <3>3, Zenon
  <2> QED
    BY <2>1, <2>2
<1>7. eb = es \o et
  <2> DEFINE joint == es \o et
  <2>1. joint \in Seq(T) /\ Len(eb) = Len(joint) /\ \A k \in 1 .. Len(eb) : eb[k] = joint[k]
    BY <1>4, <1>5, <1>6
  <2> HIDE DEF joint
  <2>2. eb = joint
    BY <1>4, <2>1, SeqEqual
  <2> QED
    BY <2>2 DEF joint
<1> QED
  BY <1>7 DEF es, et, eb, both

EachPart(f, parts) == [n \in 1 .. Len(parts) |-> Each(f, parts[n])]

LEMMA FlattenEach ==
  ASSUME NEW S, NEW T, NEW f, Maps(f, S, T), NEW parts \in Seq(Seq(S))
  PROVE  /\ EachPart(f, parts) \in Seq(Seq(T)) /\ FlattenSeq(parts) \in Seq(S)
         /\ FlattenSeq(EachPart(f, parts)) = Each(f, FlattenSeq(parts))
<1> DEFINE N    == Len(parts)
           each == [n \in 1 .. N |-> Each(f, parts[n])]
<1>1. N \in Nat /\ \A n \in 1 .. N : parts[n] \in Seq(S)
  BY LenProperties, ElementOfSeq
<1>2. \A n \in 1 .. N : Each(f, parts[n]) \in Seq(T)
  BY <1>1, EachAre
<1>3. each \in Seq(Seq(T)) /\ Len(each) = N /\ \A n \in 1 .. N : each[n] = Each(f, parts[n])
  BY <1>1, <1>2, IsASeq
<1>4. PICK j : Joins(j, parts, S)
  BY JoinsExist
<1>5. PICK e : Joins(e, each, T)
  <2> HIDE DEF each, N
  <2> QED
    BY <1>3, JoinsExist
<1>6. FlattenSeq(parts) = j[N] /\ FlattenSeq(parts) \in Seq(S) /\ FlattenSeq(each) = e[N]
  <2>1. FlattenSeq(parts) = j[Len(parts)] /\ FlattenSeq(parts) \in Seq(S)
    BY <1>4, FlattenJoins
  <2>2. FlattenSeq(each) = e[Len(each)]
    <3> HIDE DEF each, N
    <3> QED
      BY <1>3, <1>5, FlattenJoins
  <2> QED
    BY <1>3, <2>1, <2>2
<1>7. /\ j \in [0 .. N -> Seq(S)] /\ j[0] = <<>>
      /\ \A n \in 1 .. N : j[n] = j[n - 1] \o parts[n]
  BY <1>4 DEF Joins
<1>8. e[0] = <<>> /\ \A n \in 1 .. N : e[n] = e[n - 1] \o Each(f, parts[n])
  BY <1>3, <1>5 DEF Joins
<1> HIDE DEF N, each
<1> DEFINE U == {n \in 0 .. N : Each(f, j[n]) = e[n]}
<1>9. 0 \in U
  <2>1. Each(f, <<>>) = <<>>
    BY DEF Each
  <2> QED
    BY <1>1, <1>7, <1>8, <2>1
<1>10. ASSUME NEW n \in 1 .. N, n - 1 \in U PROVE n \in U
  <2>1. n - 1 \in 0 .. N /\ n \in 0 .. N
    BY <1>1
  <2>2. j[n - 1] \in Seq(S) /\ parts[n] \in Seq(S)
    BY <1>1, <1>7, <2>1
  <2>3. Each(f, j[n - 1] \o parts[n]) = Each(f, j[n - 1]) \o Each(f, parts[n])
    <3>1. \A s, t \in Seq(S) : Each(f, s \o t) = Each(f, s) \o Each(f, t)
      BY EachOfBoth
    <3> QED
      BY <2>2, <3>1, Zenon
  <2> QED
    BY <1>7, <1>8, <1>10, <2>1, <2>3
<1>11. \A n \in 0 .. N : n \in U
  <2> HIDE DEF U
  <2> QED
    BY <1>1, <1>9, <1>10, UpTo, Zenon
<1>12. N \in 0 .. N
  BY <1>1
<1> QED
  BY <1>3, <1>6, <1>11, <1>12 DEF EachPart, each, N

(* Empty lists at the end add nothing.                                     *)
LEMMA FlattenFront ==
  ASSUME NEW S, NEW parts \in Seq(Seq(S)), NEW m \in 0 .. Len(parts),
         \A k \in m + 1 .. Len(parts) : parts[k] = <<>>
  PROVE  FlattenSeq(SubSeq(parts, 1, m)) = FlattenSeq(parts)
<1> DEFINE N     == Len(parts)
           front == SubSeq(parts, 1, m)
<1>1. N \in Nat /\ m \in Nat /\ m <= N /\ \A n \in 1 .. N : parts[n] \in Seq(S)
  BY LenProperties, ElementOfSeq
<1>2. /\ front \in Seq(Seq(S)) /\ Len(front) = m
      /\ \A n \in 1 .. m : front[n] = parts[n]
  <2>1. \A n \in 1 .. m : parts[n] \in Seq(S)
    BY <1>1
  <2>2. 1 \in Int /\ m \in Int
    BY <1>1
  <2>3. /\ front \in Seq(Seq(S)) /\ Len(front) = IF 1 <= m THEN m - 1 + 1 ELSE 0
        /\ \A n \in 1 .. m - 1 + 1 : front[n] = parts[1 + n - 1]
    BY <2>1, <2>2, SubSeqProperties
  <2>4. (IF 1 <= m THEN m - 1 + 1 ELSE 0) = m /\ m - 1 + 1 = m /\ \A n \in 1 .. m : 1 + n - 1 = n
    BY <1>1
  <2> QED
    BY <2>3, <2>4
<1> HIDE DEF N, front
<1>3. PICK j : Joins(j, parts, S)
  BY JoinsExist
<1>4. PICK f : Joins(f, front, S)
  BY <1>2, JoinsExist
<1>5. FlattenSeq(parts) = j[N] /\ FlattenSeq(front) = f[m]
  BY <1>2, <1>3, <1>4, FlattenJoins DEF N
<1>6. /\ j \in [0 .. N -> Seq(S)] /\ j[0] = <<>>
      /\ \A n \in 1 .. N : j[n] = j[n - 1] \o parts[n]
  BY <1>3 DEF Joins, N
<1>7. f[0] = <<>> /\ \A n \in 1 .. m : f[n] = f[n - 1] \o parts[n]
  BY <1>2, <1>4 DEF Joins
<1> DEFINE T == {n \in 0 .. N : j[n] = IF n <= m THEN f[n] ELSE f[m]}
<1>8. 0 \in T
  BY <1>1, <1>6, <1>7
<1>9. ASSUME NEW n \in 1 .. N, n - 1 \in T PROVE n \in T
  <2>1. n - 1 \in 0 .. N /\ n \in 0 .. N
    BY <1>1
  <2>2. j[n] = j[n - 1] \o parts[n]
    BY <1>6
  <2>3. CASE n <= m
    <3>1. n \in 1 .. m /\ n - 1 <= m
      BY <1>1, <2>3
    <3> QED
      BY <1>7, <1>9, <2>1, <2>2, <2>3, <3>1
  <2>4. CASE ~(n <= m)
    <3>1. n \in m + 1 .. N
      BY <1>1, <2>4
    <3>2. parts[n] = <<>>
      BY <3>1 DEF N
    <3>3. j[n - 1] \in Seq(S)
      BY <1>6, <2>1
    <3>4. j[n] = j[n - 1]
      BY <2>2, <3>2, <3>3, ConcatEmptySeq
    <3>5. j[n - 1] = f[m]
      <4>1. n - 1 = m \/ ~(n - 1 <= m)
        BY <1>1, <2>4
      <4>2. n - 1 = m => n - 1 <= m
        BY <1>1
      <4> QED
        BY <1>9, <4>1, <4>2
    <3> QED
      BY <2>1, <2>4, <3>4, <3>5
  <2> QED
    BY <2>3, <2>4
<1>10. \A n \in 0 .. N : n \in T
  <2> HIDE DEF T
  <2> QED
    BY <1>1, <1>8, <1>9, UpTo, Zenon
<1>11. N \in 0 .. N /\ (N <= m => N = m)
  BY <1>1
<1>12. j[N] = f[m]
  BY <1>10, <1>11
<1> QED
  BY <1>5, <1>12 DEF front

-----------------------------------------------------------------------------
(* What is read of the text is what is read of its lines.                  *)

ReadingsFrom(lines, first, last) ==
  [k \in 1 .. last - first + 1 |-> Readables(lines[first + k - 1].content)]

LEMMA LinesRead ==
  ASSUME NEW lines \in Seq(SourceLines), NEW at, Starts(at, lines), NEW content \in Seq(Int),
         Len(content) = at[Len(lines) + 1],
         \A n \in 1 .. Len(lines) : Carries(content, lines, at, n),
         NEW first \in 1 .. Len(lines) + 1, NEW last \in 0 .. Len(lines), first <= last + 1
  PROVE  /\ ReadingsFrom(lines, first, last) \in Seq(Seq(Int))
         /\ Readables(Sub(content, at[first], at[last + 1]))
              = FlattenSeq(ReadingsFrom(lines, first, last))
<1> DEFINE N     == Len(lines)
           K     == last - first + 1
           reads == [k \in 1 .. K |-> Readables(lines[first + k - 1].content)]
           begin == at[first]
<1>1. N \in Nat /\ K \in Nat /\ first \in Nat /\ last \in Nat /\ first + K = last + 1
  BY LenProperties
<1>2. \A k \in 1 .. K : first + k - 1 \in 1 .. N
  <2>1. first \in 1 .. N + 1 /\ last \in 0 .. N
    OBVIOUS
  <2> QED
    BY <1>1, <2>1
<1> HIDE DEF N, K
<1>3. \A k \in 1 .. K : Readables(lines[first + k - 1].content) \in Seq(Int)
  <2> TAKE k \in 1 .. K
  <2> DEFINE n == first + k - 1
  <2>1. n \in 1 .. Len(lines)
    BY <1>2 DEF N
  <2> HIDE DEF n
  <2>2. lines[n].content \in Seq(Int)
    BY <2>1, LineSizes
  <2> QED
    BY <2>2, ReadablesAre DEF n
<1>4. /\ reads \in Seq(Seq(Int)) /\ Len(reads) = K
      /\ \A k \in 1 .. K : reads[k] = Readables(lines[first + k - 1].content)
  BY <1>1, <1>3, IsASeq
<1> HIDE DEF reads
<1>5. PICK read : Joins(read, reads, Int)
  BY <1>4, JoinsExist
<1>6. FlattenSeq(reads) = read[K]
  BY <1>4, <1>5, FlattenJoins
<1>7. read[0] = <<>> /\ \A k \in 1 .. K : read[k] = read[k - 1] \o reads[k]
  BY <1>4, <1>5 DEF Joins
<1>8. begin \in Nat /\ begin <= Len(content)
  <2>1. /\ first \in 1 .. N + 1 /\ N + 1 \in 1 .. Len(lines) + 1 /\ first \in 1 .. N + 1
    BY <1>1 DEF N
  <2>2. at[first] \in Nat /\ at[first] <= at[N + 1]
    <3>1. \A n \in 1 .. Len(lines) + 1 : \A m \in 1 .. n : at[m] <= at[n]
      BY StartsGrow
    <3>2. \A n \in 1 .. Len(lines) + 1 : at[n] \in Nat
      BY StartsGrow
    <3> QED
      BY <2>1, <3>1, <3>2 DEF N
  <2> QED
    BY <2>2 DEF N
<1> HIDE DEF begin
<1> DEFINE T == {k \in 0 .. K : Readables(Sub(content, begin, at[first + k])) = read[k]}
<1>9. 0 \in T
  <2>1. first + 0 = first /\ \A k \in begin .. begin - 1 : FALSE
    BY <1>1, <1>8
  <2>2. Readables(Sub(content, begin, begin)) = <<>>
    BY <1>8, <2>1, BreaksRead
  <2>3. 0 \in 0 .. K /\ at[first + 0] = begin
    BY <1>1, <2>1 DEF begin
  <2> QED
    BY <1>7, <2>2, <2>3
<1>10. ASSUME NEW k \in 1 .. K, k - 1 \in T PROVE k \in T
  <2> DEFINE n    == first + k - 1
             here == at[n]
             top  == Top(lines, at, n)
             next == at[n + 1]
             line == lines[n].content
             rest == Sub(content, begin, here)
             full == Sub(content, begin, top)
  <2>1. n \in 1 .. N /\ first + (k - 1) = n /\ first + k = n + 1 /\ first <= n /\ k \in 0 .. K
    <3>1. n \in 1 .. N
      BY <1>2, Zenon
    <3>2. k \in Int /\ first \in Int /\ 1 <= k /\ k <= K
      BY <1>1
    <3>3. first + (k - 1) = n /\ first + k = n + 1 /\ first <= n
      BY <3>2
    <3>4. k \in 0 .. K
      BY <1>1, <3>2
    <3> QED
      BY <3>1, <3>3, <3>4
  <2>2. Readables(Sub(content, begin, here)) = read[k - 1]
    <3>1. Readables(Sub(content, begin, at[first + (k - 1)])) = read[k - 1]
      BY <1>10
    <3> QED
      BY <2>1, <3>1
  <2>20. reads[k] = Readables(line)
    BY <1>4
  <2>21. read[k] = read[k - 1] \o Readables(line)
    BY <1>7, <2>20
  <2> HIDE DEF n
  <2>3. /\ here \in Nat /\ top \in Nat /\ next \in Nat /\ here <= top /\ top <= next
        /\ next <= Len(content)
    BY <2>1, LinesFollow DEF N
  <2>4. begin <= here
    <3>1. n \in 1 .. Len(lines) + 1 /\ first \in 1 .. n
      BY <1>1, <2>1 DEF N
    <3>2. at[first] <= at[n]
      BY <3>1, StartsGrow
    <3> QED
      BY <3>2 DEF begin
  <2>5. line \in Seq(Int) /\ Len(line) \in Nat /\ top = here + Len(line)
    BY <2>1, LineSizes DEF Top, N
  <2>6. /\ \A i \in 1 .. Len(line) : content[here + i] = line[i]
        /\ \A i \in top + 1 .. next : content[i] = LineBreak
    <3>1. Carries(content, lines, at, n)
      BY <2>1 DEF N
    <3> QED
      BY <2>5, <3>1 DEF Carries
  <2> HIDE DEF here, top, next, line
  <2>7. Sub(content, here, top) = line
    <3> DEFINE s == Sub(content, here, top)
    <3>1. here <= top /\ top <= Len(content) /\ top - here = Len(line)
      BY <2>3, <2>5, LenProperties
    <3>2. /\ s \in Seq(Int) /\ Len(s) = top - here
          /\ \A i \in 1 .. top - here : s[i] = content[here + i]
      BY <2>3, <3>1, SubItems
    <3> HIDE DEF s
    <3>3. s = line
      BY <2>5, <2>6, <3>1, <3>2, SameItems
    <3> QED
      BY <3>3 DEF s
  <2>8. Readables(Sub(content, top, next)) = <<>>
    <3>1. \A i \in top .. next - 1 : i + 1 \in top + 1 .. next
      BY <2>3
    <3>2. \A i \in top .. next - 1 : content[i + 1] = LineBreak
      BY <2>6, <3>1
    <3> QED
      BY <2>3, <3>2, BreaksRead
  <2>9. begin <= top /\ top <= Len(content) /\ begin <= next /\ here <= Len(content)
    BY <1>8, <2>3, <2>4, LenProperties
  <2>91. /\ content \in Seq(Int) /\ begin \in Nat /\ here \in Nat /\ top \in Nat /\ next \in Nat
         /\ begin <= here /\ here <= top /\ begin <= top /\ top <= next
         /\ top <= Len(content) /\ next <= Len(content)
    BY <1>8, <2>3, <2>4, <2>9
  <2>10. Readables(full) = Readables(rest) \o Readables(line)
    <3>1. Readables(Sub(content, begin, top))
            = Readables(Sub(content, begin, here)) \o Readables(Sub(content, here, top))
      BY <2>91, PartReads, ZenonT(40)
    <3> QED
      BY <2>7, <3>1
  <2>11. Readables(Sub(content, begin, next))
           = Readables(full) \o Readables(Sub(content, top, next))
    BY <2>91, PartReads, ZenonT(40)
  <2>12. Readables(full) \in Seq(Int)
    <3>1. full \in Seq(Int)
      BY <1>8, <2>3, <2>9, SubItems
    <3> HIDE DEF full
    <3> QED
      BY <3>1, ReadablesAre
  <2>13. Readables(Sub(content, begin, next)) = Readables(full)
    <3> HIDE DEF full
    <3> QED
      BY <2>8, <2>11, <2>12, ConcatEmptySeq
  <2>14. Readables(Sub(content, begin, next)) = read[k]
    BY <2>2, <2>10, <2>13, <2>21
  <2> QED
    BY <2>1, <2>14 DEF next
<1>11. \A k \in 0 .. K : k \in T
  <2> HIDE DEF T
  <2> QED
    BY <1>1, <1>9, <1>10, UpTo, Zenon
<1>12. K \in 0 .. K
  BY <1>1
<1>13. Readables(Sub(content, begin, at[first + K])) = read[K]
  BY <1>11, <1>12
<1> QED
  BY <1>1, <1>4, <1>6, <1>13 DEF ReadingsFrom, begin, reads, K

-----------------------------------------------------------------------------
(* The pieces of a text                                                    *)

Parted(content, c, cuts, N) ==
  /\ cuts \in [1 .. N + 1 -> Nat] /\ cuts[1] = 0 /\ cuts[N + 1] = Len(content) + 1
  /\ \A n \in 1 .. N : cuts[n] < cuts[n + 1]
  /\ \A n \in 2 .. N : content[cuts[n]] = c
  /\ \A n \in 1 .. N : \A k \in cuts[n] + 1 .. cuts[n + 1] - 1 : content[k] # c

LEMMA PiecesParted ==
  ASSUME NEW content \in Seq(Int), NEW c
  PROVE  \E N \in Nat \ {0} : \E cuts :
           /\ Parted(content, c, cuts, N)
           /\ Pieces(content, c)
                = [n \in 1 .. N |-> SubSeq(content, cuts[n] + 1, cuts[n + 1] - 1)]
<1> DEFINE size == Len(content)
           S    == {0, size + 1} \cup {k \in DOMAIN content : content[k] = c}
           cuts == Ascending(S)
           N    == Len(cuts) - 1
<1>1. size \in Nat /\ DOMAIN content = 1 .. size
  BY LenProperties
<1>2. Pieces(content, c) = [n \in 1 .. N |-> SubSeq(content, cuts[n] + 1, cuts[n + 1] - 1)]
  BY DEF Pieces
<1> HIDE DEF size
<1>3. /\ S \in SUBSET Nat /\ 0 \in S /\ size + 1 \in S /\ \A k \in S : k <= size + 1
      /\ \A k \in S : k = 0 \/ k = size + 1 \/ content[k] = c
      /\ \A k \in 1 .. size : content[k] = c => k \in S
  BY <1>1
<1> HIDE DEF S
<1>4. Ascends(cuts, S)
  <2>1. size + 1 \in Nat
    BY <1>1
  <2> QED
    BY <1>3, <2>1, AscendingAscends
<1> HIDE DEF cuts
<1>5. /\ cuts \in Seq(S) /\ Len(cuts) \in Nat /\ \A i \in 1 .. Len(cuts) : cuts[i] \in S
      /\ \A i, j \in 1 .. Len(cuts) : i < j => cuts[i] < cuts[j]
      /\ \A k \in S : \E i \in 1 .. Len(cuts) : cuts[i] = k
  BY <1>4, LenProperties, ElementOfSeq DEF Ascends
<1>6. \A i \in 1 .. Len(cuts) : cuts[i] \in Nat /\ cuts[i] <= size + 1
  BY <1>3, <1>5
<1>7. PICK i \in 1 .. Len(cuts) : cuts[i] = 0
  BY <1>3, <1>5
<1>8. PICK j \in 1 .. Len(cuts) : cuts[j] = size + 1
  BY <1>3, <1>5
<1>9. Len(cuts) >= 2 /\ N \in Nat \ {0} /\ Len(cuts) = N + 1
  <2>1. i # j
    BY <1>1, <1>7, <1>8
  <2> DEFINE len == Len(cuts)
  <2>2. len \in Nat /\ i \in 1 .. len /\ j \in 1 .. len
    BY <1>5
  <2> HIDE DEF len
  <2>3. len >= 2 /\ len - 1 \in Nat \ {0} /\ len = (len - 1) + 1
    BY <2>1, <2>2
  <2> QED
    BY <2>3 DEF len
<1> HIDE DEF N
<1>10. cuts[1] = 0
  <2>1. 1 \in 1 .. Len(cuts) /\ (1 < i \/ i = 1)
    BY <1>9
  <2>2. CASE 1 < i
    <3>1. cuts[1] < 0
      BY <1>5, <1>7, <2>1, <2>2
    <3> QED
      BY <1>6, <2>1, <3>1
  <2> QED
    BY <1>7, <2>1, <2>2
<1>11. cuts[N + 1] = size + 1
  <2>1. N + 1 \in 1 .. Len(cuts) /\ (j < N + 1 \/ j = N + 1)
    BY <1>9
  <2>2. CASE j < N + 1
    <3>1. size + 1 < cuts[N + 1]
      BY <1>5, <1>8, <2>1, <2>2
    <3>2. cuts[N + 1] \in Nat /\ cuts[N + 1] <= size + 1
      BY <1>6, <2>1
    <3> QED
      BY <1>1, <3>1, <3>2
  <2> QED
    BY <1>8, <2>1, <2>2
<1>12. \A n \in 1 .. N : n \in 1 .. Len(cuts) /\ n + 1 \in 1 .. Len(cuts) /\ n < n + 1
  BY <1>9
<1>13. \A n \in 1 .. N : cuts[n] < cuts[n + 1]
  BY <1>5, <1>12
<1>14. ASSUME NEW n \in 2 .. N PROVE content[cuts[n]] = c
  <2>1. /\ n \in 1 .. Len(cuts) /\ 1 \in 1 .. Len(cuts) /\ N + 1 \in 1 .. Len(cuts)
        /\ 1 < n /\ n < N + 1
    BY <1>9
  <2>2. 0 < cuts[n] /\ cuts[n] < size + 1
    BY <1>5, <1>10, <1>11, <2>1
  <2>3. cuts[n] \in S /\ cuts[n] \in Nat
    BY <1>5, <1>6, <2>1
  <2>4. cuts[n] # 0 /\ cuts[n] # size + 1
    BY <1>1, <2>2, <2>3
  <2> QED
    BY <1>3, <2>3, <2>4
<1>15. ASSUME NEW n \in 1 .. N, NEW k \in cuts[n] + 1 .. cuts[n + 1] - 1, content[k] = c
       PROVE  FALSE
  <2>1. /\ cuts[n] \in Nat /\ cuts[n + 1] \in Nat /\ cuts[n + 1] <= size + 1
    BY <1>6, <1>12
  <2>2. k \in 1 .. size /\ cuts[n] < k /\ k < cuts[n + 1]
    <3> DEFINE low == cuts[n]
               high == cuts[n + 1]
    <3>1. low \in Nat /\ high \in Nat /\ high <= size + 1 /\ k \in low + 1 .. high - 1
      BY <2>1
    <3> HIDE DEF low, high
    <3>2. k \in 1 .. size /\ low < k /\ k < high
      BY <1>1, <3>1
    <3> QED
      BY <3>2 DEF low, high
  <2>3. k \in S
    BY <1>3, <1>15, <2>2
  <2>4. PICK m \in 1 .. Len(cuts) : cuts[m] = k
    BY <1>5, <2>3
  <2>5. m < n \/ m = n \/ m = n + 1 \/ n + 1 < m
    <3>1. m \in Int /\ n \in Int
      OBVIOUS
    <3> QED
      BY <3>1
  <2>6. m < n => k < cuts[n]
    BY <1>5, <1>12, <2>4
  <2>7. n + 1 < m => cuts[n + 1] < k
    BY <1>5, <1>12, <2>4
  <2>8. k \in Nat
    BY <1>3, <2>3
  <2> QED
    BY <2>1, <2>2, <2>4, <2>5, <2>6, <2>7, <2>8
<1>16. cuts \in [1 .. N + 1 -> Nat]
  <2>1. cuts \in [1 .. Len(cuts) -> S]
    BY <1>5, LenProperties
  <2>2. cuts \in [1 .. Len(cuts) -> Nat]
    BY <1>6, <2>1
  <2> QED
    BY <1>9, <2>2
<1>17. Parted(content, c, cuts, N)
  BY <1>10, <1>11, <1>13, <1>14, <1>15, <1>16 DEF Parted, size
<1>18. \E M \in Nat \ {0} : \E cut :
          /\ Parted(content, c, cut, M)
          /\ Pieces(content, c) = [n \in 1 .. M |-> SubSeq(content, cut[n] + 1, cut[n + 1] - 1)]
  BY <1>2, <1>9, <1>17
<1> QED
  BY <1>18

PiecesAt(content, c, cuts, N) ==
  /\ Parted(content, c, cuts, N)
  /\ Pieces(content, c) \in Seq(Seq(Int)) /\ Len(Pieces(content, c)) = N
  /\ \A n \in 1 .. N : cuts[n] \in Nat /\ cuts[n + 1] \in Nat /\ cuts[n + 1] <= Len(content) + 1
  /\ \A n \in 1 .. N :
       /\ Pieces(content, c)[n] \in Seq(Int)
       /\ Len(Pieces(content, c)[n]) = cuts[n + 1] - 1 - cuts[n]
       /\ \A k \in 1 .. cuts[n + 1] - 1 - cuts[n] :
            Pieces(content, c)[n][k] = content[cuts[n] + k] /\ Pieces(content, c)[n][k] # c

LEMMA PiecesAre ==
  ASSUME NEW content \in Seq(Int), NEW c
  PROVE  \E N \in Nat \ {0} : \E cuts : PiecesAt(content, c, cuts, N)
<1>a. PICK N \in Nat \ {0} : \E cuts :
        /\ Parted(content, c, cuts, N)
        /\ Pieces(content, c) = [n \in 1 .. N |-> SubSeq(content, cuts[n] + 1, cuts[n + 1] - 1)]
  BY PiecesParted
<1>b. PICK cuts :
        /\ Parted(content, c, cuts, N)
        /\ Pieces(content, c) = [n \in 1 .. N |-> SubSeq(content, cuts[n] + 1, cuts[n + 1] - 1)]
  BY <1>a
<1> DEFINE pieces == Pieces(content, c)
           size   == Len(content)
           piece(n) == SubSeq(content, cuts[n] + 1, cuts[n + 1] - 1)
<1>1. size \in Nat /\ \A k \in 1 .. size : content[k] \in Int
  BY LenProperties, ElementOfSeq
<1>2. /\ \A n \in 1 .. N : n \in 1 .. N + 1 /\ n + 1 \in 1 .. N + 1
      /\ \A n \in 1 .. N + 1 : cuts[n] \in Nat
      /\ \A n \in 1 .. N : cuts[n] < cuts[n + 1]
      /\ cuts[N + 1] = size + 1 /\ N + 1 \in 1 .. N + 1
  <2>1. \A n \in 1 .. N : n \in 1 .. N + 1 /\ n + 1 \in 1 .. N + 1
    OBVIOUS
  <2>2. N + 1 \in 1 .. N + 1
    OBVIOUS
  <2>3. \A n \in 1 .. N + 1 : cuts[n] \in Nat
    BY <1>b DEF Parted
  <2>4. (\A n \in 1 .. N : cuts[n] < cuts[n + 1]) /\ cuts[N + 1] = size + 1
    BY <1>b DEF Parted
  <2> QED
    BY <2>1, <2>2, <2>3, <2>4
<1>3. \A n \in 1 .. N : pieces[n] = piece(n)
  BY <1>b
<1>4. \A n \in 1 .. N : cuts[n] \in Nat /\ cuts[n + 1] \in Nat
  BY <1>2
<1>5. \A n \in 1 .. N : cuts[n + 1] <= size + 1
  <2> DEFINE T == {k \in 0 .. N : cuts[(N - k) + 1] <= size + 1}
  <2>1. 0 \in T
    <3>1. (N - 0) + 1 = N + 1 /\ 0 \in 0 .. N
      OBVIOUS
    <3> QED
      BY <1>1, <1>2, <3>1
  <2>2. ASSUME NEW k \in 1 .. N, k - 1 \in T PROVE k \in T
    <3> DEFINE m == (N - k) + 1
    <3>1. m \in 1 .. N /\ (N - (k - 1)) + 1 = m + 1 /\ k \in 0 .. N
      OBVIOUS
    <3>2. cuts[m + 1] <= size + 1
      BY <2>2, <3>1
    <3> HIDE DEF m
    <3>3. cuts[m] \in Nat /\ cuts[m + 1] \in Nat /\ cuts[m] < cuts[m + 1]
      BY <1>2, <1>4, <3>1
    <3>4. cuts[m] <= size + 1
      BY <1>1, <3>2, <3>3
    <3> QED
      BY <3>1, <3>4 DEF m
  <2>3. \A k \in 0 .. N : k \in T
    <3>1. N \in Nat
      OBVIOUS
    <3> HIDE DEF T
    <3> QED
      BY <3>1, <2>1, <2>2, UpTo, Zenon
  <2> TAKE n \in 1 .. N
  <2>4. N - n \in 0 .. N /\ (N - (N - n)) + 1 = n + 1
    OBVIOUS
  <2> QED
    BY <2>3, <2>4
<1> HIDE DEF pieces, size
<1>6. ASSUME NEW n \in 1 .. N
      PROVE  /\ piece(n) \in Seq(Int) /\ Len(piece(n)) = cuts[n + 1] - 1 - cuts[n]
             /\ \A k \in 1 .. cuts[n + 1] - 1 - cuts[n] : piece(n)[k] = content[cuts[n] + k]
  <2> DEFINE low  == cuts[n]
             high == cuts[n + 1]
             a    == low + 1
             b    == high - 1
             p    == SubSeq(content, a, b)
  <2>1. low \in Nat /\ high \in Nat /\ low < high /\ high <= size + 1
    BY <1>2, <1>4, <1>5
  <2>2. p = piece(n)
    OBVIOUS
  <2> HIDE DEF piece, low, high
  <2>3. a \in Int /\ b \in Int /\ \A k \in a .. b : k \in 1 .. size
    BY <1>1, <2>1
  <2>4. \A k \in a .. b : content[k] \in Int
    BY <1>1, <2>3
  <2>5. (IF a <= b THEN b - a + 1 ELSE 0) = high - 1 - low
    BY <2>1
  <2>6. b - a + 1 = high - 1 - low /\ \A k \in Int : a + k - 1 = low + k
    BY <2>1
  <2> HIDE DEF a, b
  <2>7. /\ p \in Seq(Int) /\ Len(p) = IF a <= b THEN b - a + 1 ELSE 0
        /\ \A k \in 1 .. b - a + 1 : p[k] = content[a + k - 1]
    BY <2>3, <2>4, SubSeqProperties
  <2> HIDE DEF p
  <2>8. \A k \in 1 .. high - 1 - low : p[k] = content[low + k]
    <3>1. \A k \in 1 .. high - 1 - low : k \in Int
      OBVIOUS
    <3> QED
      BY <2>6, <2>7, <3>1
  <2>9. p \in Seq(Int) /\ Len(p) = high - 1 - low
    BY <2>5, <2>7
  <2> QED
    BY <2>2, <2>8, <2>9 DEF low, high
<1>7. pieces \in Seq(Seq(Int)) /\ Len(pieces) = N
  <2>1. pieces = [n \in 1 .. N |-> piece(n)]
    BY <1>b DEF pieces
  <2>2. \A n \in 1 .. N : piece(n) \in Seq(Int)
    BY <1>6
  <2> HIDE DEF piece
  <2> QED
    BY <2>1, <2>2, IsASeq
<1>8. ASSUME NEW n \in 1 .. N, NEW k \in 1 .. cuts[n + 1] - 1 - cuts[n]
      PROVE  content[cuts[n] + k] # c
  <2>1. cuts[n] + k \in cuts[n] + 1 .. cuts[n + 1] - 1
    BY <1>4
  <2> QED
    BY <1>b, <2>1 DEF Parted
<1>9. \A n \in 1 .. N :
        /\ pieces[n] \in Seq(Int) /\ Len(pieces[n]) = cuts[n + 1] - 1 - cuts[n]
        /\ \A k \in 1 .. cuts[n + 1] - 1 - cuts[n] :
             pieces[n][k] = content[cuts[n] + k] /\ pieces[n][k] # c
  <2> TAKE n \in 1 .. N
  <2>1. pieces[n] = piece(n)
    BY <1>3
  <2>2. /\ piece(n) \in Seq(Int) /\ Len(piece(n)) = cuts[n + 1] - 1 - cuts[n]
        /\ \A k \in 1 .. cuts[n + 1] - 1 - cuts[n] : piece(n)[k] = content[cuts[n] + k]
    BY <1>6
  <2>3. \A k \in 1 .. cuts[n + 1] - 1 - cuts[n] : content[cuts[n] + k] # c
    BY <1>8
  <2> HIDE DEF piece
  <2> QED
    BY <2>1, <2>2, <2>3
<1> QED
  <2>1. Parted(content, c, cuts, N)
    BY <1>b
  <2>2. PiecesAt(content, c, cuts, N)
    BY <2>1, <1>4, <1>5, <1>7, <1>9 DEF PiecesAt, pieces, size
  <2> QED
    BY <2>2, Zenon

LEMMA FrontIs ==
  ASSUME NEW S, NEW list \in Seq(S), NEW m \in 0 .. Len(list)
  PROVE  /\ SubSeq(list, 1, m) \in Seq(S) /\ Len(SubSeq(list, 1, m)) = m
         /\ \A n \in 1 .. m : SubSeq(list, 1, m)[n] = list[n]
<1> DEFINE front == SubSeq(list, 1, m)
<1>1. Len(list) \in Nat /\ m \in Nat /\ m <= Len(list)
  BY LenProperties
<1>2. \A n \in 1 .. m : n \in 1 .. Len(list)
  BY <1>1
<1>3. \A n \in 1 .. m : list[n] \in S
  BY <1>2, ElementOfSeq
<1>4. 1 \in Int /\ m \in Int
  BY <1>1
<1>5. /\ front \in Seq(S) /\ Len(front) = IF 1 <= m THEN m - 1 + 1 ELSE 0
      /\ \A n \in 1 .. m - 1 + 1 : front[n] = list[1 + n - 1]
  BY <1>3, <1>4, SubSeqProperties
<1>6. (IF 1 <= m THEN m - 1 + 1 ELSE 0) = m /\ m - 1 + 1 = m /\ \A n \in 1 .. m : 1 + n - 1 = n
  BY <1>1
<1> QED
  BY <1>5, <1>6

(* Nothing is read of blank parts at the end.                              *)
LEMMA FrontReads ==
  ASSUME NEW parts \in Seq(Seq(Int)), NEW m \in 0 .. Len(parts),
         \A k \in m + 1 .. Len(parts) : Blank(parts[k])
  PROVE  FlattenSeq(Readings(SubSeq(parts, 1, m))) = FlattenSeq(Readings(parts))
<1> DEFINE N     == Len(parts)
           front == SubSeq(parts, 1, m)
           reads == Readings(parts)
           cut   == SubSeq(reads, 1, m)
           early == Readings(front)
<1>1. N \in Nat /\ m \in Nat /\ m <= N /\ \A n \in 1 .. N : parts[n] \in Seq(Int)
  BY LenProperties, ElementOfSeq
<1>2. front \in Seq(Seq(Int)) /\ Len(front) = m /\ \A n \in 1 .. m : front[n] = parts[n]
  BY FrontIs
<1>3. /\ reads \in Seq(Seq(Int)) /\ Len(reads) = N
      /\ \A n \in 1 .. N : reads[n] = Readables(parts[n])
  BY ReadingsAre
<1> HIDE DEF front, reads, N
<1>4. /\ early \in Seq(Seq(Int)) /\ Len(early) = m
      /\ \A n \in 1 .. m : early[n] = Readables(front[n])
  BY <1>2, ReadingsAre
<1>5. m \in 0 .. Len(reads)
  BY <1>1, <1>3
<1>6. cut \in Seq(Seq(Int)) /\ Len(cut) = m /\ \A n \in 1 .. m : cut[n] = reads[n]
  BY <1>3, <1>5, FrontIs
<1> HIDE DEF early, cut
<1>7. early = cut
  <2>1. \A n \in 1 .. m : n \in 1 .. N
    BY <1>1
  <2>2. \A n \in 1 .. m : early[n] = cut[n]
    BY <1>2, <1>3, <1>4, <1>6, <2>1
  <2>3. \A n \in 1 .. Len(early) : early[n] = cut[n]
    BY <1>4, <2>2
  <2> QED
    BY <1>4, <1>6, <2>3, SeqEqual
<1>8. \A k \in m + 1 .. Len(reads) : reads[k] = <<>>
  <2> TAKE k \in m + 1 .. Len(reads)
  <2>1. k \in 1 .. N /\ k \in m + 1 .. N
    BY <1>1, <1>3
  <2>2. Blank(parts[k])
    BY <2>1 DEF N
  <2> QED
    BY <1>1, <1>3, <2>1, <2>2, BlankReads
<1>9. FlattenSeq(cut) = FlattenSeq(reads)
  BY <1>3, <1>5, <1>8, FlattenFront DEF cut
<1> QED
  BY <1>7, <1>9 DEF early, front, reads

(* All of a text is read in its pieces.                                    *)
LEMMA PiecesRead ==
  ASSUME NEW content \in Seq(Int)
  PROVE  Readables(content) = FlattenSeq(Readings(Pieces(content, LineBreak)))
<1>1. PICK N \in Nat \ {0} : \E cuts : PiecesAt(content, LineBreak, cuts, N)
  BY PiecesAre
<1>2. PICK cuts : PiecesAt(content, LineBreak, cuts, N)
  BY <1>1
<1> DEFINE pieces == Pieces(content, LineBreak)
           size   == Len(content)
           lines  == [n \in 1 .. N |-> SourceLine(pieces[n], 0, 0, FALSE)]
           at     == [n \in 1 .. N + 1 |-> IF n = N + 1 THEN size ELSE cuts[n]]
<1>3. /\ pieces \in Seq(Seq(Int)) /\ Len(pieces) = N
      /\ \A n \in 1 .. N : cuts[n] \in Nat /\ cuts[n + 1] \in Nat /\ cuts[n + 1] <= size + 1
      /\ \A n \in 1 .. N :
           /\ pieces[n] \in Seq(Int) /\ Len(pieces[n]) = cuts[n + 1] - 1 - cuts[n]
           /\ \A k \in 1 .. cuts[n + 1] - 1 - cuts[n] : pieces[n][k] = content[cuts[n] + k]
  BY <1>2 DEF PiecesAt
<1>4. /\ cuts[1] = 0 /\ cuts[N + 1] = size + 1
      /\ \A n \in 1 .. N : cuts[n] < cuts[n + 1]
      /\ \A n \in 2 .. N : content[cuts[n]] = LineBreak
  BY <1>2 DEF PiecesAt, Parted
<1>5. size \in Nat
  BY LenProperties
<1> HIDE DEF pieces, size
<1>6. /\ lines \in Seq(SourceLines) /\ Len(lines) = N
      /\ \A n \in 1 .. N : lines[n].content = pieces[n] /\ lines[n].breakAfter = FALSE
  <2>1. \A n \in 1 .. N : SourceLine(pieces[n], 0, 0, FALSE) \in SourceLines
    BY <1>3 DEF SourceLine, SourceLines
  <2>2. lines \in Seq(SourceLines)
    <3> DEFINE line(n) == SourceLine(pieces[n], 0, 0, FALSE)
    <3>1. lines = [n \in 1 .. N |-> line(n)] /\ \A n \in 1 .. N : line(n) \in SourceLines
      BY <2>1
    <3> HIDE DEF SourceLines, line
    <3>2. [n \in 1 .. N |-> line(n)] \in Seq(SourceLines)
      BY <3>1, IsASeq
    <3> QED
      BY <3>1, <3>2
  <2>3. Len(lines) = N
    OBVIOUS
  <2>4. \A n \in 1 .. N : lines[n] = SourceLine(pieces[n], 0, 0, FALSE)
    OBVIOUS
  <2> HIDE DEF lines
  <2>5. \A n \in 1 .. N : lines[n].content = pieces[n] /\ lines[n].breakAfter = FALSE
    <3>1. \A piece : SourceLine(piece, 0, 0, FALSE).content = piece
                    /\ SourceLine(piece, 0, 0, FALSE).breakAfter = FALSE
      BY DEF SourceLine
    <3> TAKE n \in 1 .. N
    <3>2. lines[n] = SourceLine(pieces[n], 0, 0, FALSE)
      BY <2>4
    <3> QED
      BY <3>1, <3>2, Zenon
  <2> QED
    BY <2>2, <2>3, <2>5
<1> HIDE DEF lines
<1>7. \A n \in 1 .. N : Gap(lines, n) = IF n = N THEN 0 ELSE 1
  BY <1>6 DEF Gap
<1>8. /\ \A n \in 1 .. N : at[n] = cuts[n] /\ n \in 1 .. N + 1
      /\ \A n \in 1 .. N : at[n + 1] = IF n = N THEN size ELSE cuts[n + 1]
      /\ at[N + 1] = size
  <2>1. \A n \in 1 .. N : n \in 1 .. N + 1 /\ n # N + 1 /\ n + 1 \in 1 .. N + 1
                          /\ (n + 1 = N + 1 <=> n = N)
    OBVIOUS
  <2>2. N + 1 \in 1 .. N + 1
    OBVIOUS
  <2> QED
    BY <2>1, <2>2
<1>9. at \in [1 .. N + 1 -> Nat]
  <2>1. \A n \in 1 .. N + 1 : n = N + 1 \/ n \in 1 .. N
    OBVIOUS
  <2> QED
    BY <1>3, <1>5, <2>1
<1> HIDE DEF at
<1>10. ASSUME NEW n \in 1 .. N
       PROVE  /\ at[n + 1] = at[n] + Len(lines[n].content) + Gap(lines, n)
              /\ Carries(content, lines, at, n)
  <2> DEFINE low  == cuts[n]
             high == cuts[n + 1]
             len  == Len(lines[n].content)
             next == at[n + 1]
  <2>1. /\ low \in Nat /\ high \in Nat /\ low < high /\ high <= size + 1
        /\ len = high - 1 - low /\ at[n] = low
        /\ n = N => high = size + 1 /\ next = size
        /\ n # N => next = high /\ content[high] = LineBreak
    <3>1. n # N => n + 1 \in 2 .. N
      OBVIOUS
    <3> QED
      BY <1>3, <1>4, <1>6, <1>8, <3>1
  <2>2. \A k \in 1 .. high - 1 - low : lines[n].content[k] = content[low + k]
    BY <1>3, <1>6
  <2> HIDE DEF low, high, len, next
  <2>3. next = low + len + (IF n = N THEN 0 ELSE 1)
    BY <1>5, <2>1
  <2>4. \A k \in low + len + 1 .. next : content[k] = LineBreak
    <3>1. n # N => \A k \in low + len + 1 .. next : k = high
      BY <1>5, <2>1
    <3>2. n = N => low + len + 1 > next
      BY <1>5, <2>1
    <3>3. n = N => \A k \in low + len + 1 .. next : FALSE
      BY <1>5, <2>1, <3>2
    <3> QED
      BY <2>1, <3>1, <3>3
  <2>5. \A k \in 1 .. len : content[low + k] = lines[n].content[k]
    BY <2>1, <2>2
  <2>6. Carries(content, lines, at, n)
    BY <2>1, <2>4, <2>5 DEF Carries, len, next
  <2> QED
    BY <1>7, <2>1, <2>3, <2>6 DEF len, next
<1>11. Starts(at, lines)
  <2>1. 1 \in 1 .. N
    OBVIOUS
  <2>2. at[1] = 0
    BY <1>4, <1>8, <2>1
  <2> QED
    BY <1>6, <1>9, <1>10, <2>2 DEF Starts
<1> DEFINE from == ReadingsFrom(lines, 1, N)
<1>12. Readables(Sub(content, at[1], at[N + 1])) = FlattenSeq(from)
  <2>1. Len(content) = at[Len(lines) + 1]
    BY <1>6, <1>8 DEF size
  <2>2. 1 \in 1 .. Len(lines) + 1 /\ N \in 0 .. Len(lines) /\ 1 <= N + 1
    BY <1>6
  <2>3. \A n \in 1 .. Len(lines) : Carries(content, lines, at, n)
    BY <1>6, <1>10
  <2> QED
    <3>1. lines \in Seq(SourceLines) /\ Starts(at, lines)
      BY <1>6, <1>11
    <3> HIDE DEF lines, at, from
    <3>2. Readables(Sub(content, at[1], at[N + 1])) = FlattenSeq(ReadingsFrom(lines, 1, N))
      BY <2>1, <2>2, <2>3, <3>1, LinesRead
    <3> QED
      BY <3>2 DEF from
<1>13. from = Readings(pieces)
  <2>1. N - 1 + 1 = N /\ \A k \in 1 .. N : 1 + k - 1 = k
    OBVIOUS
  <2>2. from = [k \in 1 .. N |-> Readables(pieces[k])]
    BY <1>6, <2>1 DEF ReadingsFrom
  <2> QED
    BY <1>3, <2>2 DEF Readings
<1> HIDE DEF from
<1>14. Sub(content, at[1], at[N + 1]) = content
  <2>1. at[1] = 0 /\ at[N + 1] = size
    BY <1>8, <1>11 DEF Starts
  <2> QED
    BY <2>1, SubWhole DEF size
<1> QED
  BY <1>12, <1>13, <1>14 DEF pieces

LEMMA LinesAre ==
  ASSUME NEW content \in Seq(Int)
  PROVE  /\ Lines(content) \in Seq(Seq(Int))
         /\ \A n \in 1 .. Len(Lines(content)) : \A k \in 1 .. Len(Lines(content)[n]) :
              Lines(content)[n][k] # LineBreak
         /\ FlattenSeq(Readings(Lines(content))) = Readables(content)
<1> DEFINE pieces == Pieces(content, LineBreak)
           lines  == Lines(content)
           N      == Len(pieces)
<1>1. PICK M \in Nat \ {0} : \E cuts : PiecesAt(content, LineBreak, cuts, M)
  BY PiecesAre
<1>2. PICK cuts : PiecesAt(content, LineBreak, cuts, M)
  BY <1>1
<1>3. /\ pieces \in Seq(Seq(Int)) /\ N \in Nat \ {0}
      /\ \A n \in 1 .. N : pieces[n] \in Seq(Int)
      /\ \A n \in 1 .. N : \A k \in 1 .. Len(pieces[n]) : pieces[n][k] # LineBreak
  BY <1>2 DEF PiecesAt
<1>4. lines = IF pieces[N] = <<>> THEN SubSeq(pieces, 1, N - 1) ELSE pieces
  BY DEF Lines, Last, Front
<1>5. FlattenSeq(Readings(pieces)) = Readables(content)
  BY PiecesRead
<1> HIDE DEF pieces, lines
<1>6. CASE pieces[N] = <<>>
  <2> DEFINE m     == N - 1
             front == SubSeq(pieces, 1, m)
  <2>1. m \in 0 .. Len(pieces) /\ \A k \in m + 1 .. Len(pieces) : k = N
    BY <1>3
  <2>2. \A n \in 1 .. m : n \in 1 .. N
    BY <1>3
  <2>20. lines = front
    BY <1>4, <1>6
  <2> HIDE DEF m
  <2>3. front \in Seq(Seq(Int)) /\ Len(front) = m /\ \A n \in 1 .. m : front[n] = pieces[n]
    BY <1>3, <2>1, FrontIs
  <2>4. Blank(<<>>)
    BY DEF Blank
  <2>5. FlattenSeq(Readings(front)) = FlattenSeq(Readings(pieces))
    BY <1>3, <1>6, <2>1, <2>4, FrontReads
  <2> HIDE DEF front
  <2>6. \A n \in 1 .. Len(front) : \A k \in 1 .. Len(front[n]) : front[n][k] # LineBreak
    BY <1>3, <2>2, <2>3
  <2> QED
    BY <1>5, <2>3, <2>5, <2>6, <2>20 DEF lines
<1>7. CASE pieces[N] # <<>>
  <2>1. lines = pieces
    BY <1>4, <1>7
  <2> QED
    BY <1>3, <1>5, <2>1 DEF lines
<1> QED
  BY <1>6, <1>7

LEMMA WithoutTrailingBlankIs ==
  ASSUME NEW pieces \in Seq(Seq(Int))
  PROVE  \E m \in 0 .. Len(pieces) :
           /\ WithoutTrailingBlank(pieces) = SubSeq(pieces, 1, m)
           /\ \A k \in m + 1 .. Len(pieces) : Blank(pieces[k])
<1> DEFINE N    == Len(pieces)
           kept == {k \in DOMAIN pieces : ~Blank(pieces[k])}
           T    == {1} \cup kept
           top  == Max(T)
           m    == Least(N, top)
<1>1. N \in Nat /\ DOMAIN pieces = 1 .. N
  BY LenProperties
<1>2. T \in SUBSET Nat /\ 1 \in T /\ N + 1 \in Nat /\ \A n \in T : n <= N + 1
  BY <1>1
<1>3. \A k \in 1 .. N : ~Blank(pieces[k]) => k \in T
  BY <1>1
<1>4. WithoutTrailingBlank(pieces) = SubSeq(pieces, 1, m)
  BY DEF WithoutTrailingBlank
<1> HIDE DEF T, N
<1>5. top \in T /\ \A n \in T : n <= top
  BY <1>2, MaxIsGreatest
<1> HIDE DEF top
<1>6. m \in 0 .. N
  BY <1>1, <1>2, <1>5 DEF Least
<1>7. ASSUME NEW k \in m + 1 .. N PROVE Blank(pieces[k])
  <2>1. top \in Nat
    BY <1>2, <1>5
  <2>2. k \in 1 .. N /\ top < k
    BY <1>1, <1>6, <2>1 DEF Least
  <2>3. k \notin T
    BY <1>2, <1>5, <2>1, <2>2
  <2> QED
    BY <1>3, <2>2, <2>3
<1> QED
  BY <1>4, <1>6, <1>7 DEF N

LEMMA TrimEndReads ==
  ASSUME NEW line \in Seq(Int)
  PROVE  /\ TrimEnd(line) \in Seq(Int) /\ Readables(TrimEnd(line)) = Readables(line)
         /\ \A k \in 1 .. Len(TrimEnd(line)) : k \in 1 .. Len(line) /\ TrimEnd(line)[k] = line[k]
         /\ Blank(TrimEnd(line)) <=> Blank(line)
<1> DEFINE N   == Len(line)
           T   == {0} \cup {k \in DOMAIN line : line[k] \notin White}
           top == Max(T)
           front == Sub(line, 0, top)
           back  == Sub(line, top, N)
<1>1. N \in Nat /\ DOMAIN line = 1 .. N
  BY LenProperties
<1>2. T \in SUBSET Nat /\ 0 \in T /\ \A n \in T : n <= N
  BY <1>1
<1>3. \A k \in 1 .. N : line[k] \notin White => k \in T
  BY <1>1
<1>4. \A k \in T : k # 0 => k \in 1 .. N /\ line[k] \notin White
  BY <1>1
<1>5. TrimEnd(line) = front
  <2>1. 0 + 1 = 1
    OBVIOUS
  <2> QED
    BY <2>1 DEF TrimEnd, Sub
<1> HIDE DEF T, N
<1>6. top \in T /\ \A n \in T : n <= top
  BY <1>1, <1>2, MaxIsGreatest
<1> HIDE DEF top
<1>7. top \in Nat /\ top <= N /\ 0 \in Nat /\ 0 <= top /\ top <= Len(line) /\ N <= Len(line)
  BY <1>1, <1>2, <1>6 DEF N
<1>8. BlankIn(line, top, N)
  <2>1. ASSUME NEW k \in top .. N - 1, line[k + 1] \notin White PROVE FALSE
    <3>1. k + 1 \in 1 .. N /\ top < k + 1
      BY <1>1, <1>7
    <3>2. k + 1 <= top
      BY <1>3, <1>6, <2>1, <3>1
    <3> QED
      BY <1>7, <3>1, <3>2
  <2> QED
    BY <2>1 DEF BlankIn
<1>9. /\ front \in Seq(Int) /\ Len(front) = top
      /\ \A i \in 1 .. top : front[i] = line[i]
  <2>1. /\ front \in Seq(Int) /\ Len(front) = top - 0
        /\ \A i \in 1 .. top - 0 : front[i] = line[0 + i]
    BY <1>7, SubItems
  <2>2. top - 0 = top /\ \A i \in 1 .. top : 0 + i = i
    BY <1>7
  <2> QED
    BY <2>1, <2>2
<1>10. back \in Seq(Int)
  BY <1>1, <1>7, SubItems
<1>11. Readables(back) = <<>>
  <2>1. Blank(back)
    BY <1>1, <1>7, <1>8, BlankPart
  <2> QED
    BY <1>10, <2>1, BlankReads
<1>12. Readables(line) = Readables(front) \o Readables(back)
  <2>1. Readables(Sub(line, 0, N)) = Readables(front) \o Readables(back)
    BY <1>1, <1>7, PartReads
  <2> QED
    BY <2>1, SubWhole DEF N
<1>13. Readables(front) \in Seq(Int)
  <2> HIDE DEF front
  <2> QED
    BY <1>9, ReadablesAre
<1>14. Readables(front) = Readables(line)
  BY <1>11, <1>12, <1>13, ConcatEmptySeq
<1>15. Blank(front) <=> Blank(line)
  <2>1. DOMAIN front = 1 .. top /\ DOMAIN line = 1 .. N
    BY <1>1, <1>9, LenProperties
  <2>2. \A k \in 1 .. N : k \in 1 .. top \/ line[k] \in White
    BY <1>1, <1>3, <1>6, <1>7
  <2>3. \A k \in 1 .. top : k \in 1 .. N
    BY <1>1, <1>7
  <2> HIDE DEF front
  <2> QED
    BY <1>9, <2>1, <2>2, <2>3 DEF Blank
<1>16. \A k \in 1 .. Len(front) : k \in 1 .. N /\ front[k] = line[k]
  BY <1>1, <1>7, <1>9
<1> QED
  BY <1>5, <1>9, <1>14, <1>15, <1>16 DEF N

LEMMA NormalizedReads ==
  ASSUME NEW content \in Seq(Int)
  PROVE  Normalized(content) \in Seq(Int) /\ Readables(Normalized(content)) = Readables(content)
<1> DEFINE N    == Len(content)
           S    == {k \in DOMAIN content :
                      ~(content[k] = LineBreak /\ k > 1 /\ content[k - 1] = Return)}
           kept == Ascending(S)
           char(n) == IF content[kept[n]] = Return THEN LineBreak ELSE content[kept[n]]
           text1 == [n \in 1 .. Len(kept) |-> char(n)]
<1>1. N \in Nat /\ DOMAIN content = 1 .. N /\ \A k \in 1 .. N : content[k] \in Int
  BY LenProperties, ElementOfSeq
<1>2. /\ S \in SUBSET Nat /\ S \subseteq 1 .. N /\ \A k \in S : k <= N
      /\ \A k \in 1 .. N : content[k] # LineBreak => k \in S
  BY <1>1
<1> HIDE DEF S, N
<1>3. Ascends(kept, S)
  BY <1>1, <1>2, AscendingAscends
<1>4. Normalized(content) = [n \in DOMAIN kept |-> char(n)]
  BY DEF Normalized, S
<1> HIDE DEF kept
<1>5. /\ Len(kept) \in Nat /\ DOMAIN kept = 1 .. Len(kept)
      /\ \A i \in 1 .. Len(kept) : kept[i] \in S
      /\ \A i, j \in 1 .. Len(kept) : i < j => kept[i] < kept[j]
      /\ \A k \in S : \E i \in 1 .. Len(kept) : kept[i] = k
  BY <1>3, LenProperties, ElementOfSeq DEF Ascends
<1>6. \A n \in 1 .. Len(kept) : char(n) \in Int /\ kept[n] \in 1 .. N
  <2> TAKE n \in 1 .. Len(kept)
  <2>1. kept[n] \in 1 .. N
    BY <1>2, <1>5
  <2>2. content[kept[n]] \in Int
    BY <1>1, <2>1
  <2> QED
    BY <2>1, <2>2 DEF LineBreak
<1>7. /\ text1 \in Seq(Int) /\ Len(text1) = Len(kept)
      /\ \A n \in 1 .. Len(kept) : text1[n] = char(n)
  <2> HIDE DEF char
  <2> QED
    BY <1>5, <1>6, IsASeq
<1>8. Normalized(content) = text1
  BY <1>4, <1>5
<1> HIDE DEF text1
<1>9. DOMAIN text1 = 1 .. Len(kept) /\ DOMAIN content = 1 .. N
  BY <1>1, <1>7, LenProperties
<1>10. \A k \in Shown(text1) : /\ k \in 1 .. Len(kept) /\ kept[k] \in Shown(content)
                               /\ content[kept[k]] = text1[k]
  <2> TAKE k \in Shown(text1)
  <2>1. k \in 1 .. Len(kept) /\ text1[k] = char(k) /\ text1[k] \notin Unseen /\ kept[k] \in 1 .. N
    BY <1>6, <1>7, <1>9 DEF Shown
  <2>2. content[kept[k]] # Return
    BY <2>1 DEF Unseen, White
  <2>3. text1[k] = content[kept[k]]
    BY <2>1, <2>2
  <2> QED
    BY <1>9, <2>1, <2>3 DEF Shown
<1>11. \A j, k \in Shown(text1) : j < k => kept[j] < kept[k]
  BY <1>5, <1>10
<1>12. \A k \in Shown(content) : \E j \in Shown(text1) : kept[j] = k
  <2> TAKE k \in Shown(content)
  <2>1. k \in 1 .. N /\ content[k] \notin Unseen
    BY <1>9 DEF Shown
  <2>2. content[k] # LineBreak /\ content[k] # Return
    BY <2>1 DEF Unseen, White
  <2>3. PICK j \in 1 .. Len(kept) : kept[j] = k
    BY <1>2, <1>5, <2>1, <2>2
  <2>4. text1[j] = content[k]
    BY <1>7, <2>2, <2>3
  <2>5. j \in Shown(text1)
    BY <1>9, <2>1, <2>3, <2>4 DEF Shown
  <2> QED
    BY <2>3, <2>5
<1>13. Readables(text1) = Readables(content)
  <2>1. \A k \in Shown(text1) : kept[k] \in Shown(content) /\ content[kept[k]] = text1[k]
    BY <1>10
  <2>2. text1 \in Seq(Int) /\ Follows(text1, content, kept)
    BY <1>7, <1>11, <1>12, <2>1 DEF Follows
  <2> QED
    BY <2>2, ReadablesFollow
<1> QED
  BY <1>7, <1>8, <1>13

LEMMA DecodedReads ==
  ASSUME NEW file, file.content \in Seq(Int)
  PROVE  Decoded(file) \in Seq(Int) /\ Readables(Decoded(file)) = Readables(file.content)
<1> DEFINE content == file.content
           N       == Len(content)
           T       == {N} \cup {k \in 0 .. N - 1 : content[k + 1] # ByteOrderMark}
           m       == Min(T)
           front   == Sub(content, 0, m)
           back    == Sub(content, m, N)
<1>1. content \in Seq(Int) /\ N \in Nat
  BY LenProperties
<1>2. T \in SUBSET Nat /\ N \in T
  BY <1>1
<1>3. \A k \in 0 .. N - 1 : content[k + 1] # ByteOrderMark => k \in T
  OBVIOUS
<1>4. Decoded(file) = IF file.encoding = "utf8" THEN back ELSE content
  BY DEF Decoded
<1> HIDE DEF T, N, content
<1>5. m \in T /\ \A n \in T : m <= n
  BY <1>2, MinIsLeast
<1> HIDE DEF m
<1>6. m \in Nat /\ m <= N /\ 0 \in Nat /\ 0 <= m /\ m <= Len(content) /\ N <= Len(content)
  BY <1>1, <1>2, <1>5 DEF N
<1>7. \A k \in 1 .. m : content[k] = ByteOrderMark
  <2>1. ASSUME NEW k \in 1 .. m, content[k] # ByteOrderMark PROVE FALSE
    <3>1. k - 1 \in 0 .. N - 1 /\ (k - 1) + 1 = k /\ k - 1 < m /\ k - 1 \in Nat
      BY <1>1, <1>6
    <3>2. k - 1 \in T
      BY <1>3, <2>1, <3>1
    <3>3. m <= k - 1
      BY <1>5, <3>2
    <3> QED
      BY <1>6, <3>1, <3>3
  <2> QED
    BY <2>1
<1>8. /\ front \in Seq(Int) /\ Len(front) = m
      /\ \A i \in 1 .. m : front[i] = content[i]
  <2>1. /\ front \in Seq(Int) /\ Len(front) = m - 0
        /\ \A i \in 1 .. m - 0 : front[i] = content[0 + i]
    BY <1>1, <1>6, SubItems
  <2>2. m - 0 = m /\ \A i \in 1 .. m : 0 + i = i
    BY <1>6
  <2> QED
    BY <2>1, <2>2
<1>9. back \in Seq(Int)
  BY <1>1, <1>6, SubItems
<1>10. Readables(front) = <<>>
  <2> HIDE DEF front
  <2>1. DOMAIN front = 1 .. m
    BY <1>8, LenProperties
  <2>2. Shown(front) = {}
    BY <1>7, <1>8, <2>1 DEF Shown, Unseen
  <2> QED
    BY <1>8, <2>2, ReadablesAre
<1>11. Readables(content) = Readables(front) \o Readables(back)
  <2>1. Readables(Sub(content, 0, N)) = Readables(front) \o Readables(back)
    BY <1>1, <1>6, PartReads
  <2> QED
    BY <1>1, <2>1, SubWhole DEF N
<1>12. Readables(back) \in Seq(Int)
  <2> HIDE DEF back
  <2> QED
    BY <1>9, ReadablesAre
<1>13. Readables(back) = Readables(content)
  BY <1>10, <1>11, <1>12, ConcatEmptySeq
<1> QED
  BY <1>1, <1>4, <1>9, <1>13 DEF content

-----------------------------------------------------------------------------
(* The lines a file gives                                                  *)

Listed(lines, pieces) ==
  /\ lines = [k \in 1 .. Len(pieces) |-> lines[k]]
  /\ \A k \in 1 .. Len(pieces) : lines[k] \in SourceLines /\ lines[k].content = pieces[k]

LEMMA ListedLines ==
  ASSUME NEW pieces \in Seq(Seq(Int)), NEW lines, Listed(lines, pieces)
  PROVE  /\ lines \in Seq(SourceLines) /\ Len(lines) = Len(pieces)
         /\ \A k \in 1 .. Len(lines) : lines[k].content = pieces[k]
         /\ ReadingsFrom(lines, 1, Len(lines)) = Readings(pieces)
<1> DEFINE N == Len(pieces)
<1>1. N \in Nat
  BY LenProperties
<1>2. /\ lines = [k \in 1 .. N |-> lines[k]]
      /\ \A k \in 1 .. N : lines[k] \in SourceLines /\ lines[k].content = pieces[k]
  BY DEF Listed
<1> HIDE DEF N
<1>3. lines \in Seq(SourceLines) /\ Len(lines) = N
  <2> HIDE DEF SourceLines
  <2>1. lines \in [1 .. N -> SourceLines]
    BY <1>2
  <2> QED
    BY <1>1, <2>1, SeqDef, LenProperties
<1>4. ReadingsFrom(lines, 1, N) = [k \in 1 .. N |-> Readables(pieces[k])]
  <2>1. N - 1 + 1 = N /\ \A k \in 1 .. N : 1 + k - 1 = k
    BY <1>1
  <2> QED
    BY <1>2, <2>1 DEF ReadingsFrom
<1> QED
  BY <1>2, <1>3, <1>4 DEF N, Readings

(* The rows of the file that the lines of the text stand for.              *)
Rows == [page : Nat, line : Nat, content : Seq(Int)]

Mirrors(rows, lines) ==
  /\ rows \in Seq(Rows) /\ Len(lines) <= Len(rows)
  /\ \A i \in 1 .. Len(lines) : /\ rows[i].page = lines[i].page
                                /\ rows[i].line = lines[i].line
                                /\ rows[i].content = Readables(lines[i].content)

ReadsAll(lines, content) ==
  FlattenSeq(ReadingsFrom(lines, 1, Len(lines))) = Readables(content)

LEMMA LaidReads ==
  ASSUME NEW lines \in Seq(SourceLines), NEW d, NEW at, NEW par, Laid(d, lines, at, par)
  PROVE  Readables(d.text) = FlattenSeq(ReadingsFrom(lines, 1, Len(lines)))
<1> DEFINE N    == Len(lines)
           body == d.text
<1>1. /\ N \in Nat /\ body \in Seq(Int) /\ Starts(at, lines) /\ Len(body) = at[N + 1] /\ at[1] = 0
      /\ \A n \in 1 .. N : Carries(body, lines, at, n)
  BY LenProperties DEF Laid, Documents, Starts
<1> HIDE DEF body
<1>2. 1 \in 1 .. Len(lines) + 1 /\ N \in 0 .. Len(lines) /\ 1 <= N + 1
  BY <1>1
<1>3. Readables(Sub(body, at[1], at[N + 1])) = FlattenSeq(ReadingsFrom(lines, 1, N))
  BY <1>1, <1>2, LinesRead
<1>4. Sub(body, at[1], at[N + 1]) = body
  BY <1>1, SubWhole
<1> QED
  BY <1>3, <1>4 DEF body

(* TXT: the line breaks are between the lines.                             *)
TxtGives(file, d) ==
  \E lines \in Seq(SourceLines) :
    /\ d = BuildDocument(lines) /\ BreaksBetween(lines)
    /\ ReadsAll(lines, file.content) /\ Mirrors(FileLines(file), lines)

LEMMA ReadTxtGives ==
  ASSUME NEW file, file.format = "txt", file.content \in Seq(Int), ReadTxt(file) # None
  PROVE  TxtGives(file, ReadTxt(file))
<1> DEFINE content == Normalized(Decoded(file))
           all     == Lines(content)
           pieces  == WithoutTrailingBlank(all)
           lines   == [k \in DOMAIN pieces |-> SourceLine(pieces[k], 0, k, FALSE)]
           rows    == FileLines(file)
<1>1. ReadTxt(file) = BuildDocument(lines)
  BY DEF ReadTxt
<1>2. content \in Seq(Int) /\ Readables(content) = Readables(file.content)
  BY DecodedReads, NormalizedReads
<1>3. rows = [k \in DOMAIN all |-> [page |-> 0, line |-> k, content |-> Readables(all[k])]]
  BY DEF FileLines
<1> HIDE DEF content
<1>4. /\ all \in Seq(Seq(Int))
      /\ \A n \in 1 .. Len(all) : \A k \in 1 .. Len(all[n]) : all[n][k] # LineBreak
      /\ FlattenSeq(Readings(all)) = Readables(content)
  BY <1>2, LinesAre
<1> HIDE DEF all, rows
<1>5. PICK m \in 0 .. Len(all) : /\ pieces = SubSeq(all, 1, m)
                                 /\ \A k \in m + 1 .. Len(all) : Blank(all[k])
  BY <1>4, WithoutTrailingBlankIs
<1> HIDE DEF pieces
<1>6. /\ pieces \in Seq(Seq(Int)) /\ Len(pieces) = m /\ DOMAIN pieces = 1 .. m
      /\ \A n \in 1 .. m : pieces[n] = all[n]
  BY <1>4, <1>5, FrontIs, LenProperties
<1>7. /\ Len(all) \in Nat /\ DOMAIN all = 1 .. Len(all) /\ m \in Nat /\ m <= Len(all)
      /\ \A n \in 1 .. m : n \in 1 .. Len(all)
      /\ \A n \in 1 .. Len(all) : all[n] \in Seq(Int)
  BY <1>4, LenProperties, ElementOfSeq
<1>8. FlattenSeq(Readings(pieces)) = Readables(file.content)
  BY <1>2, <1>4, <1>5, FrontReads
<1>9. \A k \in 1 .. m : /\ lines[k] = SourceLine(pieces[k], 0, k, FALSE)
                        /\ lines[k] \in SourceLines
                        /\ lines[k].content = pieces[k] /\ lines[k].page = 0
                        /\ lines[k].line = k
  <2> TAKE k \in 1 .. m
  <2>1. lines[k] = SourceLine(pieces[k], 0, k, FALSE)
    BY <1>6
  <2>2. pieces[k] \in Seq(Int) /\ k \in Nat
    BY <1>6, <1>7
  <2> HIDE DEF lines
  <2> QED
    BY <2>1, <2>2 DEF SourceLine, SourceLines
<1>10. lines = [k \in 1 .. m |-> lines[k]]
  BY <1>6
<1> HIDE DEF lines
<1>11. /\ lines \in Seq(SourceLines) /\ Len(lines) = m
       /\ ReadingsFrom(lines, 1, Len(lines)) = Readings(pieces)
  <2>1. Listed(lines, pieces)
    BY <1>6, <1>9, <1>10 DEF Listed
  <2> QED
    BY <1>6, <2>1, ListedLines
<1>12. BreaksBetween(lines)
  <2>1. ASSUME NEW n \in 1 .. m, NEW k \in 1 .. Len(lines[n].content)
        PROVE  lines[n].content[k] # LineBreak
    <3>1. lines[n].content = all[n] /\ n \in 1 .. Len(all)
      BY <1>6, <1>7, <1>9
    <3> QED
      BY <1>4, <3>1
  <2>2. Len(lines) = m
    BY <1>11
  <2> QED
    BY <2>1, <2>2 DEF BreaksBetween
<1>13. ReadsAll(lines, file.content)
  BY <1>8, <1>11 DEF ReadsAll
<1>14. Mirrors(rows, lines)
  <2>1. \A k \in 1 .. Len(all) : [page |-> 0, line |-> k, content |-> Readables(all[k])] \in Rows
    BY <1>7, ReadablesAre DEF Rows
  <2>2. rows \in Seq(Rows) /\ Len(rows) = Len(all)
    <3> DEFINE row(k) == [page |-> 0, line |-> k, content |-> Readables(all[k])]
    <3>1. rows = [k \in 1 .. Len(all) |-> row(k)] /\ \A k \in 1 .. Len(all) : row(k) \in Rows
      BY <1>3, <1>7, <2>1
    <3> HIDE DEF row, Rows
    <3>2. [k \in 1 .. Len(all) |-> row(k)] \in Seq(Rows)
      BY <1>7, <3>1, IsASeq
    <3>3. Len([k \in 1 .. Len(all) |-> row(k)]) = Len(all)
      BY <1>7
    <3> QED
      BY <3>1, <3>2, <3>3
  <2>3. \A k \in 1 .. m : rows[k].page = 0 /\ rows[k].line = k /\ rows[k].content = Readables(all[k])
    <3> TAKE k \in 1 .. m
    <3>1. rows[k] = [page |-> 0, line |-> k, content |-> Readables(all[k])]
      BY <1>3, <1>7
    <3> QED
      BY <3>1
  <2>4. Len(lines) = m /\ Len(lines) <= Len(rows)
    BY <1>7, <1>11, <2>2
  <2>5. ASSUME NEW k \in 1 .. m
        PROVE  /\ rows[k].page = lines[k].page /\ rows[k].line = lines[k].line
               /\ rows[k].content = Readables(lines[k].content)
    <3>1. lines[k].content = all[k] /\ lines[k].page = 0 /\ lines[k].line = k
      BY <1>6, <1>9
    <3> QED
      BY <2>3, <3>1
  <2> QED
    BY <2>2, <2>4, <2>5 DEF Mirrors
<1> QED
  BY <1>1, <1>11, <1>12, <1>13, <1>14 DEF TxtGives, rows

(* DOCX: what an event changes.                                            *)
Events == [kind : STRING, tag : STRING, content : Seq(Int)]

Accs == [paragraphs : Seq(Seq(Int)), paragraph : Seq(Int), inParagraph : BOOLEAN,
         inText : BOOLEAN, deleted : Nat]

LEMMA AccsExcept ==
  ASSUME NEW acc \in Accs
  PROVE  /\ \A k \in Nat : [acc EXCEPT !.deleted = k] \in Accs
         /\ [acc EXCEPT !.inText = TRUE] \in Accs /\ [acc EXCEPT !.inText = FALSE] \in Accs
         /\ \A p \in Seq(Int) :
              /\ [acc EXCEPT !.paragraph = p] \in Accs
              /\ [acc EXCEPT !.inParagraph = TRUE, !.paragraph = p] \in Accs
              /\ \A list \in Seq(Seq(Int)) :
                   [acc EXCEPT !.paragraphs = list, !.paragraph = p, !.inParagraph = FALSE] \in Accs
<1>1. ASSUME NEW P, NEW Q,
             acc \in [paragraphs : P, paragraph : Q, inParagraph : BOOLEAN, inText : BOOLEAN,
                      deleted : Nat]
      PROVE  LET A == [paragraphs : P, paragraph : Q, inParagraph : BOOLEAN, inText : BOOLEAN,
                       deleted : Nat]
             IN /\ \A k \in Nat : [acc EXCEPT !.deleted = k] \in A
                /\ [acc EXCEPT !.inText = TRUE] \in A /\ [acc EXCEPT !.inText = FALSE] \in A
                /\ \A p \in Q :
                     /\ [acc EXCEPT !.paragraph = p] \in A
                     /\ [acc EXCEPT !.inParagraph = TRUE, !.paragraph = p] \in A
                     /\ \A list \in P :
                          [acc EXCEPT !.paragraphs = list, !.paragraph = p,
                                      !.inParagraph = FALSE] \in A
  BY <1>1
<1> QED
  BY <1>1, Zenon DEF Accs

Is(event, kind, tag) == event.kind = kind /\ event.tag = tag

Counted(acc) == acc.inParagraph /\ acc.deleted = 0

(* What an event adds to the paragraph.                                    *)
Added(acc, event) ==
  IF ~Counted(acc) THEN <<>>
  ELSE IF Is(event, "empty", "tab") THEN <<Space>>
  ELSE IF Is(event, "empty", "br") THEN <<LineBreak>>
  ELSE IF event.kind = "chars" /\ acc.inText THEN event.content ELSE <<>>

Changes(acc, event, next) ==
  /\ next.deleted = IF Is(event, "open", "del") THEN acc.deleted + 1
                    ELSE IF Is(event, "close", "del") /\ acc.deleted # 0 THEN acc.deleted - 1
                    ELSE acc.deleted
  /\ next.inText <=> (Is(event, "open", "t") \/ (acc.inText /\ ~Is(event, "close", "t")))
  /\ next.inParagraph <=>
       (Is(event, "open", "p") \/ (acc.inParagraph /\ ~Is(event, "close", "p")))
  /\ next.paragraphs = IF Is(event, "close", "p") /\ acc.inParagraph
                       THEN Append(acc.paragraphs, acc.paragraph) ELSE acc.paragraphs
  /\ next.paragraph = IF Is(event, "open", "p") \/ (Is(event, "close", "p") /\ acc.inParagraph)
                      THEN <<>> ELSE acc.paragraph \o Added(acc, event)

LEMMA OneLess ==
  ASSUME NEW k \in Nat
  PROVE  Max({0, k - 1}) = IF k # 0 THEN k - 1 ELSE k
<1> DEFINE T == {0, k - 1}
           top == IF k # 0 THEN k - 1 ELSE k
<1>1. top \in T /\ \A y \in T : top >= y
  OBVIOUS
<1>2. \A x \in T : (\A y \in T : x >= y) => x = top
  OBVIOUS
<1>3. Max(T) \in T /\ \A y \in T : Max(T) >= y
  <2> HIDE DEF T, top
  <2> QED
    BY <1>1 DEF Max
<1> QED
  BY <1>2, <1>3

LEMMA ReadEventChanges ==
  ASSUME NEW acc \in Accs, NEW event \in Events
  PROVE  ReadEvent(acc, event) \in Accs /\ Changes(acc, event, ReadEvent(acc, event))
<1> DEFINE next == ReadEvent(acc, event)
           Adding(content) == [acc EXCEPT !.paragraph = @ \o content]
           quiet == /\ ~Is(event, "open", "del") /\ ~Is(event, "close", "del")
                    /\ ~Is(event, "open", "p") /\ ~Is(event, "open", "t")
                    /\ ~Is(event, "close", "t")
                    /\ ~(Is(event, "close", "p") /\ acc.inParagraph)
<1>1. /\ acc.paragraphs \in Seq(Seq(Int)) /\ acc.paragraph \in Seq(Int)
      /\ acc.inParagraph \in BOOLEAN /\ acc.inText \in BOOLEAN /\ acc.deleted \in Nat
      /\ event.content \in Seq(Int)
  BY DEF Accs, Events
<1>2. acc.paragraph \o <<>> = acc.paragraph
  BY <1>1, ConcatEmptySeq
<1>10. /\ acc.deleted + 1 \in Nat /\ <<>> \in Seq(Int)
       /\ (IF acc.deleted # 0 THEN acc.deleted - 1 ELSE acc.deleted) \in Nat
  BY <1>1
<1>11. /\ \A k \in Nat : [acc EXCEPT !.deleted = k] \in Accs
       /\ [acc EXCEPT !.inText = TRUE] \in Accs /\ [acc EXCEPT !.inText = FALSE] \in Accs
       /\ \A p \in Seq(Int) :
            /\ [acc EXCEPT !.paragraph = p] \in Accs
            /\ [acc EXCEPT !.inParagraph = TRUE, !.paragraph = p] \in Accs
            /\ \A list \in Seq(Seq(Int)) :
                 [acc EXCEPT !.paragraphs = list, !.paragraph = p, !.inParagraph = FALSE] \in Accs
  BY AccsExcept, Zenon
<1>3. CASE Is(event, "open", "del")
  <2>1. next = [acc EXCEPT !.deleted = @ + 1]
    BY <1>3 DEF ReadEvent, Is
  <2>2. Added(acc, event) = <<>> /\ ~Is(event, "close", "del") /\ ~Is(event, "open", "p")
        /\ ~Is(event, "close", "p") /\ ~Is(event, "open", "t") /\ ~Is(event, "close", "t")
    BY <1>3 DEF Added, Is
  <2> HIDE DEF next
  <2>7. next \in Accs
    BY <1>1, <1>10, <1>11, <2>1, <2>2, Zenon
  <2>8. /\ next.paragraphs = acc.paragraphs
        /\ next.paragraph = acc.paragraph
        /\ (next.inParagraph <=> acc.inParagraph)
        /\ (next.inText <=> acc.inText)
        /\ next.deleted = acc.deleted + 1
    BY <1>1, <2>1, <2>2 DEF Accs
  <2>9. Changes(acc, event, next)
    BY <1>1, <1>2, <1>3, <2>1, <2>2, <2>8 DEF Changes
  <2> QED
    BY <2>7, <2>9 DEF next
<1>4. CASE Is(event, "close", "del")
  <2>1. next = [acc EXCEPT !.deleted = Max({0, @ - 1})]
    BY <1>4 DEF ReadEvent, Is
  <2>2. Added(acc, event) = <<>> /\ ~Is(event, "open", "del") /\ ~Is(event, "open", "p")
        /\ ~Is(event, "close", "p") /\ ~Is(event, "open", "t") /\ ~Is(event, "close", "t")
    BY <1>4 DEF Added, Is
  <2>3. next = [acc EXCEPT !.deleted = IF acc.deleted # 0 THEN acc.deleted - 1 ELSE acc.deleted]
    BY <1>1, <2>1, OneLess
  <2> HIDE DEF next
  <2>7. next \in Accs
    BY <1>1, <1>10, <1>11, <2>2, <2>3, Zenon
  <2>8. /\ next.paragraphs = acc.paragraphs
        /\ next.paragraph = acc.paragraph
        /\ (next.inParagraph <=> acc.inParagraph)
        /\ (next.inText <=> acc.inText)
        /\ next.deleted = (IF acc.deleted # 0 THEN acc.deleted - 1 ELSE acc.deleted)
    BY <1>1, <2>2, <2>3 DEF Accs
  <2>9. Changes(acc, event, next)
    BY <1>1, <1>2, <1>4, <2>2, <2>3, <2>8 DEF Changes
  <2> QED
    BY <2>7, <2>9 DEF next
<1>5. CASE Is(event, "open", "p")
  <2>1. next = [acc EXCEPT !.inParagraph = TRUE, !.paragraph = <<>>]
    BY <1>5 DEF ReadEvent, Is
  <2>2. ~Is(event, "open", "del") /\ ~Is(event, "close", "del")
        /\ ~Is(event, "close", "p") /\ ~Is(event, "open", "t") /\ ~Is(event, "close", "t")
    BY <1>5 DEF Is
  <2> HIDE DEF next
  <2>7. next \in Accs
    BY <1>1, <1>10, <1>11, <2>1, <2>2, Zenon
  <2>8. /\ next.paragraphs = acc.paragraphs
        /\ next.paragraph = <<>>
        /\ next.inParagraph
        /\ (next.inText <=> acc.inText)
        /\ next.deleted = acc.deleted
    BY <1>1, <2>1, <2>2 DEF Accs
  <2>9. Changes(acc, event, next)
    BY <1>1, <1>5, <2>1, <2>2, <2>8 DEF Changes
  <2> QED
    BY <2>7, <2>9 DEF next
<1>6. CASE Is(event, "close", "p") /\ acc.inParagraph
  <2>1. next = [acc EXCEPT !.paragraphs = Append(@, acc.paragraph),
                           !.paragraph = <<>>, !.inParagraph = FALSE]
    BY <1>6 DEF ReadEvent, Is
  <2>2. ~Is(event, "open", "del") /\ ~Is(event, "close", "del")
        /\ ~Is(event, "open", "p") /\ ~Is(event, "open", "t") /\ ~Is(event, "close", "t")
    BY <1>6 DEF Is
  <2>3. Append(acc.paragraphs, acc.paragraph) \in Seq(Seq(Int))
    BY <1>1, AppendProperties
  <2> HIDE DEF next
  <2>7. next \in Accs
    BY <1>1, <1>10, <1>11, <2>1, <2>2, <2>3, Zenon
  <2>8. /\ next.paragraphs = Append(acc.paragraphs, acc.paragraph)
        /\ next.paragraph = <<>>
        /\ ~next.inParagraph
        /\ (next.inText <=> acc.inText)
        /\ next.deleted = acc.deleted
    BY <1>1, <2>1, <2>2, <2>3 DEF Accs
  <2>9. Changes(acc, event, next)
    BY <1>1, <1>6, <2>1, <2>2, <2>3, <2>8 DEF Changes
  <2> QED
    BY <2>7, <2>9 DEF next
<1>7. CASE Is(event, "open", "t")
  <2>1. next = [acc EXCEPT !.inText = TRUE]
    BY <1>7 DEF ReadEvent, Is
  <2>2. Added(acc, event) = <<>> /\ ~Is(event, "open", "del") /\ ~Is(event, "close", "del")
        /\ ~Is(event, "open", "p") /\ ~Is(event, "close", "p") /\ ~Is(event, "close", "t")
    BY <1>7 DEF Added, Is
  <2> HIDE DEF next
  <2>7. next \in Accs
    BY <1>1, <1>10, <1>11, <2>1, <2>2, Zenon
  <2>8. /\ next.paragraphs = acc.paragraphs
        /\ next.paragraph = acc.paragraph
        /\ (next.inParagraph <=> acc.inParagraph)
        /\ next.inText
        /\ next.deleted = acc.deleted
    BY <1>1, <2>1, <2>2 DEF Accs
  <2>9. Changes(acc, event, next)
    BY <1>1, <1>2, <1>7, <2>1, <2>2, <2>8 DEF Changes
  <2> QED
    BY <2>7, <2>9 DEF next
<1>8. CASE Is(event, "close", "t")
  <2>1. next = [acc EXCEPT !.inText = FALSE]
    BY <1>8 DEF ReadEvent, Is
  <2>2. Added(acc, event) = <<>> /\ ~Is(event, "open", "del") /\ ~Is(event, "close", "del")
        /\ ~Is(event, "open", "p") /\ ~Is(event, "close", "p") /\ ~Is(event, "open", "t")
    BY <1>8 DEF Added, Is
  <2> HIDE DEF next
  <2>7. next \in Accs
    BY <1>1, <1>10, <1>11, <2>1, <2>2, Zenon
  <2>8. /\ next.paragraphs = acc.paragraphs
        /\ next.paragraph = acc.paragraph
        /\ (next.inParagraph <=> acc.inParagraph)
        /\ ~next.inText
        /\ next.deleted = acc.deleted
    BY <1>1, <2>1, <2>2 DEF Accs
  <2>9. Changes(acc, event, next)
    BY <1>1, <1>2, <1>8, <2>1, <2>2, <2>8 DEF Changes
  <2> QED
    BY <2>7, <2>9 DEF next
<1>9. CASE quiet
  <2>1. Added(acc, event) \in Seq(Int)
    BY <1>1 DEF Added, Space, LineBreak
  <2>2. next = Adding(Added(acc, event))
    <3>1. CASE Added(acc, event) = <<>> /\ next = acc
      BY <1>1, <1>2, <3>1 DEF Accs
    <3>2. CASE next = Adding(Added(acc, event))
      BY <3>2
    <3>3. \/ Added(acc, event) = <<>> /\ next = acc
          \/ next = Adding(Added(acc, event))
      <4>1. CASE ~Counted(acc)
        BY <1>9, <4>1 DEF ReadEvent, Added, Is, Counted
      <4>2. CASE Counted(acc) /\ Is(event, "empty", "tab")
        BY <4>2 DEF ReadEvent, Added, Is, Counted
      <4>3. CASE Counted(acc) /\ Is(event, "empty", "br")
        BY <4>3 DEF ReadEvent, Added, Is, Counted
      <4>4. CASE Counted(acc) /\ event.kind = "chars" /\ acc.inText
        BY <1>9, <4>4 DEF ReadEvent, Added, Is, Counted
      <4>5. CASE /\ Counted(acc) /\ ~Is(event, "empty", "tab") /\ ~Is(event, "empty", "br")
                 /\ ~(event.kind = "chars" /\ acc.inText)
        BY <1>9, <4>5 DEF ReadEvent, Added, Is, Counted
      <4> QED
        BY <4>1, <4>2, <4>3, <4>4, <4>5
    <3> QED
      BY <3>1, <3>2, <3>3
  <2>3. acc.paragraph \o Added(acc, event) \in Seq(Int)
    BY <1>1, <2>1, ConcatProperties
  <2>4. next = [acc EXCEPT !.paragraph = acc.paragraph \o Added(acc, event)]
    BY <2>2
  <2> HIDE DEF next, Adding
  <2>7. next \in Accs
    BY <1>1, <1>10, <1>11, <2>3, <2>4, Zenon
  <2>8. /\ next.paragraphs = acc.paragraphs
        /\ next.paragraph = acc.paragraph \o Added(acc, event)
        /\ (next.inParagraph <=> acc.inParagraph)
        /\ (next.inText <=> acc.inText)
        /\ next.deleted = acc.deleted
    BY <1>1, <2>3, <2>4 DEF Accs
  <2>9. Changes(acc, event, next)
    BY <1>1, <1>9, <2>3, <2>4, <2>8 DEF Changes
  <2> QED
    BY <2>7, <2>9 DEF next
<1> QED
  BY <1>3, <1>4, <1>5, <1>6, <1>7, <1>8, <1>9

Blanked == [paragraphs |-> <<>>, paragraph |-> <<>>, inParagraph |-> FALSE,
            inText |-> FALSE, deleted |-> 0]

(* The state of the reader after each event.                               *)
Follow(upTo, events) ==
  /\ upTo \in [0 .. Len(events) -> Accs] /\ upTo[0] = Blanked
  /\ \A n \in 1 .. Len(events) : Changes(upTo[n - 1], events[n], upTo[n])

LEMMA ReadEventsFollow ==
  ASSUME NEW events \in Seq(Events)
  PROVE  \E upTo : Follow(upTo, events) /\ ReadEvents(events) = upTo[Len(events)]
<1> DEFINE N     == Len(events)
           Upto(f) == f = [n \in 0 .. N |-> IF n = 0 THEN Blanked
                                           ELSE ReadEvent(f[n - 1], events[n])]
           step  == [n \in 1 .. N |-> [acc \in Accs |-> ReadEvent(acc, events[n])]]
           built == CHOOSE f : Upto(f)
<1>1. N \in Nat /\ \A n \in 1 .. N : events[n] \in Events
  BY LenProperties, ElementOfSeq
<1>2. ReadEvents(events) = built[N]
  BY DEF ReadEvents, Blanked
<1>3. Blanked \in Accs
  BY DEF Accs, Blanked
<1>4. \A n \in 1 .. N : \A acc \in Accs : ReadEvent(acc, events[n]) \in Accs
  BY <1>1, ReadEventChanges
<1> HIDE DEF N
<1>5. step \in [1 .. N -> [Accs -> Accs]]
  BY <1>4
<1>6. \A n \in 1 .. N : \A acc \in Accs : step[n][acc] = ReadEvent(acc, events[n])
  OBVIOUS
<1> HIDE DEF step
<1>7. PICK f : Iterates(f, N, Accs, Blanked, step)
  BY <1>1, <1>3, <1>5, Recursion
<1>8. \A n \in 0 .. N : n = 0 \/ (n \in 1 .. N /\ n - 1 \in 0 .. N /\ n # 0)
  BY <1>1
<1>9. Upto(f)
  <2>1. \A n \in 0 .. N : f[n] = IF n = 0 THEN Blanked ELSE ReadEvent(f[n - 1], events[n])
    BY <1>6, <1>7, <1>8 DEF Iterates
  <2>2. f = [n \in 0 .. N |-> f[n]]
    BY <1>7 DEF Iterates
  <2> QED
    BY <2>1, <2>2
<1>10. Upto(built)
  BY <1>9
<1> HIDE DEF built
<1>11. \A n \in 0 .. N : built[n] = IF n = 0 THEN Blanked ELSE ReadEvent(built[n - 1], events[n])
  BY <1>10
<1>12. built[0] = Blanked /\ \A n \in 1 .. N : built[n] = ReadEvent(built[n - 1], events[n])
  <2>1. 0 \in 0 .. N /\ \A n \in 1 .. N : n \in 0 .. N /\ n # 0
    BY <1>1
  <2> QED
    BY <1>11, <2>1
<1>13. \A n \in 0 .. N : built[n] \in Accs
  <2> DEFINE T == {n \in 0 .. N : built[n] \in Accs}
  <2>1. 0 \in T
    BY <1>1, <1>3, <1>12
  <2>2. ASSUME NEW n \in 1 .. N, n - 1 \in T PROVE n \in T
    BY <1>1, <1>4, <1>12, <2>2
  <2> HIDE DEF T
  <2>3. \A n \in 0 .. N : n \in T
    BY <1>1, <2>1, <2>2, UpTo, Zenon
  <2> QED
    BY <2>3 DEF T
<1>14. built \in [0 .. N -> Accs]
  <2>1. DOMAIN built = 0 .. N
    BY <1>10
  <2>2. built = [n \in 0 .. N |-> built[n]]
    BY <1>10, <2>1
  <2> QED
    BY <1>13, <2>2
<1>15. \A n \in 1 .. N : Changes(built[n - 1], events[n], built[n])
  <2> TAKE n \in 1 .. N
  <2>1. n - 1 \in 0 .. N
    BY <1>1
  <2> QED
    BY <1>1, <1>12, <1>13, <2>1, ReadEventChanges
<1> QED
  BY <1>2, <1>12, <1>14, <1>15 DEF Follow, N

DocxGives(file, d) ==
  \E lines \in Seq(SourceLines) :
    /\ d = BuildDocument(lines) /\ (BlankLineInside(file) \/ WholeParagraphs(lines))
    /\ FlattenSeq(ReadingsFrom(lines, 1, Len(lines)))
         = FlattenSeq(Readings(ReadEvents(file.events).paragraphs))

LEMMA ReadDocxGives ==
  ASSUME NEW file, file.format = "docx", file.events \in Seq(Events), ReadDocx(file) # None
  PROVE  DocxGives(file, ReadDocx(file))
<1> DEFINE all    == ReadEvents(file.events).paragraphs
           pieces == WithoutTrailingBlank(all)
           lines  == [k \in DOMAIN pieces |-> SourceLine(pieces[k], 0, 0, k < Len(pieces))]
<1>1. ReadDocx(file) = BuildDocument(lines)
  BY DEF ReadDocx
<1>2. all \in Seq(Seq(Int))
  <2>1. PICK upTo : Follow(upTo, file.events) /\ ReadEvents(file.events) = upTo[Len(file.events)]
    BY ReadEventsFollow
  <2>2. Len(file.events) \in Nat
    BY LenProperties
  <2>3. ReadEvents(file.events) \in Accs
    BY <2>1, <2>2 DEF Follow
  <2> QED
    BY <2>3 DEF Accs
<1>3. BlankLineInside(file) \/ ~\E p \in ToSet(all) : \E j, k \in DOMAIN p :
         j < k /\ p[j] = LineBreak /\ p[k] = LineBreak /\ Blank(Sub(p, j, k))
  BY DEF BlankLineInside
<1> HIDE DEF all
<1>4. \A n \in 1 .. Len(all) : all[n] \in ToSet(all) /\ all[n] \in Seq(Int)
  <2>1. DOMAIN all = 1 .. Len(all)
    BY <1>2, LenProperties
  <2> QED
    BY <1>2, <2>1, ElementOfSeq DEF ToSet
<1>5. PICK m \in 0 .. Len(all) : /\ pieces = SubSeq(all, 1, m)
                                 /\ \A k \in m + 1 .. Len(all) : Blank(all[k])
  BY <1>2, WithoutTrailingBlankIs
<1> HIDE DEF pieces
<1>6. /\ pieces \in Seq(Seq(Int)) /\ Len(pieces) = m /\ DOMAIN pieces = 1 .. m
      /\ \A n \in 1 .. m : pieces[n] = all[n]
  BY <1>2, <1>5, FrontIs, LenProperties
<1>7. /\ Len(all) \in Nat /\ m \in Nat /\ m <= Len(all)
      /\ \A n \in 1 .. m : n \in 1 .. Len(all)
  BY <1>2, LenProperties
<1>8. FlattenSeq(Readings(pieces)) = FlattenSeq(Readings(all))
  BY <1>2, <1>5, FrontReads
<1>9. \A k \in 1 .. m : /\ lines[k] \in SourceLines
                        /\ lines[k].content = pieces[k]
                        /\ lines[k].breakAfter <=> k < m
  <2> TAKE k \in 1 .. m
  <2>1. lines[k] = SourceLine(pieces[k], 0, 0, k < m)
    BY <1>6
  <2>2. pieces[k] \in Seq(Int) /\ (k < m) \in BOOLEAN
    BY <1>4, <1>6, <1>7
  <2> HIDE DEF lines
  <2>3. \A b \in BOOLEAN : \A c \in Seq(Int) :
           /\ SourceLine(c, 0, 0, b) \in SourceLines
           /\ SourceLine(c, 0, 0, b).content = c /\ (SourceLine(c, 0, 0, b).breakAfter <=> b)
    BY DEF SourceLine, SourceLines
  <2> DEFINE last == (k < m)
             x    == SourceLine(pieces[k], 0, 0, last)
  <2>4. x \in SourceLines /\ x.content = pieces[k] /\ (x.breakAfter <=> last)
    <3> HIDE DEF last
    <3> QED
      BY <2>2, <2>3 DEF last
  <2>5. lines[k] = x
    BY <2>1
  <2> HIDE DEF x
  <2> QED
    BY <2>4, <2>5
<1>10. lines = [k \in 1 .. m |-> lines[k]]
  BY <1>6
<1> HIDE DEF lines
<1>11. /\ lines \in Seq(SourceLines) /\ Len(lines) = m
       /\ ReadingsFrom(lines, 1, Len(lines)) = Readings(pieces)
  <2>1. Listed(lines, pieces)
    BY <1>6, <1>9, <1>10 DEF Listed
  <2> QED
    BY <1>6, <2>1, ListedLines
<1>12. BlankLineInside(file) \/ WholeParagraphs(lines)
  <2>1. ASSUME ~BlankLineInside(file), NEW n \in 1 .. m
        PROVE  /\ n < m => lines[n].breakAfter
               /\ ~\E j, k \in DOMAIN lines[n].content :
                    /\ j < k /\ lines[n].content[j] = LineBreak /\ lines[n].content[k] = LineBreak
                    /\ Blank(Sub(lines[n].content, j, k))
    <3>1. lines[n].content = all[n] /\ all[n] \in ToSet(all)
      BY <1>4, <1>6, <1>7, <1>9
    <3>2. n < m => lines[n].breakAfter
      BY <1>9
    <3>3. ~\E j, k \in DOMAIN all[n] :
             j < k /\ all[n][j] = LineBreak /\ all[n][k] = LineBreak /\ Blank(Sub(all[n], j, k))
      BY <1>3, <2>1, <3>1
    <3> QED
      BY <3>1, <3>2, <3>3, Zenon
  <2>2. Len(lines) = m
    BY <1>11
  <2> QED
    BY <2>1, <2>2, Zenon DEF WholeParagraphs
<1> QED
  BY <1>1, <1>8, <1>11, <1>12 DEF DocxGives, all

(* PDF: the lines of a page.                                               *)
PdfPages == [content : Seq(Int), hidden : Seq(Int), images : BOOLEAN, drawing : Seq(STRING)]

Unbroken == {x \in SourceLines : \A k \in 1 .. Len(x.content) : x.content[k] # LineBreak}

ReadOf == [x \in SourceLines |-> Readables(x.content)]
RowOf  == [x \in SourceLines |-> [page |-> x.page, line |-> x.line,
                                  content |-> Readables(x.content)]]

PageRows(page, n) ==
  [k \in DOMAIN Lines(page.content) |->
     [page |-> n, line |-> k, content |-> Readables(Lines(page.content)[k])]]

LEMMA ReadAndRow ==
  /\ Maps(ReadOf, Unbroken, Seq(Int)) /\ Maps(RowOf, Unbroken, Rows)
  /\ \A x \in Unbroken : /\ ReadOf[x] = Readables(x.content) /\ x \in SourceLines
                         /\ RowOf[x] = [page |-> x.page, line |-> x.line,
                                        content |-> Readables(x.content)]
<1>1. \A x \in Unbroken : /\ ReadOf[x] = Readables(x.content) /\ x \in SourceLines
                          /\ RowOf[x] = [page |-> x.page, line |-> x.line,
                                         content |-> Readables(x.content)]
  BY DEF ReadOf, RowOf, Unbroken
<1>2. \A x \in SourceLines : x.content \in Seq(Int) /\ x.page \in Nat /\ x.line \in Nat
  BY DEF SourceLines
<1>3. \A x \in SourceLines : Readables(x.content) \in Seq(Int)
  BY <1>2, ReadablesAre
<1>4. \A x \in Unbroken : ReadOf[x] \in Seq(Int)
  BY <1>1, <1>3
<1>5. \A x \in Unbroken : RowOf[x] \in Rows
  <2>1. \A p, l \in Nat : \A c \in Seq(Int) : [page |-> p, line |-> l, content |-> c] \in Rows
    BY DEF Rows
  <2> TAKE x \in Unbroken
  <2>2. x.page \in Nat /\ x.line \in Nat /\ Readables(x.content) \in Seq(Int)
    BY <1>1, <1>2, <1>3
  <2>3. RowOf[x] = [page |-> x.page, line |-> x.line, content |-> Readables(x.content)]
    BY <1>1
  <2> QED
    BY <2>1, <2>2, <2>3, Zenon
<1> QED
  BY <1>1, <1>4, <1>5 DEF Maps

LEMMA PageLinesAre ==
  ASSUME NEW page \in PdfPages, NEW n \in Nat
  PROVE  /\ PageLines(page, n) \in Seq(Unbroken)
         /\ FlattenSeq(Each(ReadOf, PageLines(page, n))) = Readables(page.content)
         /\ Each(RowOf, PageLines(page, n)) = PageRows(page, n)
<1> DEFINE all   == Lines(page.content)
           line(k) == SourceLine(TrimEnd(all[k]), n, k, Blank(all[k]))
           lines == PageLines(page, n)
           N     == Len(all)
<1>1. page.content \in Seq(Int)
  BY DEF PdfPages
<1>2. /\ all \in Seq(Seq(Int))
      /\ \A i \in 1 .. Len(all) : \A k \in 1 .. Len(all[i]) : all[i][k] # LineBreak
      /\ FlattenSeq(Readings(all)) = Readables(page.content)
  BY <1>1, LinesAre
<1>3. lines = [k \in DOMAIN all |-> line(k)] /\ PageRows(page, n)
        = [k \in DOMAIN all |-> [page |-> n, line |-> k, content |-> Readables(all[k])]]
  BY DEF PageLines, PageRows
<1> HIDE DEF all, lines
<1>4. /\ N \in Nat /\ DOMAIN all = 1 .. N
      /\ \A k \in 1 .. N : all[k] \in Seq(Int)
  BY <1>2, LenProperties, ElementOfSeq
<1>5. \A k \in 1 .. N :
        /\ TrimEnd(all[k]) \in Seq(Int) /\ Readables(TrimEnd(all[k])) = Readables(all[k])
        /\ \A i \in 1 .. Len(TrimEnd(all[k])) :
             i \in 1 .. Len(all[k]) /\ TrimEnd(all[k])[i] = all[k][i]
  BY <1>4, TrimEndReads
<1>6. \A k \in 1 .. N : Blank(all[k]) \in BOOLEAN
  BY DEF Blank
<1>7. ASSUME NEW k \in 1 .. N
      PROVE  /\ line(k) \in Unbroken
             /\ line(k).page = n /\ line(k).line = k /\ line(k).content = TrimEnd(all[k])
  <2> DEFINE content == TrimEnd(all[k])
             blank   == Blank(all[k])
  <2>1. content \in Seq(Int) /\ blank \in BOOLEAN /\ k \in Nat
    BY <1>4, <1>5, <1>6
  <2>2. \A i \in 1 .. Len(content) : content[i] # LineBreak
    BY <1>2, <1>5
  <2>3. line(k) = SourceLine(content, n, k, blank)
    OBVIOUS
  <2> HIDE DEF content, blank, line
  <2>4. /\ SourceLine(content, n, k, blank) \in SourceLines
        /\ SourceLine(content, n, k, blank).content = content
        /\ SourceLine(content, n, k, blank).page = n
        /\ SourceLine(content, n, k, blank).line = k
    BY <2>1 DEF SourceLine, SourceLines
  <2> QED
    BY <2>2, <2>3, <2>4 DEF Unbroken, content
<1> HIDE DEF line
<1>8. /\ lines \in Seq(Unbroken) /\ Len(lines) = N
      /\ \A k \in 1 .. N : lines[k] = line(k)
  <2>1. lines = [k \in 1 .. N |-> line(k)]
    BY <1>3, <1>4
  <2>2. \A k \in 1 .. N : line(k) \in Unbroken
    BY <1>7
  <2>3. [k \in 1 .. N |-> line(k)] \in Seq(Unbroken)
    BY <1>4, <2>2, IsASeq
  <2> QED
    BY <1>4, <2>1, <2>3
<1>9. Each(ReadOf, lines) = Readings(all)
  <2>1. \A k \in 1 .. N : ReadOf[lines[k]] = Readables(all[k])
    <3> TAKE k \in 1 .. N
    <3>1. ReadOf[line(k)] = Readables(line(k).content)
      BY <1>7, ReadAndRow
    <3> QED
      BY <1>5, <1>7, <1>8, <3>1
  <2> QED
    BY <1>8, <2>1 DEF Each, Readings
<1>10. Each(RowOf, lines) = PageRows(page, n)
  <2>1. \A k \in 1 .. N : RowOf[lines[k]]
                            = [page |-> n, line |-> k, content |-> Readables(all[k])]
    <3> TAKE k \in 1 .. N
    <3>1. RowOf[line(k)] = [page |-> line(k).page, line |-> line(k).line,
                            content |-> Readables(line(k).content)]
      BY <1>7, ReadAndRow
    <3>2. /\ line(k).page = n /\ line(k).line = k /\ lines[k] = line(k)
          /\ Readables(line(k).content) = Readables(all[k])
      BY <1>5, <1>7, <1>8
    <3> QED
      BY <3>1, <3>2
  <2> QED
    BY <1>3, <1>4, <1>8, <2>1 DEF Each
<1> QED
  BY <1>2, <1>8, <1>9, <1>10 DEF lines

PdfGives(file, d) ==
  \E lines \in Seq(SourceLines) :
    /\ d = BuildDocument(lines) /\ BreaksBetween(lines) /\ Mirrors(FileLines(file), lines)
    /\ FlattenSeq(ReadingsFrom(lines, 1, Len(lines)))
         = FlattenSeq([n \in 1 .. Len(file.pages) |-> Readables(file.pages[n].content)])

(* The lines of all pages.                                                 *)
AllLines(pages) == FlattenSeq([n \in DOMAIN pages |-> PageLines(pages[n], n)])

LEMMA AllLinesAre ==
  ASSUME NEW pages \in Seq(PdfPages)
  PROVE  /\ AllLines(pages) \in Seq(Unbroken)
         /\ FlattenSeq(Each(ReadOf, AllLines(pages)))
              = FlattenSeq([n \in 1 .. Len(pages) |-> Readables(pages[n].content)])
         /\ Each(RowOf, AllLines(pages))
              = FlattenSeq([n \in 1 .. Len(pages) |-> PageRows(pages[n], n)])
<1> DEFINE N     == Len(pages)
           page(n) == PageLines(pages[n], n)
           parts == [n \in 1 .. N |-> page(n)]
           reads == [n \in 1 .. N |-> Each(ReadOf, parts[n])]
           rows  == [n \in 1 .. N |-> Each(RowOf, parts[n])]
           all   == AllLines(pages)
<1>1. N \in Nat /\ DOMAIN pages = 1 .. N /\ \A n \in 1 .. N : pages[n] \in PdfPages /\ n \in Nat
  BY LenProperties, ElementOfSeq
<1>2. \A n \in 1 .. N : /\ page(n) \in Seq(Unbroken)
                        /\ FlattenSeq(Each(ReadOf, page(n))) = Readables(pages[n].content)
                        /\ Each(RowOf, page(n)) = PageRows(pages[n], n)
  BY <1>1, PageLinesAre
<1>3. all = FlattenSeq(parts)
  BY <1>1 DEF AllLines
<1> HIDE DEF page, N, all
<1>4. parts \in Seq(Seq(Unbroken)) /\ Len(parts) = N /\ \A n \in 1 .. N : parts[n] = page(n)
  BY <1>1, <1>2, IsASeq
<1> HIDE DEF parts
<1>5. Maps(ReadOf, Unbroken, Seq(Int)) /\ Maps(RowOf, Unbroken, Rows)
  BY ReadAndRow
<1>6. /\ reads \in Seq(Seq(Seq(Int))) /\ FlattenSeq(parts) \in Seq(Unbroken)
      /\ FlattenSeq(reads) = Each(ReadOf, FlattenSeq(parts))
  <2>1. /\ EachPart(ReadOf, parts) \in Seq(Seq(Seq(Int)))
        /\ FlattenSeq(parts) \in Seq(Unbroken)
        /\ FlattenSeq(EachPart(ReadOf, parts)) = Each(ReadOf, FlattenSeq(parts))
    <3>1. Maps(ReadOf, Unbroken, Seq(Int))
      BY <1>5
    <3>2. \A p \in Seq(Seq(Unbroken)) :
             /\ EachPart(ReadOf, p) \in Seq(Seq(Seq(Int))) /\ FlattenSeq(p) \in Seq(Unbroken)
             /\ FlattenSeq(EachPart(ReadOf, p)) = Each(ReadOf, FlattenSeq(p))
      BY <3>1, FlattenEach
    <3> QED
      BY <1>4, <3>2, Zenon
  <2>2. EachPart(ReadOf, parts) = reads
    BY <1>4 DEF EachPart
  <2> QED
    BY <2>1, <2>2
<1>7. FlattenSeq(rows) = Each(RowOf, FlattenSeq(parts))
  <2>1. FlattenSeq(EachPart(RowOf, parts)) = Each(RowOf, FlattenSeq(parts))
    <3>1. Maps(RowOf, Unbroken, Rows)
      BY <1>5
    <3>2. \A p \in Seq(Seq(Unbroken)) :
             FlattenSeq(EachPart(RowOf, p)) = Each(RowOf, FlattenSeq(p))
      BY <3>1, FlattenEach
    <3> QED
      BY <1>4, <3>2, Zenon
  <2>2. EachPart(RowOf, parts) = rows
    BY <1>4 DEF EachPart
  <2> QED
    BY <2>1, <2>2
<1>8. Len(reads) = N /\ \A n \in 1 .. N : reads[n] = Each(ReadOf, page(n))
  BY <1>1, <1>4
<1>9. rows = [n \in 1 .. N |-> PageRows(pages[n], n)]
  BY <1>2, <1>4
<1> HIDE DEF reads, rows
<1>10. FlattenSeq(FlattenSeq(reads)) = FlattenSeq([n \in 1 .. N |-> FlattenSeq(reads[n])])
  <2>1. FlattenSeq(FlattenSeq(reads)) = FlattenSeq([n \in 1 .. Len(reads) |-> FlattenSeq(reads[n])])
    BY <1>6, FlattenTwice
  <2> QED
    BY <1>8, <2>1
<1>11. \A n \in 1 .. N : FlattenSeq(reads[n]) = Readables(pages[n].content)
  BY <1>2, <1>8
<1>12. [n \in 1 .. N |-> FlattenSeq(reads[n])] = [n \in 1 .. N |-> Readables(pages[n].content)]
  BY <1>11
<1> QED
  BY <1>3, <1>6, <1>7, <1>9, <1>10, <1>12 DEF N, all

LEMMA ReadPdfGives ==
  ASSUME NEW file, file.format = "pdf", file.pages \in Seq(PdfPages), ReadPdf(file) # None
  PROVE  PdfGives(file, ReadPdf(file))
<1> DEFINE all   == AllLines(file.pages)
           T     == {0} \cup {k \in DOMAIN all : ~Blank(all[k].content)}
           last  == Max(T)
           lines == SubSeq(all, 1, last)
           reads == Each(ReadOf, all)
           rows  == Each(RowOf, all)
           cut   == SubSeq(reads, 1, last)
           from  == ReadingsFrom(lines, 1, last)
<1>1. ReadPdf(file) = BuildDocument(lines)
  BY DEF ReadPdf, AllLines
<1>2. FileLines(file) = rows
  <2>1. Each(RowOf, all) = FlattenSeq([n \in 1 .. Len(file.pages) |-> PageRows(file.pages[n], n)])
    BY AllLinesAre
  <2>2. DOMAIN file.pages = 1 .. Len(file.pages)
    BY LenProperties
  <2>3. FileLines(file) = FlattenSeq([n \in DOMAIN file.pages |-> PageRows(file.pages[n], n)])
    BY DEF FileLines, PageRows
  <2> QED
    BY <2>1, <2>2, <2>3
<1>3. /\ all \in Seq(Unbroken)
      /\ FlattenSeq(reads)
           = FlattenSeq([n \in 1 .. Len(file.pages) |-> Readables(file.pages[n].content)])
  BY AllLinesAre
<1> HIDE DEF all
<1>4. /\ Len(all) \in Nat /\ DOMAIN all = 1 .. Len(all)
      /\ \A k \in 1 .. Len(all) : all[k] \in Unbroken
  BY <1>3, LenProperties, ElementOfSeq
<1>5. /\ T \in SUBSET Nat /\ 0 \in T /\ \A k \in T : k <= Len(all)
      /\ \A k \in 1 .. Len(all) : ~Blank(all[k].content) => k \in T
  BY <1>4
<1> HIDE DEF T
<1>6. last \in T /\ \A k \in T : k <= last
  BY <1>4, <1>5, MaxIsGreatest
<1> HIDE DEF last
<1>7. last \in 0 .. Len(all) /\ last \in Nat /\ last <= Len(all)
  BY <1>4, <1>5, <1>6
<1>8. \A k \in last + 1 .. Len(all) : Blank(all[k].content)
  <2>1. ASSUME NEW k \in last + 1 .. Len(all), ~Blank(all[k].content) PROVE FALSE
    <3>1. k \in 1 .. Len(all) /\ last < k
      BY <1>4, <1>7
    <3>2. k <= last
      BY <1>5, <1>6, <2>1, <3>1
    <3> QED
      BY <1>7, <3>1, <3>2
  <2> QED
    BY <2>1
<1>9. lines \in Seq(Unbroken) /\ Len(lines) = last /\ \A k \in 1 .. last : lines[k] = all[k]
  BY <1>3, <1>7, FrontIs
<1>10. Maps(ReadOf, Unbroken, Seq(Int)) /\ Maps(RowOf, Unbroken, Rows)
  BY ReadAndRow
<1>11. /\ reads \in Seq(Seq(Int)) /\ Len(reads) = Len(all)
       /\ \A k \in 1 .. Len(all) : reads[k] = ReadOf[all[k]]
  BY <1>3, <1>10, EachAre
<1>12. /\ rows \in Seq(Rows) /\ Len(rows) = Len(all)
       /\ \A k \in 1 .. Len(all) : rows[k] = RowOf[all[k]]
  BY <1>3, <1>10, EachAre
<1> HIDE DEF lines, reads, rows
<1>13. \A k \in 1 .. Len(all) :
         /\ all[k] \in SourceLines /\ all[k].content \in Seq(Int)
         /\ reads[k] = Readables(all[k].content)
         /\ rows[k] = [page |-> all[k].page, line |-> all[k].line,
                       content |-> Readables(all[k].content)]
  <2>1. \A x \in SourceLines : x.content \in Seq(Int)
    BY DEF SourceLines
  <2> QED
    BY <1>4, <1>11, <1>12, <2>1, ReadAndRow
<1>14. \A k \in 1 .. last : k \in 1 .. Len(all)
  BY <1>7
<1>15. lines \in Seq(SourceLines)
  <2>1. Unbroken \subseteq SourceLines
    BY DEF Unbroken
  <2> QED
    BY <1>9, <2>1, SeqMonotonic
<1>16. BreaksBetween(lines)
  <2>1. ASSUME NEW n \in 1 .. last, NEW k \in 1 .. Len(lines[n].content)
        PROVE  lines[n].content[k] # LineBreak
    <3>1. lines[n] \in Unbroken
      BY <1>4, <1>9, <1>14
    <3> QED
      BY <3>1 DEF Unbroken
  <2> QED
    BY <1>9, <2>1 DEF BreaksBetween
<1>17. Mirrors(rows, lines)
  <2>1. ASSUME NEW k \in 1 .. last
        PROVE  /\ rows[k].page = lines[k].page /\ rows[k].line = lines[k].line
               /\ rows[k].content = Readables(lines[k].content)
    <3>1. lines[k] = all[k] /\ k \in 1 .. Len(all)
      BY <1>9, <1>14
    <3>2. rows[k] = [page |-> all[k].page, line |-> all[k].line,
                     content |-> Readables(all[k].content)]
      BY <1>13, <3>1
    <3> QED
      BY <3>1, <3>2
  <2>2. Len(lines) = last /\ Len(lines) <= Len(rows)
    BY <1>7, <1>9, <1>12
  <2> QED
    BY <1>12, <2>1, <2>2 DEF Mirrors
<1>18. FlattenSeq(cut) = FlattenSeq(reads)
  <2>1. last \in 0 .. Len(reads)
    BY <1>7, <1>11
  <2>2. \A k \in last + 1 .. Len(reads) : reads[k] = <<>>
    <3> TAKE k \in last + 1 .. Len(reads)
    <3>1. k \in last + 1 .. Len(all) /\ k \in 1 .. Len(all)
      BY <1>7, <1>11
    <3>2. Blank(all[k].content) /\ all[k].content \in Seq(Int)
      BY <1>8, <1>13, <3>1
    <3>3. Readables(all[k].content) = <<>>
      BY <3>2, BlankReads
    <3> QED
      BY <1>13, <3>1, <3>3
  <2> QED
    BY <1>11, <2>1, <2>2, FlattenFront
<1>19. from = cut
  <2>1. cut \in Seq(Seq(Int)) /\ Len(cut) = last /\ \A k \in 1 .. last : cut[k] = reads[k]
    <3>1. last \in 0 .. Len(reads)
      BY <1>7, <1>11
    <3> QED
      BY <1>11, <3>1, FrontIs
  <2> HIDE DEF cut
  <2>2. last - 1 + 1 = last /\ \A k \in 1 .. last : 1 + k - 1 = k
    BY <1>7
  <2>3. from = [k \in 1 .. last |-> Readables(lines[k].content)]
    BY <2>2 DEF ReadingsFrom
  <2>4. \A k \in 1 .. last : Readables(lines[k].content) = cut[k]
    BY <1>9, <1>13, <1>14, <2>1
  <2>5. cut = [k \in 1 .. last |-> cut[k]]
    BY <2>1
  <2> QED
    BY <2>3, <2>4, <2>5
<1> HIDE DEF cut, from
<1>20. FlattenSeq(ReadingsFrom(lines, 1, Len(lines)))
         = FlattenSeq([n \in 1 .. Len(file.pages) |-> Readables(file.pages[n].content)])
  BY <1>3, <1>9, <1>18, <1>19 DEF from
<1> QED
  BY <1>1, <1>2, <1>15, <1>16, <1>17, <1>20 DEF PdfGives

-----------------------------------------------------------------------------
(* What extract makes of a file                                            *)

TxtFile(file) == file.format = "txt" /\ file.content \in Seq(Int)

DocxFile(file) ==
  /\ file.format = "docx" /\ file.events \in Seq(Events)
  /\ file.intact => WellFormed(file.events)

PdfFile(file) ==
  /\ file.format = "pdf" /\ file.pages \in Seq(PdfPages)
  /\ \A n \in DOMAIN file.pages : Painted(file.pages[n])

Typed(file) == TxtFile(file) \/ DocxFile(file) \/ PdfFile(file)

LEMMA ExtractReads ==
  ASSUME NEW file, Typed(file), Extract(file) # None
  PROVE  \/ TxtFile(file) /\ Extract(file) = ReadTxt(file) /\ ReadTxt(file) # None
         \/ DocxFile(file) /\ Extract(file) = ReadDocx(file) /\ ReadDocx(file) # None
         \/ PdfFile(file) /\ Extract(file) = ReadPdf(file) /\ ReadPdf(file) # None
<1> DEFINE d == CASE file.format = "txt"  -> ReadTxt(file)
                  [] file.format = "docx" -> ReadDocx(file)
                  [] file.format = "pdf"  -> ReadPdf(file)
<1>1. Extract(file) = IF d = None THEN None
                      ELSE IF Len(d.text) > MaxText \/ Blank(d.text) THEN None ELSE d
  BY DEF Extract
<1> HIDE DEF d
<1>2. d # None /\ Extract(file) = d
  BY <1>1
<1>3. CASE TxtFile(file)
  <2>1. d = ReadTxt(file)
    BY <1>3 DEF d, TxtFile
  <2> QED
    BY <1>2, <1>3, <2>1
<1>4. CASE DocxFile(file)
  <2>1. d = ReadDocx(file)
    BY <1>4 DEF d, DocxFile
  <2> QED
    BY <1>2, <1>4, <2>1
<1>5. CASE PdfFile(file)
  <2>1. d = ReadPdf(file)
    BY <1>5 DEF d, PdfFile
  <2> QED
    BY <1>2, <1>5, <2>1
<1> QED
  BY <1>3, <1>4, <1>5 DEF Typed

(* The map of the document leads to the lines of the file.                 *)
Leading(file, d, lines, at, par) ==
  /\ lines \in Seq(SourceLines) /\ Laid(d, lines, at, par)
  /\ BlankLineInside(file) \/ BreaksBetween(lines) \/ WholeParagraphs(lines)
  /\ file.format # "docx" => Mirrors(FileLines(file), lines)

LEMMA ExtractLeads ==
  ASSUME NEW file, Typed(file), Extract(file) # None
  PROVE  \E lines, at, par : Leading(file, Extract(file), lines, at, par)
<1> DEFINE d == Extract(file)
<1>1. \E lines \in Seq(SourceLines) :
        /\ d = BuildDocument(lines)
        /\ BlankLineInside(file) \/ BreaksBetween(lines) \/ WholeParagraphs(lines)
        /\ file.format # "docx" => Mirrors(FileLines(file), lines)
  <2>1. CASE TxtFile(file) /\ d = ReadTxt(file) /\ ReadTxt(file) # None
    <3>1. TxtGives(file, d)
      BY <2>1, ReadTxtGives DEF TxtFile
    <3> HIDE DEF d
    <3>2. PICK lines \in Seq(SourceLines) :
            /\ d = BuildDocument(lines) /\ BreaksBetween(lines) /\ Mirrors(FileLines(file), lines)
      BY <3>1 DEF TxtGives
    <3> QED
      BY <3>2, Zenon
  <2>2. CASE DocxFile(file) /\ d = ReadDocx(file) /\ ReadDocx(file) # None
    <3>1. DocxGives(file, d) /\ file.format = "docx"
      BY <2>2, ReadDocxGives DEF DocxFile
    <3> HIDE DEF d
    <3>2. PICK lines \in Seq(SourceLines) :
            d = BuildDocument(lines) /\ (BlankLineInside(file) \/ WholeParagraphs(lines))
      BY <3>1 DEF DocxGives
    <3> QED
      BY <3>1, <3>2, Zenon
  <2>3. CASE PdfFile(file) /\ d = ReadPdf(file) /\ ReadPdf(file) # None
    <3>1. PdfGives(file, d)
      BY <2>3, ReadPdfGives DEF PdfFile
    <3> HIDE DEF d
    <3>2. PICK lines \in Seq(SourceLines) :
            /\ d = BuildDocument(lines) /\ BreaksBetween(lines) /\ Mirrors(FileLines(file), lines)
      BY <3>1 DEF PdfGives
    <3> QED
      BY <3>2, Zenon
  <2> HIDE DEF d
  <2> QED
    BY <2>1, <2>2, <2>3, ExtractReads DEF d
<1> HIDE DEF d
<1>2. PICK lines \in Seq(SourceLines) :
        /\ d = BuildDocument(lines)
        /\ BlankLineInside(file) \/ BreaksBetween(lines) \/ WholeParagraphs(lines)
        /\ file.format # "docx" => Mirrors(FileLines(file), lines)
  BY <1>1
<1>3. PICK at, par : Laid(BuildDocument(lines), lines, at, par)
  BY BuildDocumentLays
<1>4. Leading(file, d, lines, at, par)
  BY <1>2, <1>3 DEF Leading
<1> QED
  BY <1>4, Zenon DEF d

(* What is read of the text.                                               *)
LEMMA GivenLinesRead ==
  ASSUME NEW lines \in Seq(SourceLines)
  PROVE  Readables(BuildDocument(lines).text) = FlattenSeq(ReadingsFrom(lines, 1, Len(lines)))
<1>1. PICK at, par : Laid(BuildDocument(lines), lines, at, par)
  BY BuildDocumentLays
<1> QED
  BY <1>1, LaidReads

LEMMA TxtReads ==
  ASSUME NEW file, TxtFile(file), ReadTxt(file) # None
  PROVE  Readables(ReadTxt(file).text) = Readables(file.content)
<1>1. TxtGives(file, ReadTxt(file))
  BY ReadTxtGives DEF TxtFile
<1>2. PICK lines \in Seq(SourceLines) :
        ReadTxt(file) = BuildDocument(lines) /\ ReadsAll(lines, file.content)
  BY <1>1 DEF TxtGives
<1> QED
  BY <1>2, GivenLinesRead DEF ReadsAll

LEMMA DocxReads ==
  ASSUME NEW file, DocxFile(file), ReadDocx(file) # None
  PROVE  Readables(ReadDocx(file).text)
           = FlattenSeq(Readings(ReadEvents(file.events).paragraphs))
<1>1. DocxGives(file, ReadDocx(file))
  BY ReadDocxGives DEF DocxFile
<1>2. PICK lines \in Seq(SourceLines) :
        /\ ReadDocx(file) = BuildDocument(lines)
        /\ FlattenSeq(ReadingsFrom(lines, 1, Len(lines)))
             = FlattenSeq(Readings(ReadEvents(file.events).paragraphs))
  BY <1>1 DEF DocxGives
<1> QED
  BY <1>2, GivenLinesRead

LEMMA PdfReads ==
  ASSUME NEW file, PdfFile(file), ReadPdf(file) # None
  PROVE  Readables(ReadPdf(file).text)
           = FlattenSeq([n \in 1 .. Len(file.pages) |-> Readables(file.pages[n].content)])
<1>1. PdfGives(file, ReadPdf(file))
  BY ReadPdfGives DEF PdfFile
<1>2. PICK lines \in Seq(SourceLines) :
        /\ ReadPdf(file) = BuildDocument(lines)
        /\ FlattenSeq(ReadingsFrom(lines, 1, Len(lines)))
             = FlattenSeq([n \in 1 .. Len(file.pages) |-> Readables(file.pages[n].content)])
  BY <1>1 DEF PdfGives
<1> QED
  BY <1>2, GivenLinesRead

-----------------------------------------------------------------------------
(* What is read of a DOCX                                                  *)

CountTo(S, n) == Cardinality({k \in 1 .. n : k \in S})

LEMMA CountGrows ==
  ASSUME NEW S, NEW n \in Nat, n # 0
  PROVE  /\ CountTo(S, n) \in Nat /\ CountTo(S, n - 1) \in Nat
         /\ CountTo(S, n) = CountTo(S, n - 1) + (IF n \in S THEN 1 ELSE 0)
<1> DEFINE P == {k \in 1 .. n - 1 : k \in S}
           Q == {k \in 1 .. n : k \in S}
<1>1. P \subseteq 1 .. n - 1 /\ Q \subseteq 1 .. n /\ n \notin P
  BY SMT
<1>2. IsFiniteSet(P) /\ IsFiniteSet(Q)
  <2>1. 1 \in Int /\ n \in Int /\ n - 1 \in Int
    OBVIOUS
  <2>2. IsFiniteSet(1 .. n - 1) /\ IsFiniteSet(1 .. n)
    BY <2>1, FS_Interval
  <2> HIDE DEF P, Q
  <2> QED
    BY <1>1, <2>2, FS_Subset
<1>3. Q = IF n \in S THEN P \cup {n} ELSE P
  <2>1. \A k : k \in 1 .. n <=> (k \in 1 .. n - 1 \/ k = n)
    OBVIOUS
  <2> QED
    BY <2>1, Zenon
<1> HIDE DEF P, Q
<1>4. Cardinality(P \cup {n}) = Cardinality(P) + 1 /\ Cardinality(P) \in Nat /\ Cardinality(Q) \in Nat
  BY <1>1, <1>2, FS_AddElement, FS_CardinalityType
<1> QED
  BY <1>3, <1>4 DEF P, Q, CountTo

LEMMA DepthGrows ==
  ASSUME NEW events \in Seq(Events), NEW tag, NEW n \in 1 .. Len(events)
  PROVE  /\ Depth(events, tag, n - 1) \in Int /\ Depth(events, tag, n) \in Int
         /\ Is(events[n], "open", tag) => Depth(events, tag, n) = Depth(events, tag, n - 1) + 1
         /\ Is(events[n], "close", tag) => Depth(events, tag, n) = Depth(events, tag, n - 1) - 1
         /\ ~Is(events[n], "open", tag) /\ ~Is(events[n], "close", tag)
              => Depth(events, tag, n) = Depth(events, tag, n - 1)
<1> DEFINE At(kind) == {k \in 1 .. n : events[k].kind = kind /\ events[k].tag = tag}
           C(kind, i) == Cardinality({k \in 1 .. i : events[k].kind = kind /\ events[k].tag = tag})
           add(kind) == IF n \in At(kind) THEN 1 ELSE 0
<1>1. n \in Nat /\ n # 0
  BY LenProperties
<1>2. ASSUME NEW kind
      PROVE  /\ C(kind, n) \in Nat /\ C(kind, n - 1) \in Nat
             /\ C(kind, n) = C(kind, n - 1) + add(kind)
  <2> DEFINE T == At(kind)
  <2>1. {k \in 1 .. n : k \in T} = {k \in 1 .. n : events[k].kind = kind /\ events[k].tag = tag}
    OBVIOUS
  <2>2. {k \in 1 .. n - 1 : k \in T}
          = {k \in 1 .. n - 1 : events[k].kind = kind /\ events[k].tag = tag}
    <3>1. \A k \in 1 .. n - 1 : k \in 1 .. n
      BY <1>1
    <3> QED
      BY <3>1
  <2> HIDE DEF T
  <2>3. /\ CountTo(T, n) \in Nat /\ CountTo(T, n - 1) \in Nat
        /\ CountTo(T, n) = CountTo(T, n - 1) + (IF n \in T THEN 1 ELSE 0)
    BY <1>1, CountGrows
  <2>4. CountTo(T, n) = C(kind, n) /\ CountTo(T, n - 1) = C(kind, n - 1)
    BY <2>1, <2>2, Zenon DEF CountTo
  <2> HIDE DEF C
  <2> QED
    BY <2>3, <2>4 DEF T
<1>3. \A kind : n \in At(kind) <=> Is(events[n], kind, tag)
  <2>1. n \in 1 .. n
    BY <1>1
  <2> QED
    BY <2>1 DEF Is
<1>4. ~(Is(events[n], "open", tag) /\ Is(events[n], "close", tag))
  BY DEF Is
<1>5. /\ Depth(events, tag, n) = C("open", n) - C("close", n)
      /\ Depth(events, tag, n - 1) = C("open", n - 1) - C("close", n - 1)
  BY DEF Depth
<1> HIDE DEF At, C
<1>6. /\ C("open", n) \in Nat /\ C("open", n - 1) \in Nat
      /\ C("close", n) \in Nat /\ C("close", n - 1) \in Nat
      /\ C("open", n) = C("open", n - 1) + (IF Is(events[n], "open", tag) THEN 1 ELSE 0)
      /\ C("close", n) = C("close", n - 1) + (IF Is(events[n], "close", tag) THEN 1 ELSE 0)
  BY <1>2, <1>3
<1> DEFINE a == C("open", n - 1)
           b == C("close", n - 1)
<1> HIDE DEF a, b
<1>7. /\ a \in Nat /\ b \in Nat
      /\ Depth(events, tag, n - 1) = a - b
      /\ Depth(events, tag, n) = (a + (IF Is(events[n], "open", tag) THEN 1 ELSE 0))
                                  - (b + (IF Is(events[n], "close", tag) THEN 1 ELSE 0))
  BY <1>5, <1>6 DEF a, b
<1> QED
  BY <1>4, <1>7

LEMMA DepthStarts == \A events, tag : Depth(events, tag, 0) = 0
<1> TAKE events, tag
<1>1. 1 .. 0 = {}
  OBVIOUS
<1>2. \A kind : {k \in 1 .. 0 : events[k].kind = kind /\ events[k].tag = tag} = {}
  BY <1>1
<1>3. Cardinality({}) = 0
  BY FS_EmptySet
<1> QED
  BY <1>2, <1>3 DEF Depth

(* What the state of the reader says after n events.                       *)
Reader(acc, events, n) ==
  /\ acc.deleted = Depth(events, "del", n)
  /\ acc.inText <=> Within(events, "t", n)
  /\ acc.inParagraph <=> Within(events, "p", n)
  /\ acc.inParagraph \/ acc.paragraph = <<>>

LEMMA ReaderKeeps ==
  ASSUME NEW events \in Seq(Events), WellFormed(events), Flat(events),
         NEW n \in 1 .. Len(events), NEW acc \in Accs, NEW next \in Accs,
         Changes(acc, events[n], next), Reader(acc, events, n - 1)
  PROVE  Reader(next, events, n)
<1> DEFINE D(tag, i) == Depth(events, tag, i)
           event == events[n]
<1>1. n \in DOMAIN events /\ event \in Events
  BY LenProperties, ElementOfSeq
<1>2. \A tag \in {"p", "t", "del"} : D(tag, n) >= 0
  BY <1>1 DEF WellFormed
<1>3. \A tag \in {"p", "t"} : D(tag, n) <= 1 /\ D(tag, n - 1) <= 1 /\ D(tag, n - 1) >= 0
  <2>1. n - 1 = 0 \/ n - 1 \in DOMAIN events
    BY LenProperties
  <2>2. \A tag : D(tag, 0) = 0
    BY DepthStarts
  <2> QED
    BY <1>1, <2>1, <2>2 DEF Flat, WellFormed
<1>4. \A tag : /\ D(tag, n - 1) \in Int /\ D(tag, n) \in Int
               /\ Is(event, "open", tag) => D(tag, n) = D(tag, n - 1) + 1
               /\ Is(event, "close", tag) => D(tag, n) = D(tag, n - 1) - 1
               /\ ~Is(event, "open", tag) /\ ~Is(event, "close", tag) => D(tag, n) = D(tag, n - 1)
  BY DepthGrows
<1>5. /\ acc.paragraphs \in Seq(Seq(Int)) /\ acc.paragraph \in Seq(Int)
      /\ acc.inParagraph \in BOOLEAN /\ acc.inText \in BOOLEAN /\ acc.deleted \in Nat
      /\ next.inParagraph \in BOOLEAN /\ next.inText \in BOOLEAN
  BY DEF Accs
<1>6. /\ acc.deleted = D("del", n - 1) /\ (acc.inText <=> D("t", n - 1) > 0)
      /\ (acc.inParagraph <=> D("p", n - 1) > 0)
      /\ acc.inParagraph \/ acc.paragraph = <<>>
  BY DEF Reader, Within
<1>7. /\ next.deleted = IF Is(event, "open", "del") THEN acc.deleted + 1
                        ELSE IF Is(event, "close", "del") /\ acc.deleted # 0 THEN acc.deleted - 1
                        ELSE acc.deleted
      /\ next.inText <=> (Is(event, "open", "t") \/ (acc.inText /\ ~Is(event, "close", "t")))
      /\ next.inParagraph <=>
           (Is(event, "open", "p") \/ (acc.inParagraph /\ ~Is(event, "close", "p")))
      /\ next.paragraph = IF Is(event, "open", "p") \/ (Is(event, "close", "p") /\ acc.inParagraph)
                          THEN <<>> ELSE acc.paragraph \o Added(acc, event)
  BY DEF Changes
<1>8. \A kind, tag, other : Is(event, kind, tag) /\ kind # other => ~Is(event, other, tag)
  BY DEF Is
<1> HIDE DEF D, event
<1>11. next.deleted = D("del", n)
  BY <1>2, <1>4, <1>5, <1>6, <1>7, <1>8
<1>12. next.inText <=> D("t", n) > 0
  <2>1. /\ D("t", n - 1) \in Int /\ D("t", n) \in Int
        /\ Is(event, "open", "t") => D("t", n) = D("t", n - 1) + 1
        /\ Is(event, "close", "t") => D("t", n) = D("t", n - 1) - 1
        /\ ~Is(event, "open", "t") /\ ~Is(event, "close", "t") => D("t", n) = D("t", n - 1)
    BY <1>4, Zenon
  <2>2. D("t", n) >= 0 /\ D("t", n) <= 1 /\ D("t", n - 1) <= 1 /\ D("t", n - 1) >= 0
    BY <1>2, <1>3
  <2>3. ~(Is(event, "open", "t") /\ Is(event, "close", "t"))
    BY DEF Is
  <2> QED
    BY <1>5, <1>6, <1>7, <2>1, <2>2, <2>3
<1>13. next.inParagraph <=> D("p", n) > 0
  <2>1. /\ D("p", n - 1) \in Int /\ D("p", n) \in Int
        /\ Is(event, "open", "p") => D("p", n) = D("p", n - 1) + 1
        /\ Is(event, "close", "p") => D("p", n) = D("p", n - 1) - 1
        /\ ~Is(event, "open", "p") /\ ~Is(event, "close", "p") => D("p", n) = D("p", n - 1)
    BY <1>4, Zenon
  <2>2. D("p", n) >= 0 /\ D("p", n) <= 1 /\ D("p", n - 1) <= 1 /\ D("p", n - 1) >= 0
    BY <1>2, <1>3
  <2>3. ~(Is(event, "open", "p") /\ Is(event, "close", "p"))
    BY DEF Is
  <2> QED
    BY <1>5, <1>6, <1>7, <2>1, <2>2, <2>3
<1>14. next.inParagraph \/ next.paragraph = <<>>
  <2> SUFFICES ASSUME ~next.inParagraph, acc.inParagraph # TRUE
               PROVE  next.paragraph = <<>>
    BY <1>5, <1>7
  <2>1. acc.paragraph = <<>> /\ Added(acc, event) = <<>>
    BY <1>5, <1>6 DEF Added, Counted
  <2>2. <<>> \o <<>> = <<>>
    OBVIOUS
  <2> QED
    BY <1>7, <2>1, <2>2
<1> QED
  BY <1>11, <1>12, <1>13, <1>14 DEF Reader, Within, D

(* The runs of text of a DOCX that a reader sees                           *)
SeenRuns(events) ==
  [i \in DOMAIN events |->
     IF /\ events[i].kind = "chars"
        /\ Within(events, "p", i) /\ Within(events, "t", i)
        /\ ~Within(events, "del", i)
     THEN events[i].content ELSE <<>>]

ReadSoFar(acc) == FlattenSeq(Readings(acc.paragraphs)) \o Readables(acc.paragraph)

LEMMA FlattenAppend ==
  ASSUME NEW parts \in Seq(Seq(Int)), NEW s \in Seq(Int)
  PROVE  FlattenSeq(Append(parts, s)) = FlattenSeq(parts) \o s
<1>1. <<s>> \in Seq(Seq(Int)) /\ Len(<<s>>) = 1 /\ <<s>>[1] = s
  OBVIOUS
<1>2. PICK joined : Joins(joined, <<s>>, Int)
  BY <1>1, JoinsExist
<1>3. FlattenSeq(<<s>>) = joined[1]
  BY <1>1, <1>2, FlattenJoins
<1>4. joined[1] = <<>> \o s
  <2>1. 1 \in 1 .. Len(<<s>>) /\ 1 - 1 = 0
    BY <1>1
  <2> QED
    BY <1>1, <1>2, <2>1, Zenon DEF Joins
<1>5. FlattenSeq(<<s>>) = s
  BY <1>3, <1>4, ConcatEmptySeq
<1>6. FlattenSeq(parts \o <<s>>) = FlattenSeq(parts) \o FlattenSeq(<<s>>)
  BY <1>1, FlattenBoth
<1>7. Append(parts, s) = parts \o <<s>>
  OBVIOUS
<1> QED
  BY <1>5, <1>6, <1>7

LEMMA ReadingsAppend ==
  ASSUME NEW parts \in Seq(Seq(Int)), NEW s \in Seq(Int)
  PROVE  Readings(Append(parts, s)) = Append(Readings(parts), Readables(s))
<1> DEFINE p == Append(parts, s)
           N == Len(parts)
<1>1. /\ p \in Seq(Seq(Int)) /\ Len(p) = N + 1 /\ p[N + 1] = s
      /\ \A n \in 1 .. N : p[n] = parts[n]
  BY AppendProperties
<1>2. N \in Nat
  BY LenProperties
<1>3. /\ Readings(parts) \in Seq(Seq(Int)) /\ Len(Readings(parts)) = N
      /\ \A n \in 1 .. N : Readings(parts)[n] = Readables(parts[n])
  BY ReadingsAre
<1> HIDE DEF p, N
<1>4. /\ Readings(p) \in Seq(Seq(Int)) /\ Len(Readings(p)) = N + 1
      /\ \A n \in 1 .. N + 1 : Readings(p)[n] = Readables(p[n])
  BY <1>1, ReadingsAre
<1>5. Readables(s) \in Seq(Int)
  BY ReadablesAre
<1> DEFINE r == Readings(parts)
           q == Append(r, Readables(s))
<1>6. /\ q \in Seq(Seq(Int)) /\ Len(q) = N + 1 /\ q[N + 1] = Readables(s)
      /\ \A n \in 1 .. N : q[n] = r[n]
  BY <1>3, <1>5, AppendProperties
<1>7. \A n \in 1 .. N + 1 : Readings(p)[n] = q[n]
  <2> TAKE n \in 1 .. N + 1
  <2>1. n \in 1 .. N \/ n = N + 1
    BY <1>2
  <2> HIDE DEF q
  <2> QED
    BY <1>1, <1>3, <1>4, <1>6, <2>1
<1> HIDE DEF q
<1>8. Readings(p) = q
  BY <1>4, <1>6, <1>7, SeqEqual
<1> QED
  BY <1>8 DEF p, q

LEMMA ReadSoFarGrows ==
  ASSUME NEW events \in Seq(Events), WellFormed(events), Flat(events),
         NEW n \in 1 .. Len(events), NEW acc \in Accs, NEW next \in Accs,
         Changes(acc, events[n], next), Reader(acc, events, n - 1)
  PROVE  /\ SeenRuns(events)[n] \in Seq(Int) /\ ReadSoFar(acc) \in Seq(Int)
         /\ ReadSoFar(next) = ReadSoFar(acc) \o Readables(SeenRuns(events)[n])
<1> DEFINE D(tag, i) == Depth(events, tag, i)
           event == events[n]
           seen  == SeenRuns(events)[n]
           read  == FlattenSeq(Readings(acc.paragraphs))
<1>1. n \in DOMAIN events /\ event \in Events
  BY LenProperties, ElementOfSeq
<1>2. \A tag \in {"p", "t", "del"} : D(tag, n) >= 0
  BY <1>1 DEF WellFormed
<1>3. D("p", n) <= 1
  BY <1>1 DEF Flat
<1>4. \A tag : /\ D(tag, n - 1) \in Int /\ D(tag, n) \in Int
               /\ Is(event, "open", tag) => D(tag, n) = D(tag, n - 1) + 1
               /\ ~Is(event, "open", tag) /\ ~Is(event, "close", tag) => D(tag, n) = D(tag, n - 1)
  BY DepthGrows
<1>5. /\ acc.paragraphs \in Seq(Seq(Int)) /\ acc.paragraph \in Seq(Int)
      /\ acc.inParagraph \in BOOLEAN /\ acc.inText \in BOOLEAN /\ acc.deleted \in Nat
  BY DEF Accs
<1>6. /\ acc.deleted = D("del", n - 1) /\ (acc.inText <=> D("t", n - 1) > 0)
      /\ (acc.inParagraph <=> D("p", n - 1) > 0)
      /\ acc.inParagraph \/ acc.paragraph = <<>>
  BY DEF Reader, Within
<1>7. event.content \in Seq(Int)
  BY <1>1 DEF Events
<1>8. seen = IF event.kind = "chars" /\ D("p", n) > 0 /\ D("t", n) > 0 /\ ~(D("del", n) > 0)
             THEN event.content ELSE <<>>
  BY <1>1 DEF SeenRuns, Within
<1>9. seen \in Seq(Int)
  BY <1>7, <1>8
<1>10. read \in Seq(Int) /\ Readables(acc.paragraph) \in Seq(Int) /\ <<>> \in Seq(Int)
  <2>1. Readings(acc.paragraphs) \in Seq(Seq(Int))
    BY <1>5, ReadingsAre
  <2>2. PICK joined : Joins(joined, Readings(acc.paragraphs), Int)
    BY <2>1, JoinsExist
  <2> QED
    BY <1>5, <2>1, <2>2, FlattenJoins, ReadablesAre
<1>11. ReadSoFar(acc) \in Seq(Int) /\ ReadSoFar(acc) = read \o Readables(acc.paragraph)
  BY <1>10, ConcatProperties DEF ReadSoFar
<1>12. Readables(<<>>) = <<>>
  <2>1. <<>> \in Seq(Int) /\ Blank(<<>>)
    BY DEF Blank
  <2> QED
    BY <2>1, BlankReads
<1>13. \A s \in Seq(Int) : s \o <<>> = s
  BY ConcatEmptySeq
<1> HIDE DEF D, event, seen
<1>14. CASE Is(event, "open", "p")
  <2>1. acc.paragraph = <<>> /\ seen = <<>>
    BY <1>3, <1>4, <1>6, <1>8, <1>14 DEF Is
  <2>2. next.paragraph = <<>> /\ next.paragraphs = acc.paragraphs
    BY <1>14 DEF Changes, Is, event
  <2> QED
    BY <1>9, <1>11, <1>12, <1>13, <2>1, <2>2 DEF ReadSoFar, seen
<1>15. CASE Is(event, "close", "p") /\ acc.inParagraph
  <2>1. seen = <<>>
    BY <1>8, <1>15 DEF Is
  <2>2. next.paragraph = <<>> /\ next.paragraphs = Append(acc.paragraphs, acc.paragraph)
    BY <1>15 DEF Changes, Is, event
  <2>3. Readings(next.paragraphs) = Append(Readings(acc.paragraphs), Readables(acc.paragraph))
    BY <1>5, <2>2, ReadingsAppend
  <2>4. FlattenSeq(Append(Readings(acc.paragraphs), Readables(acc.paragraph)))
          = read \o Readables(acc.paragraph)
    BY <1>5, <1>10, ReadingsAre, FlattenAppend
  <2> QED
    BY <1>9, <1>10, <1>11, <1>12, <1>13, <2>1, <2>2, <2>3, <2>4 DEF ReadSoFar, seen
<1>16. CASE ~Is(event, "open", "p") /\ ~(Is(event, "close", "p") /\ acc.inParagraph)
  <2>1. next.paragraph = acc.paragraph \o Added(acc, event) /\ next.paragraphs = acc.paragraphs
    BY <1>16 DEF Changes, event
  <2>2. Added(acc, event) \in Seq(Int) /\ Readables(Added(acc, event)) = Readables(seen)
    <3>1. CASE event.kind = "chars"
      <4>1. \A kind, tag : kind # "chars" => ~Is(event, kind, tag)
        BY <3>1 DEF Is
      <4>2. D("p", n) = D("p", n - 1) /\ D("t", n) = D("t", n - 1) /\ D("del", n) = D("del", n - 1)
        BY <1>4, <4>1
      <4>3. Counted(acc) /\ acc.inText <=> (D("p", n) > 0 /\ D("t", n) > 0 /\ ~(D("del", n) > 0))
        BY <1>2, <1>4, <1>5, <1>6, <4>2 DEF Counted
      <4>4. Added(acc, event) = IF Counted(acc) /\ acc.inText THEN event.content ELSE <<>>
        BY <3>1, <4>1 DEF Added
      <4> QED
        BY <1>7, <1>8, <3>1, <4>3, <4>4, <1>10
    <3>2. CASE event.kind # "chars"
      <4>1. Added(acc, event) \in {<<>>, <<Space>>, <<LineBreak>>}
        BY <3>2 DEF Added
      <4>2. seen = <<>>
        BY <1>8, <3>2
      <4>3. <<Space>> \in Seq(Int) /\ <<LineBreak>> \in Seq(Int)
        BY DEF Space, LineBreak
      <4>4. Blank(<<Space>>) /\ Blank(<<LineBreak>>)
        BY DEF Blank, White
      <4>5. Readables(<<Space>>) = <<>> /\ Readables(<<LineBreak>>) = <<>>
        BY <4>3, <4>4, BlankReads
      <4> QED
        BY <1>10, <1>12, <4>1, <4>2, <4>3, <4>5
    <3> QED
      BY <3>1, <3>2
  <2>3. Readables(next.paragraph) = Readables(acc.paragraph) \o Readables(seen)
    BY <1>5, <2>1, <2>2, ReadablesOfBoth
  <2>4. Readables(seen) \in Seq(Int)
    BY <1>9, ReadablesAre
  <2>5. read \o (Readables(acc.paragraph) \o Readables(seen))
          = (read \o Readables(acc.paragraph)) \o Readables(seen)
    <3> DEFINE x == Readables(acc.paragraph)
               y == Readables(seen)
    <3>2. x \in Seq(Int) /\ y \in Seq(Int) /\ read \in Seq(Int)
      BY <1>10, <2>4
    <3> HIDE DEF read, x, y
    <3>3. Associates(Int)
      BY PartsAssociate, Zenon
    <3>4. read \o (x \o y) = (read \o x) \o y
      BY <3>2, <3>3, Zenon DEF Associates
    <3> QED
      BY <3>4 DEF x, y
  <2> QED
    BY <1>9, <1>11, <2>1, <2>3, <2>5 DEF ReadSoFar, seen
<1> QED
  BY <1>14, <1>15, <1>16

LEMMA SeenAre ==
  ASSUME NEW events \in Seq(Events)
  PROVE  /\ SeenRuns(events) \in Seq(Seq(Int)) /\ Len(SeenRuns(events)) = Len(events)
<1> DEFINE N == Len(events)
           e(i) == IF /\ events[i].kind = "chars"
                      /\ Within(events, "p", i) /\ Within(events, "t", i)
                      /\ ~Within(events, "del", i)
                   THEN events[i].content ELSE <<>>
<1>1. N \in Nat /\ DOMAIN events = 1 .. N
  BY LenProperties
<1>2. \A i \in 1 .. N : e(i) \in Seq(Int)
  <2> TAKE i \in 1 .. N
  <2>1. events[i] \in Events
    BY ElementOfSeq
  <2>2. events[i].content \in Seq(Int)
    BY <2>1 DEF Events
  <2> QED
    BY <2>2
<1>3. SeenRuns(events) = [i \in 1 .. N |-> e(i)]
  BY <1>1 DEF SeenRuns
<1> HIDE DEF e, N
<1>4. [i \in 1 .. N |-> e(i)] \in Seq(Seq(Int)) /\ Len([i \in 1 .. N |-> e(i)]) = N
  BY <1>1, <1>2, IsASeq
<1> QED
  BY <1>3, <1>4 DEF N

(* A DOCX without text boxes reads what is seen of it.                     *)
LEMMA DocxIsSeen ==
  ASSUME NEW events \in Seq(Events), WellFormed(events), Flat(events)
  PROVE  FlattenSeq(Readings(ReadEvents(events).paragraphs))
           = Readables(FlattenSeq(SeenRuns(events)))
<1> DEFINE N    == Len(events)
           runs == SeenRuns(events)
<1>1. N \in Nat /\ DOMAIN events = 1 .. N
  BY LenProperties
<1>2. PICK upTo : Follow(upTo, events) /\ ReadEvents(events) = upTo[N]
  BY ReadEventsFollow
<1>3. runs \in Seq(Seq(Int)) /\ Len(runs) = N
  BY SeenAre
<1>4. /\ Readings(runs) \in Seq(Seq(Int)) /\ Len(Readings(runs)) = N
      /\ \A n \in 1 .. N : Readings(runs)[n] = Readables(runs[n])
  BY <1>3, ReadingsAre
<1>5. PICK joined : Joins(joined, Readings(runs), Int)
  BY <1>4, JoinsExist
<1>6. FlattenSeq(Readings(runs)) = joined[N]
  BY <1>4, <1>5, FlattenJoins
<1>7. /\ upTo[0] = Blanked /\ \A n \in 0 .. N : upTo[n] \in Accs
      /\ \A n \in 1 .. N : Changes(upTo[n - 1], events[n], upTo[n])
  BY <1>2 DEF Follow
<1>8. joined[0] = <<>> /\ \A n \in 1 .. N : joined[n] = joined[n - 1] \o Readables(runs[n])
  BY <1>4, <1>5 DEF Joins
<1> HIDE DEF runs, N
<1> DEFINE T == {n \in 0 .. N : Reader(upTo[n], events, n) /\ ReadSoFar(upTo[n]) = joined[n]}
<1>9. 0 \in T
  <2>1. Reader(upTo[0], events, 0)
    <3>1. \A tag : Depth(events, tag, 0) = 0
      BY DepthStarts
    <3>2. /\ Blanked.deleted = 0 /\ ~Blanked.inText /\ ~Blanked.inParagraph
          /\ Blanked.paragraph = <<>>
      BY DEF Blanked
    <3> QED
      BY <1>7, <3>1, <3>2 DEF Reader, Within
  <2>2. ReadSoFar(upTo[0]) = <<>>
    <3>1. <<>> \in Seq(Int) /\ Blank(<<>>) /\ <<>> \in Seq(Seq(Int)) /\ Len(<<>>) = 0
      BY DEF Blank
    <3>2. Readables(<<>>) = <<>>
      BY <3>1, BlankReads
    <3>3. Readings(<<>>) = <<>>
      <4>1. Readings(<<>>) \in Seq(Seq(Int)) /\ Len(Readings(<<>>)) = 0
        BY <3>1, ReadingsAre
      <4> QED
        BY <4>1, EmptySeq
    <3>4. FlattenSeq(<<>>) = <<>>
      <4>1. PICK j : Joins(j, <<>>, Int)
        BY <3>1, JoinsExist
      <4>2. FlattenSeq(<<>>) = j[0]
        BY <3>1, <4>1, FlattenJoins
      <4> QED
        BY <4>1, <4>2 DEF Joins
    <3>5. Blanked.paragraphs = <<>> /\ Blanked.paragraph = <<>> /\ <<>> \o <<>> = <<>>
      BY DEF Blanked
    <3> QED
      BY <1>7, <3>2, <3>3, <3>4, <3>5 DEF ReadSoFar
  <2>3. 0 \in 0 .. N
    BY <1>1
  <2> QED
    BY <1>8, <2>1, <2>2, <2>3
<1>10. ASSUME NEW n \in 1 .. N, n - 1 \in T PROVE n \in T
  <2>1. n \in 0 .. N /\ n - 1 \in 0 .. N
    BY <1>1
  <2>2. n \in 1 .. Len(events)
    BY DEF N
  <2>3. upTo[n - 1] \in Accs /\ upTo[n] \in Accs /\ Changes(upTo[n - 1], events[n], upTo[n])
    BY <1>7, <2>1
  <2>4. Reader(upTo[n - 1], events, n - 1) /\ ReadSoFar(upTo[n - 1]) = joined[n - 1]
    BY <1>10
  <2>5. Reader(upTo[n], events, n)
    BY <2>2, <2>3, <2>4, ReaderKeeps
  <2>6. ReadSoFar(upTo[n]) = ReadSoFar(upTo[n - 1]) \o Readables(SeenRuns(events)[n])
    BY <2>2, <2>3, <2>4, ReadSoFarGrows
  <2> QED
    BY <1>8, <2>1, <2>4, <2>5, <2>6 DEF runs
<1> HIDE DEF T
<1>11. \A n \in 0 .. N : n \in T
  BY <1>1, <1>9, <1>10, UpTo, Zenon
<1>12. Reader(upTo[N], events, N) /\ ReadSoFar(upTo[N]) = joined[N] /\ upTo[N] \in Accs
  <2>1. N \in 0 .. N
    BY <1>1
  <2> QED
    BY <1>7, <1>11, <2>1 DEF T
<1>13. upTo[N].paragraph = <<>>
  <2>1. Depth(events, "p", N) = 0
    BY DEF WellFormed, N
  <2> QED
    BY <1>12, <2>1 DEF Reader, Within
<1>14. ReadSoFar(upTo[N]) = FlattenSeq(Readings(upTo[N].paragraphs))
  <2>1. <<>> \in Seq(Int) /\ Blank(<<>>)
    BY DEF Blank
  <2>2. Readables(<<>>) = <<>>
    BY <2>1, BlankReads
  <2>3. upTo[N].paragraphs \in Seq(Seq(Int))
    BY <1>12 DEF Accs
  <2>4. Readings(upTo[N].paragraphs) \in Seq(Seq(Int))
    BY <2>3, ReadingsAre
  <2>5. FlattenSeq(Readings(upTo[N].paragraphs)) \in Seq(Int)
    <3>1. PICK j : Joins(j, Readings(upTo[N].paragraphs), Int)
      BY <2>4, JoinsExist
    <3> QED
      BY <2>4, <3>1, FlattenJoins
  <2> QED
    BY <1>13, <2>2, <2>5, ConcatEmptySeq DEF ReadSoFar
<1>15. Readables(FlattenSeq(runs)) = FlattenSeq(Readings(runs))
  BY <1>3, FlattenReads
<1> QED
  BY <1>2, <1>6, <1>12, <1>14, <1>15 DEF runs

(* A page that shows all it paints hides nothing.                          *)
LEMMA HidesNothing ==
  ASSUME NEW page \in PdfPages, Painted(page),
         page.hidden # <<>> => SparseConfirmed(page)
  PROVE  Blank(page.hidden)
<1> DEFINE glyphs == Cardinality({k \in DOMAIN page.drawing : page.drawing[k] = "glyph"})
           H      == {k \in DOMAIN page.hidden : page.hidden[k] \notin White}
           shown  == Readable(page)
<1>1. page.hidden \in Seq(Int) /\ page.content \in Seq(Int)
  BY DEF PdfPages
<1>2. CASE page.hidden = <<>>
  <2>1. DOMAIN page.hidden = {}
    BY <1>2
  <2> QED
    BY <2>1 DEF Blank
<1>3. CASE page.hidden # <<>>
  <2>1. ~page.images /\ "other" \notin ToSet(page.drawing) /\ glyphs = shown
    BY <1>3 DEF SparseConfirmed, DrawsOnly
  <2>2. glyphs >= shown + Cardinality(H)
    BY <1>3, <2>1 DEF Painted
  <2>3. IsFiniteSet(H) /\ Cardinality(H) \in Nat
    <3>1. DOMAIN page.hidden = 1 .. Len(page.hidden) /\ Len(page.hidden) \in Int /\ 1 \in Int
      BY <1>1, LenProperties
    <3>2. IsFiniteSet(DOMAIN page.hidden) /\ H \subseteq DOMAIN page.hidden
      BY <3>1, FS_Interval
    <3> HIDE DEF H
    <3> QED
      BY <3>2, FS_Subset, FS_CardinalityType
  <2>4. shown \in Nat
    <3> DEFINE P == {k \in DOMAIN page.content : page.content[k] \notin White}
    <3>1. DOMAIN page.content = 1 .. Len(page.content) /\ Len(page.content) \in Int /\ 1 \in Int
      BY <1>1, LenProperties
    <3>2. IsFiniteSet(DOMAIN page.content) /\ P \subseteq DOMAIN page.content
      BY <3>1, FS_Interval
    <3>3. shown = Cardinality(P)
      BY DEF Readable
    <3> HIDE DEF P, shown
    <3> QED
      BY <3>2, <3>3, FS_Subset, FS_CardinalityType
  <2>5. Cardinality(H) = 0
    <3> DEFINE c == Cardinality(H)
    <3> HIDE DEF glyphs, shown, c
    <3>1. c \in Nat /\ shown \in Nat /\ glyphs = shown /\ glyphs >= shown + c
      BY <2>1, <2>2, <2>3, <2>4 DEF c
    <3>2. c = 0
      BY <3>1
    <3> QED
      BY <3>2 DEF c
  <2>6. H = {}
    <3> HIDE DEF H
    <3> QED
      BY <2>3, <2>5, FS_EmptySet
  <2> QED
    BY <2>6 DEF Blank
<1> QED
  BY <1>2, <1>3

LEMMA PdfIsSeen ==
  ASSUME NEW file, PdfFile(file), ReadPdf(file) # None,
         \A n \in DOMAIN file.pages :
            file.pages[n].hidden # <<>> => Readable(file.pages[n]) < SparsePage
  PROVE  FlattenSeq([n \in 1 .. Len(file.pages) |-> Readables(file.pages[n].content)])
           = Readables(Visible(file))
<1> DEFINE pages == file.pages
           N     == Len(pages)
           e(n)  == pages[n].content \o pages[n].hidden
           whole == [n \in 1 .. N |-> e(n)]
           r(n)  == Readables(pages[n].content)
           read  == [n \in 1 .. N |-> r(n)]
<1>1. pages \in Seq(PdfPages) /\ file.format = "pdf"
  BY DEF PdfFile
<1>2. N \in Nat /\ DOMAIN pages = 1 .. N /\ \A n \in 1 .. N : pages[n] \in PdfPages
  BY <1>1, LenProperties, ElementOfSeq
<1>3. \A n \in 1 .. N : pages[n].content \in Seq(Int) /\ pages[n].hidden \in Seq(Int)
  BY <1>2 DEF PdfPages
<1>4. \A n \in 1 .. N : e(n) \in Seq(Int) /\ r(n) \in Seq(Int) /\ Readables(e(n)) = r(n)
  <2> TAKE n \in 1 .. N
  <2>1. pages[n].hidden # <<>> => SparseConfirmed(pages[n])
    BY <1>2 DEF ReadPdf
  <2>2. Painted(pages[n])
    BY <1>2 DEF PdfFile
  <2>3. Blank(pages[n].hidden)
    BY <1>2, <2>1, <2>2, HidesNothing
  <2>4. Readables(pages[n].hidden) = <<>>
    BY <1>3, <2>3, BlankReads
  <2>5. pages[n].content \in Seq(Int) /\ pages[n].hidden \in Seq(Int)
    BY <1>3
  <2>6. r(n) \in Seq(Int)
    BY <2>5, ReadablesAre
  <2>7. e(n) \in Seq(Int)
    BY <2>5, ConcatProperties
  <2>8. Readables(e(n)) = r(n) \o Readables(pages[n].hidden)
    BY <2>5, ReadablesOfBoth
  <2>9. r(n) \o <<>> = r(n)
    <3> HIDE DEF r
    <3> QED
      BY <2>6, ConcatEmptySeq
  <2> QED
    BY <2>4, <2>6, <2>7, <2>8, <2>9
<1>5. Visible(file) = FlattenSeq(whole)
  BY <1>1, <1>2 DEF Visible
<1> HIDE DEF e, r, N
<1>6. whole \in Seq(Seq(Int)) /\ Len(whole) = N
  BY <1>2, <1>4, IsASeq
<1>7. Readings(whole) = read
  <2> DEFINE w == whole
  <2>1. w \in Seq(Seq(Int)) /\ Len(w) = N /\ \A n \in 1 .. N : w[n] = e(n)
    BY <1>6
  <2> HIDE DEF w
  <2>2. Readings(w) = [n \in 1 .. N |-> Readables(w[n])]
    BY <2>1 DEF Readings
  <2>3. \A n \in 1 .. N : Readables(w[n]) = r(n)
    BY <1>4, <2>1
  <2> QED
    BY <2>2, <2>3 DEF w
<1>8. Readables(FlattenSeq(whole)) = FlattenSeq(Readings(whole))
  <2> HIDE DEF whole
  <2> QED
    BY <1>6, FlattenReads
<1>9. read = [n \in 1 .. Len(file.pages) |-> Readables(file.pages[n].content)]
  BY DEF r, N
<1> HIDE DEF whole, read
<1> QED
  BY <1>5, <1>7, <1>8, <1>9

(* What an extracted file shows is in its text.                            *)
THEOREM ExtractedIsSeen ==
  ASSUME NEW file, Typed(file), Extract(file) # None,
         file.format = "docx" => Flat(file.events),
         file.format = "pdf" => \A n \in DOMAIN file.pages :
            file.pages[n].hidden # <<>> => Readable(file.pages[n]) < SparsePage
  PROVE  /\ Readables(Extract(file).text) = Readables(Visible(file))
         /\ file.format = "pdf" => Len(file.pages) = file.count
<1>1. CASE TxtFile(file) /\ Extract(file) = ReadTxt(file) /\ ReadTxt(file) # None
  <2>1. file.format = "txt" /\ Visible(file) = file.content
    BY <1>1 DEF TxtFile, Visible
  <2> QED
    BY <1>1, <2>1, TxtReads
<1>2. CASE DocxFile(file) /\ Extract(file) = ReadDocx(file) /\ ReadDocx(file) # None
  <2>1. file.format = "docx" /\ file.events \in Seq(Events)
    BY <1>2 DEF DocxFile
  <2>2. WellFormed(file.events)
    BY <1>2 DEF DocxFile, ReadDocx
  <2>3. Visible(file) = FlattenSeq(SeenRuns(file.events))
    BY <2>1 DEF Visible, SeenRuns
  <2> QED
    BY <1>2, <2>1, <2>2, <2>3, DocxReads, DocxIsSeen
<1>3. CASE PdfFile(file) /\ Extract(file) = ReadPdf(file) /\ ReadPdf(file) # None
  <2>1. file.format = "pdf"
    BY <1>3 DEF PdfFile
  <2>2. Len(file.pages) = file.count
    BY <1>3 DEF ReadPdf
  <2> QED
    BY <1>3, <2>1, <2>2, PdfReads, PdfIsSeen
<1> QED
  BY <1>1, <1>2, <1>3, ExtractReads
=============================================================================

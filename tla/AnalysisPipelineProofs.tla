----------------------- MODULE AnalysisPipelineProofs -----------------------
(***************************************************************************)
(* Theorems about AnalysisPipeline for any files and any sizes of chunks,  *)
(* overlaps and edits.                                                     *)
(*                                                                         *)
(* CutInv: up to a front, which the open chunk or window starts at,        *)
(* chunk_text has given every character and every short quote of the text  *)
(* to one chunk.  FindInv: the issues are those of the chunks that have    *)
(* returned, and the report is their merge.  What the merge keeps is       *)
(* stated of the list after each issue it takes: the kept issues stay      *)
(* apart, lead back to all that were taken, and, problem by problem, are   *)
(* the same whatever the order of arrival.  DocInv and PlaceInv: the       *)
(* document is the one of the file, and every issue has a place in it.     *)
(***************************************************************************)
EXTENDS AnalysisPipeline, SourceTextProofs

-----------------------------------------------------------------------------
(* The files                                                               *)

LEMMA FilesAre ==
  ASSUME NEW first \in Scenarios
  PROVE  Typed(first.file)
BY FilesAssumption DEF Typed, TxtFile, DocxFile, PdfFile, Events, PdfPages

LEMMA TextsAre ==
  ASSUME scenario \in Scenarios
  PROVE  Extract(scenario.file) = None \/ Extract(scenario.file).text \in Seq(Int)
<1> DEFINE file == scenario.file
<1>1. Typed(file)
  BY FilesAre
<1> SUFFICES ASSUME Extract(file) # None
             PROVE  Extract(file).text \in Seq(Int)
  OBVIOUS
<1> HIDE DEF file
<1>2. PICK lines, at, par : Leading(file, Extract(file), lines, at, par)
  BY <1>1, ExtractLeads
<1> QED
  BY <1>2 DEF Leading, Laid, Documents, file

-----------------------------------------------------------------------------
(* How chunk_text divides a text among its chunks                          *)

(* A paragraph is a part of the text; two have a separator between them.   *)
LEMMA ParagraphsApart ==
  ASSUME NEW content \in Seq(Int)
  PROVE  /\ \A p \in Paragraphs(content) :
              p \in [start : Nat, end : Nat] /\ p.start < p.end /\ p.end <= Len(content)
         /\ \A p, q \in Paragraphs(content) : p.start < q.start => p.end <= q.start
         /\ \A p, q \in Paragraphs(content) : p.start = q.start => p = q
<1> DEFINE starts == {k \in 0 .. Len(content) - 1 :
                        ~Separates(content, k) /\ (k > 0 => Separates(content, k - 1))}
           Closers(k) == {Len(content)} \cup {j \in k .. Len(content) - 1 : Separates(content, j)}
<1>1. ParagraphSet(content) = {ParagraphAt(content, k) : k \in starts}
  BY DEF ParagraphSet
<1>2. Len(content) \in Nat
  OBVIOUS
<1>3. ASSUME NEW k \in starts
      PROVE  /\ Min(Closers(k)) \in Closers(k) /\ \A n \in Closers(k) : Min(Closers(k)) <= n
             /\ k \in Nat /\ Min(Closers(k)) \in Nat /\ k < Min(Closers(k)) /\ Min(Closers(k)) <= Len(content)
  <2>1. Closers(k) \in SUBSET Nat /\ Closers(k) # {}
    BY <1>2
  <2>2. Min(Closers(k)) \in Closers(k) /\ \A n \in Closers(k) : Min(Closers(k)) <= n
    <3> HIDE DEF Closers
    <3> QED
      BY <2>1, MinIsLeast
  <2>3. k \notin Closers(k) /\ \A n \in Closers(k) : k <= n /\ n <= Len(content)
    BY <1>2
  <2> HIDE DEF Closers
  <2> QED
    BY <2>1, <2>2, <2>3
<1>4. ASSUME NEW k \in starts, NEW n \in starts, k < n PROVE Min(Closers(k)) <= n
  <2>1. n - 1 \in Closers(k) /\ n \in Nat
    BY <1>2, <1>4
  <2>2. Min(Closers(k)) <= n - 1 /\ Min(Closers(k)) \in Nat
    <3> HIDE DEF starts, Closers
    <3> QED
      BY <1>3, <2>1
  <2> HIDE DEF Closers
  <2> QED
    BY <2>1, <2>2
<1>5. \A k : ParagraphAt(content, k) = [start |-> k, end |-> Min(Closers(k))]
  BY DEF ParagraphAt
<1> HIDE DEF starts, Closers
<1>6. CASE Paragraphs(content) = ParagraphSet(content)
  <2>1. \A p \in Paragraphs(content) : p.start \in starts /\ p = [start |-> p.start, end |-> Min(Closers(p.start))]
    BY <1>1, <1>5, <1>6
  <2> QED
    BY <1>3, <1>4, <2>1
<1>7. CASE content # <<>> /\ Paragraphs(content) = {[start |-> 0, end |-> Len(content)]}
  <2>1. 0 < Len(content)
    BY <1>7
  <2> QED
    BY <1>2, <1>7, <2>1
<1> QED
  BY <1>6, <1>7 DEF Paragraphs

(* The next paragraph is the first from a position on.                     *)
LEMMA NextIsFirst ==
  ASSUME NEW content \in Seq(Int), NEW at \in Nat
  PROVE  LET p == NextParagraph(content, at)
         IN \/ p = None /\ \A q \in Paragraphs(content) : q.start < at
            \/ /\ p # None /\ p \in Paragraphs(content) /\ p.start >= at
               /\ \A q \in Paragraphs(content) : q.start >= at => p.start <= q.start
<1> DEFINE left   == {p \in Paragraphs(content) : p.start >= at}
           begins == {p.start : p \in left}
<1>1. NextParagraph(content, at) =
        IF left = {} THEN None ELSE CHOOSE p \in left : \A q \in left : p.start <= q.start
  BY DEF NextParagraph
<1>2. \A p \in Paragraphs(content) : p \in [start : Nat, end : Nat]
  BY ParagraphsApart
<1>3. CASE left = {}
  BY <1>1, <1>2, <1>3
<1>4. CASE left # {}
  <2>1. begins \in SUBSET Nat /\ begins # {}
    BY <1>2, <1>4
  <2>2. PICK m \in begins : \A n \in begins : m <= n
    <3> HIDE DEF begins
    <3> QED
      BY <2>1, LeastNumber
  <2>3. \E p \in left : \A q \in left : p.start <= q.start
    BY <2>2
  <2> DEFINE first == CHOOSE p \in left : \A q \in left : p.start <= q.start
  <2>4. first \in left /\ \A q \in left : first.start <= q.start
    BY <2>3
  <2>5. NextParagraph(content, at) = first
    BY <1>1, <1>4
  <2>6. first # None
    <3>1. DOMAIN first = {"start", "end"} /\ DOMAIN None = {"none"}
      <4> HIDE DEF first
      <4> QED
        BY <1>2, <2>4 DEF None
    <3> HIDE DEF first
    <3> QED
      BY <3>1
  <2> HIDE DEF first
  <2> QED
    BY <2>4, <2>5, <2>6
<1> QED
  BY <1>3, <1>4
-----------------------------------------------------------------------------
(* The invariant of the cutting                                            *)

(* A quote no longer than the overlap, in a paragraph; its middle decides  *)
(* which chunk may report it.                                              *)
ShortQuote(p, a, b) == p.start <= a /\ a < b /\ b <= p.end /\ b - a <= MaxOverlap
Middle(a, b)        == a + (b - a) \div 2

(* A part of the text holds every paragraph that it meets, or lies in one  *)
(* and its core keeps half an overlap away from where it cuts that one.    *)
Shows(content, start, end, coreStart, coreEnd) ==
  \A p \in Paragraphs(content) :
    (p.start < end /\ start < p.end) =>
      \/ start <= p.start /\ p.end <= end
      \/ /\ p.start <= start /\ end <= p.end
         /\ start = p.start \/ coreStart = start + MaxOverlap \div 2
         /\ end = p.end \/ coreEnd = end - MaxOverlap + MaxOverlap \div 2

(* A position at the middle of blank quotes only.                          *)
Void(content, k) ==
  \A p \in Paragraphs(content), a, b \in 0 .. Len(content) :
    ShortQuote(p, a, b) /\ Middle(a, b) = k => BlankIn(content, a, b)

Records == [start : Nat, end : Nat, coreStart : Nat, coreEnd : Nat]

Fits(content, c) ==
  /\ c.start <= c.coreStart /\ c.coreStart < c.coreEnd /\ c.coreEnd <= c.end
  /\ c.end <= Len(content) /\ c.end - c.start <= HardChunk
  /\ Shows(content, c.start, c.end, c.coreStart, c.coreEnd)

InCore(c, k) == c.coreStart <= k /\ k < c.coreEnd

(* Up to front the text is divided among the chunks of the list.           *)
Divided(content, list, front) ==
  /\ list \in Seq(Records)
  /\ \A i \in 1 .. Len(list) : Fits(content, list[i]) /\ list[i].coreEnd <= front
  /\ \A i, j \in 1 .. Len(list) : i < j => list[i].coreEnd <= list[j].coreStart
  /\ \A k \in 0 .. front - 1 :
       (\E p \in Paragraphs(content) : p.start <= k /\ k < p.end)
         => Void(content, k) \/ \E i \in 1 .. Len(list) : InCore(list[i], k)

(* The open chunk ends where the paragraphs taken do; its core starts with *)
(* one of them.                                                            *)
OpenFits ==
  /\ open \in [start : Nat, end : Nat, coreStart : Nat]
  /\ open.start <= open.coreStart /\ open.coreStart < open.end
  /\ open.end = position /\ open.end - open.start <= HardChunk
  /\ \E p \in Paragraphs(text) : p.start = open.start

(* The next window starts with its paragraph, or half the overlap before   *)
(* its core.                                                               *)
WindowFits ==
  /\ open = None
  /\ window \in [cursor : Nat, core : Nat, end : Nat]
  /\ window.end = position /\ window.cursor <= window.core /\ window.core < window.end
  /\ \E p \in Paragraphs(text) :
       /\ p.end = window.end /\ p.start <= window.cursor
       /\ \/ window.cursor = p.start /\ window.core = p.start
          \/ window.core = window.cursor + MaxOverlap \div 2

Reached ==
  IF window # None THEN window.core ELSE IF open # None THEN open.coreStart ELSE position

Cutting ==
  /\ text \in Seq(Int)
  /\ position \in 0 .. Len(text)
  /\ \A p \in Paragraphs(text) : p.start < position => p.end <= position
  /\ previous # None => previous \in Paragraphs(text) /\ previous.end <= position
  /\ open # None => OpenFits
  /\ window # None => WindowFits
  /\ Divided(text, chunks, Reached)

CutInv ==
  /\ phase \in {"read", "cut", "analyze", "done", "failed"}
  /\ scenario \in Scenarios
  /\ phase = "read" => /\ chunks = <<>> /\ position = 0
                       /\ open = None /\ previous = None /\ window = None
  /\ phase = "cut" => Cutting
  /\ phase = "analyze" => text \in Seq(Int) /\ Divided(text, chunks, Len(text))

(* The middle of a quote is in it, and no further from its ends than that  *)
(* of the longest quote.                                                   *)
LEMMA MiddleInside ==
  ASSUME NEW a \in Nat, NEW b \in Nat, a < b, b - a <= MaxOverlap
  PROVE  /\ Middle(a, b) \in Nat /\ a <= Middle(a, b) /\ Middle(a, b) < b
         /\ Middle(a, b) - a <= MaxOverlap \div 2
         /\ b - Middle(a, b) <= MaxOverlap - MaxOverlap \div 2
  BY SizesAssumption DEF Middle

(* A part shows every short quote whose middle is in its core.             *)
LEMMA QuotesShown ==
  ASSUME NEW content \in Seq(Int), NEW start \in Nat, NEW end \in Nat,
         NEW coreStart \in Nat, NEW coreEnd \in Nat, start <= coreStart, coreEnd <= end,
         Shows(content, start, end, coreStart, coreEnd),
         NEW p \in Paragraphs(content), NEW a \in 0 .. Len(content), NEW b \in 0 .. Len(content),
         ShortQuote(p, a, b), coreStart <= Middle(a, b), Middle(a, b) < coreEnd
  PROVE  start <= a /\ b <= end
<1> DEFINE mid  == Middle(a, b)
           half == MaxOverlap \div 2
<1>1. p.start \in Nat /\ p.end \in Nat /\ a \in Nat /\ b \in Nat
  BY ParagraphsApart
<1>2. /\ p.start <= a /\ b <= p.end /\ mid \in Nat /\ a <= mid /\ mid < b
      /\ mid - a <= half /\ b - mid <= MaxOverlap - half
  BY <1>1, MiddleInside DEF ShortQuote
<1>3. MaxOverlap \in Nat /\ half \in Nat
  BY SizesAssumption
<1>4. coreStart <= mid /\ mid < coreEnd
  OBVIOUS
<1>5. Shows(content, start, end, coreStart, coreEnd) =>
        ((p.start < end /\ start < p.end) =>
           \/ start <= p.start /\ p.end <= end
           \/ /\ p.start <= start /\ end <= p.end
              /\ start = p.start \/ coreStart = start + half
              /\ end = p.end \/ coreEnd = end - MaxOverlap + half)
  BY DEF Shows
<1> HIDE DEF mid, half
<1> DEFINE first == p.start
           last  == p.end
<1>6. first \in Int /\ last \in Int /\ first <= a /\ b <= last
  BY <1>1, <1>2
<1> HIDE DEF first, last
<1>7. first < end /\ start < last
  BY <1>2, <1>4, <1>6
<1>8. \/ start <= first /\ last <= end
      \/ /\ first <= start /\ end <= last
         /\ start = first \/ coreStart = start + half
         /\ end = last \/ coreEnd = end - MaxOverlap + half
  BY <1>5, <1>7 DEF first, last
<1>9. start <= a
  <2>1. CASE coreStart = start + half
    BY <1>2, <1>3, <1>4, <2>1
  <2>2. CASE start <= first
    BY <1>6, <2>2
  <2> QED
    BY <1>6, <1>8, <2>1, <2>2
<1>10. b <= end
  <2>1. CASE coreEnd = end - MaxOverlap + half
    BY <1>2, <1>3, <1>4, <2>1
  <2>2. CASE last <= end
    BY <1>6, <2>2
  <2> QED
    BY <1>6, <1>8, <2>1, <2>2
<1> QED
  BY <1>9, <1>10

(* A piece of a long paragraph ends with it, or within the hard limit and  *)
(* after more than an overlap.                                             *)
LEMMA SplitBounds ==
  ASSUME NEW content \in Seq(Int), NEW start \in Nat, NEW end \in Nat,
         start < end, end <= Len(content)
  PROVE  LET e == SplitLong(content, start, end)
         IN /\ e \in Nat /\ start < e /\ e <= end /\ e - start <= HardChunk
            /\ e < end => start + MaxOverlap + 1 <= e
<1> DEFINE hard  == start + HardChunk
           marks == {k \in hard - MaxOverlap .. hard - 1 : content[k + 1] \in {Stop, Semicolon}}
<1>0. /\ HardChunk \in Nat /\ MaxOverlap \in Nat /\ HardChunk > 0 /\ MaxOverlap > 0
      /\ 2 * MaxOverlap <= HardChunk
  BY SizesAssumption
<1>1. SplitLong(content, start, end) =
        IF hard >= end THEN end ELSE IF marks = {} THEN hard ELSE Max(marks) + 1
  BY DEF SplitLong
<1>2. CASE hard >= end \/ marks = {}
  BY <1>0, <1>1, <1>2
<1>3. CASE hard < end /\ marks # {}
  <2>1. marks \in SUBSET Nat /\ \A n \in marks : n <= hard - 1 /\ hard - MaxOverlap <= n
    BY <1>0
  <2>2. hard - 1 \in Nat /\ \E k : k \in marks
    BY <1>0, <1>3
  <2>3. Max(marks) \in marks
    <3> HIDE DEF marks, hard
    <3> QED
      BY <2>1, <2>2, MaxIsGreatest
  <2>4. SplitLong(content, start, end) = Max(marks) + 1
    BY <1>1, <1>3, <1>0
  <2>5. Max(marks) \in Nat /\ Max(marks) <= hard - 1 /\ hard - MaxOverlap <= Max(marks)
    <3> HIDE DEF marks, hard
    <3> QED
      BY <2>1, <2>3
  <2> DEFINE last == Max(marks)
  <2> HIDE DEF last
  <2>6. last \in Nat /\ last <= hard - 1 /\ hard - MaxOverlap <= last
    BY <2>5 DEF last
  <2>7. SplitLong(content, start, end) = last + 1
    BY <2>4 DEF last
  <2> HIDE DEF marks
  <2> QED
    BY <1>0, <1>3, <2>6, <2>7
<1> QED
  BY <1>0, <1>2, <1>3

(* The next window starts an overlap before the end of this one.           *)
LEMMA NextWindowBounds ==
  ASSUME NEW content, NEW cursor \in Nat, NEW e \in Nat, NEW end \in Nat,
         cursor < e, e <= end, e < end => cursor + MaxOverlap + 1 <= e
  PROVE  LET after == NextWindow(content, cursor, e, end)
         IN IF e >= end THEN after.coreEnd = e
            ELSE /\ after.next = e - MaxOverlap /\ cursor < after.next
                 /\ after.coreEnd = after.next + MaxOverlap \div 2
                 /\ after.next \in Nat /\ after.coreEnd \in Nat /\ after.coreEnd <= e
<1>0. MaxOverlap \in Nat /\ MaxOverlap > 0
  BY SizesAssumption
<1>1. CASE e >= end
  BY <1>1 DEF NextWindow
<1>2. CASE e < end
  <2>1. Most(e - MaxOverlap, cursor + 1) = e - MaxOverlap
    BY <1>0, <1>2 DEF Most
  <2>2. NextWindow(content, cursor, e, end) =
          [next |-> e - MaxOverlap, coreEnd |-> e - MaxOverlap + (e - (e - MaxOverlap)) \div 2]
    BY <1>2, <2>1 DEF NextWindow
  <2>3. e - (e - MaxOverlap) = MaxOverlap
    BY <1>0
  <2> QED
    BY <1>0, <1>2, <2>2, <2>3
<1> QED
  BY <1>1, <1>2

(* Pushing the part of the text from the front on extends the division.    *)
LEMMA PushDivides ==
  ASSUME NEW content \in Seq(Int), NEW list, NEW start \in Nat, NEW end \in Nat,
         NEW coreStart \in Nat, NEW coreEnd \in Nat,
         Divided(content, list, coreStart),
         start <= coreStart, coreStart < coreEnd, coreEnd <= end, end <= Len(content),
         end - start <= HardChunk, Shows(content, start, end, coreStart, coreEnd)
  PROVE  Divided(content, PushChunk(content, list, start, end, coreStart, coreEnd), coreEnd)
<1> DEFINE c      == [start |-> start, end |-> end, coreStart |-> coreStart, coreEnd |-> coreEnd]
           pushed == PushChunk(content, list, start, end, coreStart, coreEnd)
<1> DEFINE Inside(k) == \E p \in Paragraphs(content) : p.start <= k /\ k < p.end
<1>1. list \in Seq(Records) /\ Len(list) \in Nat
  BY DEF Divided
<1>a. \A i \in 1 .. Len(list) : list[i] \in Records
  BY <1>1
<1>b. \A i \in 1 .. Len(list) : Fits(content, list[i]) /\ list[i].coreEnd <= coreStart
  BY DEF Divided
<1>c. \A i, j \in 1 .. Len(list) : i < j => list[i].coreEnd <= list[j].coreStart
  BY DEF Divided
<1>d. \A k \in 0 .. coreStart - 1 :
        Inside(k) => Void(content, k) \/ \E i \in 1 .. Len(list) : InCore(list[i], k)
  BY DEF Divided
<1>2. Clamp(coreStart, start, end) = coreStart /\ Clamp(coreEnd, coreStart, end) = coreEnd
  BY DEF Clamp, Most, Least
<1>3. pushed = IF Blank(Sub(content, start, end)) THEN list ELSE Append(list, c)
  BY <1>2 DEF PushChunk
<1>4. \A i \in 1 .. Len(list) : list[i].coreEnd <= coreEnd
  <2> TAKE i \in 1 .. Len(list)
  <2>1. list[i].coreEnd \in Nat
    BY <1>a DEF Records
  <2> QED
    BY <1>b, <2>1
<1> HIDE DEF pushed, Inside
<1>5. ASSUME Blank(Sub(content, start, end)) PROVE Divided(content, pushed, coreEnd)
  <2>1. BlankIn(content, start, end)
    BY <1>5, BlankPart
  <2>2. ASSUME NEW k \in coreStart .. coreEnd - 1 PROVE Void(content, k)
    <3> SUFFICES ASSUME NEW p \in Paragraphs(content), NEW a \in 0 .. Len(content),
                        NEW b \in 0 .. Len(content), ShortQuote(p, a, b), Middle(a, b) = k
                 PROVE  BlankIn(content, a, b)
      BY DEF Void
    <3>1. start <= a /\ b <= end
      <4>1. coreStart <= Middle(a, b) /\ Middle(a, b) < coreEnd
        OBVIOUS
      <4> QED
        BY <4>1, QuotesShown
    <3> QED
      BY <2>1, <3>1 DEF BlankIn
  <2> QED
    <3>1. pushed = list
      BY <1>3, <1>5
    <3>2. \A k \in 0 .. coreEnd - 1 :
            Inside(k) => Void(content, k) \/ \E i \in 1 .. Len(list) : InCore(list[i], k)
      <4> TAKE k \in 0 .. coreEnd - 1
      <4>1. k \in 0 .. coreStart - 1 \/ k \in coreStart .. coreEnd - 1
        OBVIOUS
      <4> QED
        BY <1>d, <2>2, <4>1
    <3> QED
      BY <1>1, <1>b, <1>c, <1>4, <3>1, <3>2 DEF Divided, Inside
<1>6. ASSUME ~Blank(Sub(content, start, end)) PROVE Divided(content, pushed, coreEnd)
  <2>1. c \in Records /\ Fits(content, c)
    BY DEF Records, Fits
  <2>2. /\ c.coreStart = coreStart /\ c.coreEnd = coreEnd
    OBVIOUS
  <2> HIDE DEF c
  <2>3. /\ pushed \in Seq(Records) /\ Len(pushed) = Len(list) + 1 /\ pushed[Len(list) + 1] = c
        /\ \A i \in 1 .. Len(list) : pushed[i] = list[i]
    BY <1>1, <1>3, <1>6, <2>1
  <2>5. \A i \in 1 .. Len(pushed) : i \in 1 .. Len(list) \/ i = Len(list) + 1
    BY <1>1, <2>3
  <2>6. \A i \in 1 .. Len(pushed) : Fits(content, pushed[i]) /\ pushed[i].coreEnd <= coreEnd
    <3> TAKE i \in 1 .. Len(pushed)
    <3>1. CASE i \in 1 .. Len(list)
      BY <1>b, <1>4, <2>3, <3>1
    <3>2. CASE i = Len(list) + 1
      <4>1. coreEnd <= coreEnd
        OBVIOUS
      <4>2. pushed[i] = c
        BY <2>3, <3>2
      <4> QED
        BY <2>1, <2>2, <4>1, <4>2
    <3> QED
      BY <2>5, <3>1, <3>2
  <2>7. \A i, j \in 1 .. Len(pushed) : i < j => pushed[i].coreEnd <= pushed[j].coreStart
    <3> SUFFICES ASSUME NEW i \in 1 .. Len(pushed), NEW j \in 1 .. Len(pushed), i < j
                 PROVE  pushed[i].coreEnd <= pushed[j].coreStart
      OBVIOUS
    <3>1. i \in 1 .. Len(list)
      BY <1>1, <2>3
    <3>2. CASE j \in 1 .. Len(list)
      BY <1>c, <2>3, <3>1, <3>2
    <3>3. CASE j = Len(list) + 1
      BY <1>b, <2>2, <2>3, <3>1, <3>3
    <3> QED
      BY <2>5, <3>2, <3>3
  <2>8. \A k \in 0 .. coreEnd - 1 :
          Inside(k) => Void(content, k) \/ \E i \in 1 .. Len(pushed) : InCore(pushed[i], k)
    <3> TAKE k \in 0 .. coreEnd - 1
    <3>1. CASE k \in 0 .. coreStart - 1
      <4>1. 1 .. Len(list) \subseteq 1 .. Len(pushed)
        BY <1>1, <2>3
      <4> QED
        BY <1>d, <2>3, <3>1, <4>1
    <3>2. CASE coreStart <= k
      <4>1. Len(list) + 1 \in 1 .. Len(pushed)
        BY <1>1, <2>3
      <4>2. InCore(pushed[Len(list) + 1], k)
        BY <2>2, <2>3, <3>2 DEF InCore
      <4> QED
        BY <4>1, <4>2
    <3> QED
      BY <3>1, <3>2
  <2> QED
    BY <2>3, <2>6, <2>7, <2>8 DEF Divided, Inside
<1> QED
  BY <1>5, <1>6 DEF pushed

(* Between paragraphs there is nothing to divide.                          *)
LEMMA GapDivides ==
  ASSUME NEW content \in Seq(Int), NEW list, NEW front \in Nat, NEW further \in Nat,
         Divided(content, list, front), front <= further,
         \A p \in Paragraphs(content) : p.end <= front \/ further <= p.start
  PROVE  Divided(content, list, further)
<1>1. \A i \in 1 .. Len(list) : list[i].coreEnd <= further
  <2> TAKE i \in 1 .. Len(list)
  <2>1. list[i] \in Records /\ list[i].coreEnd <= front
    BY DEF Divided
  <2> QED
    BY <2>1 DEF Records
<1>2. \A p \in Paragraphs(content) : p.start \in Nat /\ p.end \in Nat
  BY ParagraphsApart
<1>3. \A k \in 0 .. further - 1 :
        (\E p \in Paragraphs(content) : p.start <= k /\ k < p.end) => k \in 0 .. front - 1
  BY <1>2
<1> QED
  BY <1>1, <1>3 DEF Divided

(* An open chunk is made of whole paragraphs.                              *)
LEMMA ParagraphsShow ==
  ASSUME NEW content \in Seq(Int), NEW start \in Nat, NEW coreStart, NEW end \in Nat,
         \E p \in Paragraphs(content) : p.start = start,
         \A p \in Paragraphs(content) : p.start < end => p.end <= end
  PROVE  Shows(content, start, end, coreStart, end)
<1> SUFFICES ASSUME NEW p \in Paragraphs(content), p.start < end, start < p.end
             PROVE  start <= p.start /\ p.end <= end
  BY DEF Shows
<1>1. PICK first \in Paragraphs(content) : first.start = start
  OBVIOUS
<1>2. p.start \in Nat /\ p.end \in Nat
  BY ParagraphsApart
<1>3. p.start < first.start => p.end <= first.start
  BY ParagraphsApart
<1> QED
  BY <1>1, <1>2, <1>3

(* A window of a long paragraph meets no other.                            *)
LEMMA WindowShows ==
  ASSUME NEW content \in Seq(Int), NEW p \in Paragraphs(content),
         NEW cursor \in Nat, NEW core \in Nat, NEW e \in Nat, NEW coreEnd \in Nat,
         p.start <= cursor, e <= p.end,
         cursor = p.start \/ core = cursor + MaxOverlap \div 2,
         e = p.end \/ coreEnd = e - MaxOverlap + MaxOverlap \div 2
  PROVE  Shows(content, cursor, e, core, coreEnd)
<1> SUFFICES ASSUME NEW q \in Paragraphs(content), q.start < e, cursor < q.end PROVE q = p
  BY DEF Shows
<1>1. /\ q.start \in Nat /\ q.end \in Nat /\ p.start \in Nat /\ p.end \in Nat
  BY ParagraphsApart
<1>2. /\ q.start < p.start => q.end <= p.start
      /\ p.start < q.start => p.end <= q.start
      /\ p.start = q.start => p = q
  BY ParagraphsApart
<1> QED
  BY <1>1, <1>2

(* Pushing the open chunk divides the text up to the paragraphs taken.     *)
LEMMA FlushDivides ==
  ASSUME Cutting, window = None
  PROVE  Divided(text, Flushed, position)
<1>1. /\ text \in Seq(Int) /\ Divided(text, chunks, Reached) /\ position \in Nat
      /\ position <= Len(text)
      /\ \A p \in Paragraphs(text) : p.start < position => p.end <= position
  BY DEF Cutting
<1>2. CASE open = None
  BY <1>1, <1>2 DEF Flushed, Reached
<1>3. CASE open # None
  <2>1. /\ open.start \in Nat /\ open.coreStart \in Nat /\ open.end = position
        /\ open.start <= open.coreStart /\ open.coreStart < position
        /\ position - open.start <= HardChunk
        /\ \E p \in Paragraphs(text) : p.start = open.start
    BY <1>3 DEF Cutting, OpenFits
  <2>2. Shows(text, open.start, position, open.coreStart, position)
    BY <1>1, <2>1, ParagraphsShow
  <2>3. Reached = open.coreStart
    BY <1>3 DEF Reached
  <2>4. Flushed = PushChunk(text, chunks, open.start, position, open.coreStart, position)
    BY <1>3, <2>1 DEF Flushed
  <2> QED
    BY <1>1, <2>1, <2>2, <2>3, <2>4, PushDivides
<1> QED
  BY <1>2, <1>3

(* CutParagraph keeps the invariant of the loop.                           *)
LEMMA ParagraphKeeps == Cutting /\ CutParagraph => Cutting'
<1> SUFFICES ASSUME Cutting, CutParagraph PROVE Cutting'
  OBVIOUS
<1> DEFINE p      == NextParagraph(text, position)
           long   == p.end - p.start > HardChunk
           filled == open # None /\ p.end - open.start > TargetChunk
<1>1. /\ window = None /\ p # None /\ text' = text /\ previous' = p /\ position' = p.end
      /\ chunks' = IF long \/ filled THEN Flushed ELSE chunks
      /\ open'   = IF long THEN None
                   ELSE IF filled THEN Opened(OverlapStart(previous, p), p)
                   ELSE IF open = None THEN Opened(p.start, p) ELSE [open EXCEPT !.end = p.end]
      /\ window' = IF long THEN [cursor |-> p.start, core |-> p.start, end |-> p.end] ELSE None
  BY DEF CutParagraph, text
<1>2. /\ text \in Seq(Int) /\ position \in Nat /\ position <= Len(text)
      /\ Divided(text, chunks, Reached)
      /\ \A q \in Paragraphs(text) : q.start < position => q.end <= position
      /\ previous # None => previous \in Paragraphs(text) /\ previous.end <= position
      /\ open # None => OpenFits
  BY DEF Cutting
<1>3. /\ p \in Paragraphs(text) /\ p.start >= position
      /\ \A q \in Paragraphs(text) : q.start >= position => p.start <= q.start
  BY <1>1, <1>2, NextIsFirst
<1>4. \A q \in Paragraphs(text) :
        q \in [start : Nat, end : Nat] /\ q.start < q.end /\ q.end <= Len(text)
  BY <1>2, ParagraphsApart
<1>5. HardChunk \in Nat /\ TargetChunk \in Nat /\ TargetChunk <= HardChunk
  BY SizesAssumption
<1> HIDE DEF p
<1>6. Divided(text, Flushed, p.start)
  <2>1. Divided(text, Flushed, position)
    BY <1>1, FlushDivides
  <2>2. \A q \in Paragraphs(text) : q.end <= position \/ p.start <= q.start
    BY <1>2, <1>3, <1>4
  <2> QED
    BY <1>2, <1>3, <1>4, <2>1, <2>2, GapDivides
<1>7. /\ text' \in Seq(Int) /\ position' \in 0 .. Len(text')
      /\ \A q \in Paragraphs(text') : q.start < position' => q.end <= position'
      /\ previous' # None => previous' \in Paragraphs(text') /\ previous'.end <= position'
  <2>1. \A q \in Paragraphs(text) : q.start < p.end => q.end <= p.end
    <3> TAKE q \in Paragraphs(text)
    <3>1. CASE q.start < p.start
      BY <1>2, <1>3, <1>4, <3>1, ParagraphsApart
    <3>2. CASE q.start = p.start
      BY <1>2, <1>3, <1>4, <3>2, ParagraphsApart
    <3>3. CASE q.start > p.start
      BY <1>2, <1>3, <1>4, <3>3, ParagraphsApart
    <3> QED
      BY <1>3, <1>4, <3>1, <3>2, <3>3
  <2> QED
    BY <1>1, <1>2, <1>3, <1>4, <2>1
<1>8. CASE long
  <2>1. /\ chunks' = Flushed /\ open' = None
        /\ window' = [cursor |-> p.start, core |-> p.start, end |-> p.end]
    BY <1>1, <1>8
  <2>2. window' # None
    <3>1. DOMAIN window' = {"cursor", "core", "end"} /\ DOMAIN None = {"none"}
      BY <2>1 DEF None
    <3> QED
      BY <3>1
  <2>3. WindowFits'
    BY <1>1, <1>3, <1>4, <2>1 DEF WindowFits
  <2>4. Reached' = p.start
    BY <2>1, <2>2 DEF Reached
  <2> QED
    BY <1>1, <1>6, <1>7, <2>1, <2>3, <2>4 DEF Cutting
<1>9. CASE ~long /\ (filled \/ open = None)
  <2> DEFINE first == IF filled THEN OverlapStart(previous, p) ELSE p.start
  <2>1. chunks' = Flushed /\ open' = Opened(first, p) /\ window' = None
    BY <1>1, <1>9 DEF Flushed
  <2>2. /\ first \in Nat /\ first <= p.start /\ p.end - first <= HardChunk
        /\ \E q \in Paragraphs(text) : q.start = first
    <3>1. CASE first = p.start
      BY <1>3, <1>4, <1>5, <1>9, <3>1
    <3>2. CASE first # p.start
      <4>1. previous # None /\ p.end - previous.start <= HardChunk /\ first = previous.start
        BY <3>2 DEF OverlapStart
      <4> QED
        BY <1>2, <1>3, <1>4, <4>1
    <3> QED
      BY <3>1, <3>2
  <2> HIDE DEF first
  <2>3. open' = [start |-> first, end |-> p.end, coreStart |-> p.start]
    BY <2>1 DEF Opened
  <2>4. OpenFits'
    BY <1>1, <1>3, <1>4, <2>2, <2>3 DEF OpenFits
  <2>5. open' # None
    <3>1. DOMAIN open' = {"start", "end", "coreStart"} /\ DOMAIN None = {"none"}
      BY <2>3 DEF None
    <3> QED
      BY <3>1
  <2>6. Reached' = p.start
    BY <2>1, <2>3, <2>5 DEF Reached
  <2> QED
    BY <1>1, <1>6, <1>7, <2>1, <2>4, <2>6 DEF Cutting
<1>10. CASE ~long /\ ~filled /\ open # None
  <2>1. chunks' = chunks /\ open' = [open EXCEPT !.end = p.end] /\ window' = None
    BY <1>1, <1>10
  <2>2. /\ open \in [start : Nat, end : Nat, coreStart : Nat] /\ open.end = position
        /\ open.start <= open.coreStart /\ open.coreStart < open.end
        /\ \E q \in Paragraphs(text) : q.start = open.start
    BY <1>2, <1>10 DEF OpenFits
  <2>3. /\ open' \in [start : Nat, end : Nat, coreStart : Nat]
        /\ open'.start = open.start /\ open'.coreStart = open.coreStart /\ open'.end = p.end
    BY <1>3, <1>4, <2>1, <2>2
  <2>4. open' # None
    <3>1. DOMAIN open' = {"start", "end", "coreStart"} /\ DOMAIN None = {"none"}
      BY <2>3 DEF None
    <3> QED
      BY <3>1
  <2>5. p.end - open.start <= HardChunk
    BY <1>3, <1>4, <1>5, <1>10, <2>2
  <2>6. OpenFits'
    BY <1>1, <1>3, <1>4, <2>2, <2>3, <2>5 DEF OpenFits
  <2>7. Reached' = Reached
    BY <1>1, <1>10, <2>1, <2>3, <2>4 DEF Reached
  <2> QED
    BY <1>1, <1>2, <1>7, <2>1, <2>6, <2>7 DEF Cutting
<1> QED
  BY <1>8, <1>9, <1>10
(* CutWindow keeps it: the next window begins where the core of this one   *)
(* ends, at half an overlap from both.                                     *)
LEMMA WindowKeeps == Cutting /\ CutWindow => Cutting'
<1> SUFFICES ASSUME Cutting, CutWindow PROVE Cutting'
  OBVIOUS
<1> DEFINE e     == SplitLong(text, window.cursor, window.end)
           after == NextWindow(text, window.cursor, e, window.end)
<1>1. /\ text' = text /\ open' = open /\ previous' = previous /\ position' = position
      /\ window # None
      /\ chunks' = PushChunk(text, chunks, window.cursor, e, window.core, after.coreEnd)
      /\ window' = IF e >= window.end THEN None
                   ELSE [window EXCEPT !.cursor = after.next, !.core = after.coreEnd]
  BY DEF CutWindow, text
<1>2. /\ text \in Seq(Int) /\ position \in Nat /\ position <= Len(text)
      /\ Divided(text, chunks, window.core) /\ WindowFits
  BY <1>1 DEF Cutting, Reached
<1>3. /\ open = None /\ window \in [cursor : Nat, core : Nat, end : Nat]
      /\ window.cursor \in Nat /\ window.core \in Nat /\ window.end \in Nat
      /\ window.end = position /\ window.cursor <= window.core /\ window.core < window.end
  BY <1>2 DEF WindowFits
<1>4. PICK p \in Paragraphs(text) :
        /\ p.end = window.end /\ p.start <= window.cursor
        /\ \/ window.cursor = p.start /\ window.core = p.start
           \/ window.core = window.cursor + MaxOverlap \div 2
  BY <1>2 DEF WindowFits
<1>5. /\ e \in Nat /\ window.cursor < e /\ e <= window.end /\ e - window.cursor <= HardChunk
      /\ e < window.end => window.cursor + MaxOverlap + 1 <= e
  BY <1>2, <1>3, SplitBounds
<1> HIDE DEF e
<1>6. IF e >= window.end THEN after.coreEnd = e
      ELSE /\ after.next = e - MaxOverlap /\ window.cursor < after.next
           /\ after.coreEnd = after.next + MaxOverlap \div 2
           /\ after.next \in Nat /\ after.coreEnd \in Nat /\ after.coreEnd <= e
  BY <1>3, <1>5, NextWindowBounds
<1> HIDE DEF after
<1>7. MaxOverlap \in Nat /\ MaxOverlap > 0 /\ MaxOverlap \div 2 \in Nat
      /\ 2 * (MaxOverlap \div 2) <= MaxOverlap /\ MaxOverlap \div 2 < MaxOverlap
  BY SizesAssumption
<1> DEFINE half == MaxOverlap \div 2
<1>8. /\ after.coreEnd \in Nat /\ after.coreEnd <= e /\ window.core < after.coreEnd
      /\ e = window.end \/ after.coreEnd = e - MaxOverlap + half
  <2>1. CASE e >= window.end
    BY <1>3, <1>5, <1>6, <2>1
  <2>2. CASE e < window.end
    <3>1. window.core <= window.cursor + half /\ half \in Nat
      BY <1>3, <1>4, <1>7
    <3>2. window.cursor < after.next /\ after.coreEnd = after.next + half /\ after.next = e - MaxOverlap
          /\ after.next \in Nat /\ after.coreEnd \in Nat /\ after.coreEnd <= e
      BY <1>3, <1>5, <1>6, <2>2
    <3> HIDE DEF half
    <3> QED
      BY <1>3, <1>5, <3>1, <3>2
  <2> QED
    BY <1>3, <1>5, <2>1, <2>2
<1>9. Shows(text, window.cursor, e, window.core, after.coreEnd)
  BY <1>2, <1>3, <1>4, <1>5, <1>8, WindowShows
<1>10. Divided(text, chunks', after.coreEnd)
  BY <1>1, <1>2, <1>3, <1>5, <1>8, <1>9, PushDivides
<1>11. CASE e >= window.end
  <2>1. window' = None /\ open' = None /\ after.coreEnd = position'
    BY <1>1, <1>3, <1>5, <1>6, <1>11
  <2>2. Reached' = after.coreEnd
    BY <2>1 DEF Reached
  <2> QED
    BY <1>1, <1>10, <2>1, <2>2 DEF Cutting
<1>12. CASE e < window.end
  <2>1. window' = [window EXCEPT !.cursor = after.next, !.core = after.coreEnd]
    BY <1>1, <1>3, <1>5, <1>12
  <2>2. after.next \in Nat /\ after.coreEnd = after.next + half /\ window.cursor < after.next
        /\ after.next <= after.coreEnd /\ after.coreEnd < window.end
    <3>1. after.next \in Nat /\ after.coreEnd = after.next + half /\ window.cursor < after.next
      BY <1>3, <1>5, <1>6, <1>12
    <3> QED
      BY <1>3, <1>5, <1>7, <1>8, <1>12, <3>1
  <2>3. /\ window' \in [cursor : Nat, core : Nat, end : Nat]
        /\ window'.cursor = after.next /\ window'.core = after.coreEnd
        /\ window'.end = window.end
    BY <1>3, <1>8, <2>1, <2>2
  <2>4. window' # None
    <3>1. DOMAIN window' = {"cursor", "core", "end"} /\ DOMAIN None = {"none"}
      BY <2>3 DEF None
    <3> QED
      BY <3>1
  <2>5. p.start <= after.next
    BY <1>2, <1>3, <1>4, <2>2, ParagraphsApart
  <2>6. WindowFits'
    BY <1>1, <1>3, <1>4, <2>2, <2>3, <2>5 DEF WindowFits
  <2>7. Reached' = after.coreEnd
    BY <2>3, <2>4 DEF Reached
  <2> QED
    BY <1>1, <1>2, <1>3, <1>10, <2>6, <2>7 DEF Cutting
<1> QED
  BY <1>3, <1>5, <1>11, <1>12

(* EndCut divides the whole text.                                          *)
LEMMA EndDivides == Cutting /\ EndCut => Divided(text, chunks', Len(text))
<1> SUFFICES ASSUME Cutting, EndCut PROVE Divided(text, Flushed, Len(text))
  BY DEF EndCut
<1>1. /\ text \in Seq(Int) /\ position \in Nat /\ position <= Len(text)
      /\ \A p \in Paragraphs(text) : p.start < position => p.end <= position
      /\ window = None /\ NextParagraph(text, position) = None
  BY DEF Cutting, EndCut
<1>2. \A p \in Paragraphs(text) : p.end <= position
  BY <1>1, NextIsFirst
<1>3. Divided(text, Flushed, position)
  BY <1>1, FlushDivides
<1> QED
  BY <1>1, <1>2, <1>3, GapDivides

(* The cutting keeps its invariant.                                        *)
THEOREM CutInvariant == Spec => []CutInv
<1>1. Init => CutInv
  BY DEF Init, CutInv
<1>2. CutInv /\ [Next]_vars => CutInv'
  <2> SUFFICES ASSUME CutInv, [Next]_vars PROVE CutInv'
    OBVIOUS
  <2>1. scenario' = scenario /\ scenario \in Scenarios
    BY DEF CutInv, Next, vars, Read, CutParagraph, CutWindow, EndCut, Analyze, Merge
  <2>2. CASE Read
    <3>1. /\ phase = "read" /\ chunks' = <<>> /\ position' = 0 /\ open' = None
          /\ previous' = None /\ window' = None /\ doc' = Extract(scenario.file)
          /\ phase' = IF doc' = None THEN "failed" ELSE "cut"
      BY <2>2 DEF Read, CutInv, cutting
    <3>2. CASE doc' = None
      BY <2>1, <3>1, <3>2 DEF CutInv
    <3>3. CASE doc' # None
      <4>1. text' \in Seq(Int)
        BY <2>1, <3>1, <3>3, TextsAre DEF text
      <4>2. Divided(text', <<>>, 0)
        BY DEF Divided
      <4>3. Reached' = 0
        BY <3>1 DEF Reached
      <4>4. \A p \in Paragraphs(text') : ~(p.start < 0)
        BY <4>1, ParagraphsApart
      <4>5. Cutting'
        BY <3>1, <4>1, <4>2, <4>3, <4>4 DEF Cutting
      <4> QED
        BY <2>1, <3>1, <3>3, <4>5 DEF CutInv
    <3> QED
      BY <3>2, <3>3
  <2>3. CASE CutParagraph
    <3>1. phase = "cut" /\ phase' = "cut"
      BY <2>3 DEF CutParagraph
    <3> QED
      BY <2>1, <2>3, <3>1, ParagraphKeeps DEF CutInv
  <2>4. CASE CutWindow
    <3>1. phase = "cut" /\ phase' = "cut"
      BY <2>4 DEF CutWindow
    <3> QED
      BY <2>1, <2>4, <3>1, WindowKeeps DEF CutInv
  <2>5. CASE EndCut
    <3>1. phase = "cut" /\ phase' \in {"failed", "analyze"} /\ text' = text
      BY <2>5 DEF EndCut, text
    <3>2. Cutting
      BY <3>1 DEF CutInv
    <3>3. text' \in Seq(Int) /\ Divided(text', chunks', Len(text'))
      BY <2>5, <3>1, <3>2, EndDivides DEF Cutting
    <3> QED
      BY <2>1, <3>1, <3>3 DEF CutInv
  <2>6. CASE Merge \/ \E i \in pending : Analyze(i)
    <3>1. /\ phase = "analyze" /\ phase' \in {"analyze", "failed", "done"}
          /\ text' = text /\ chunks' = chunks
      BY <2>6 DEF Merge, Analyze, text
    <3> QED
      BY <2>1, <3>1 DEF CutInv
  <2>7. CASE UNCHANGED vars
    BY <2>7 DEF CutInv, Cutting, OpenFits, WindowFits, Reached, text, vars, cutting
  <2> QED
    BY <2>2, <2>3, <2>4, <2>5, <2>6, <2>7 DEF Next
<1> QED
  BY <1>1, <1>2, PTL DEF Spec
(* A step of the cutting takes a paragraph, ends a long one, or moves on   *)
(* in it.                                                                  *)
Advances ==
  \/ position < position' /\ position' <= Len(text)
  \/ position' = position /\ window # None /\ window' = None
  \/ /\ position' = position /\ window # None /\ window' # None
     /\ window.cursor < window'.cursor /\ window'.cursor < window'.end /\ window'.end = window.end

CuttingAdvances == [][phase = "cut" /\ phase' = "cut" => Advances]_vars

LEMMA ParagraphAdvances == Cutting /\ CutParagraph => Advances
<1> SUFFICES ASSUME Cutting, CutParagraph PROVE Advances
  OBVIOUS
<1> DEFINE p == NextParagraph(text, position)
<1>1. text \in Seq(Int) /\ position \in Nat /\ p # None /\ position' = p.end
  BY DEF Cutting, CutParagraph
<1>2. p \in Paragraphs(text) /\ p.start >= position
  BY <1>1, NextIsFirst
<1>3. p.start \in Nat /\ p.end \in Nat /\ p.start < p.end /\ p.end <= Len(text)
  BY <1>1, <1>2, ParagraphsApart
<1> HIDE DEF p
<1>4. position < p.end
  BY <1>1, <1>2, <1>3
<1> QED
  BY <1>1, <1>3, <1>4 DEF Advances

LEMMA WindowAdvances == Cutting /\ CutWindow => Advances
<1> SUFFICES ASSUME Cutting, CutWindow PROVE Advances
  OBVIOUS
<1> DEFINE e     == SplitLong(text, window.cursor, window.end)
           after == NextWindow(text, window.cursor, e, window.end)
<1>1. /\ position' = position /\ window # None
      /\ window' = IF e >= window.end THEN None
                   ELSE [window EXCEPT !.cursor = after.next, !.core = after.coreEnd]
  BY DEF CutWindow
<1>2. /\ text \in Seq(Int) /\ position \in Nat /\ position <= Len(text) /\ WindowFits
  BY <1>1 DEF Cutting
<1>3. /\ window \in [cursor : Nat, core : Nat, end : Nat]
      /\ window.cursor \in Nat /\ window.end \in Nat /\ window.end = position
      /\ window.cursor <= window.core /\ window.core < window.end /\ window.core \in Nat
  BY <1>2 DEF WindowFits
<1>4. /\ e \in Nat /\ window.cursor < e /\ e <= window.end
      /\ e < window.end => window.cursor + MaxOverlap + 1 <= e
  BY <1>2, <1>3, SplitBounds
<1> HIDE DEF e
<1>5. CASE e >= window.end
  BY <1>1, <1>5 DEF Advances
<1>6. CASE e < window.end
  <2>1. /\ after.next = e - MaxOverlap /\ window.cursor < after.next /\ after.next \in Nat
    BY <1>3, <1>4, <1>6, NextWindowBounds
  <2> HIDE DEF after
  <2>2. window' = [window EXCEPT !.cursor = after.next, !.core = after.coreEnd]
    BY <1>1, <1>3, <1>4, <1>6
  <2>3. window'.cursor = after.next /\ window'.end = window.end
    BY <1>3, <2>2
  <2>4. window' # None
    <3>1. DOMAIN window' = {"cursor", "core", "end"} /\ DOMAIN None = {"none"}
      BY <1>3, <2>2 DEF None
    <3> QED
      BY <3>1
  <2>5. after.next < window.end
    BY <1>3, <1>4, <1>6, <2>1, SizesAssumption
  <2> QED
    BY <1>1, <2>1, <2>3, <2>4, <2>5 DEF Advances
<1> QED
  BY <1>3, <1>4, <1>5, <1>6

(* chunk_text comes to an end: no window starts where the one before it    *)
(* did, although each repeats an overlap of the one before, and no         *)
(* paragraph is taken twice.                                               *)
THEOREM CuttingMovesOn == Spec => CuttingAdvances
<1>1. CutInv /\ [Next]_vars => [phase = "cut" /\ phase' = "cut" => Advances]_vars
  <2> SUFFICES ASSUME CutInv, Next, phase = "cut", phase' = "cut" PROVE Advances
    OBVIOUS
  <2>1. Cutting
    BY DEF CutInv
  <2>2. CutParagraph \/ CutWindow
    <3>1. ~Read /\ ~Merge /\ ~\E i \in pending : Analyze(i)
      BY DEF Read, Merge, Analyze
    <3>2. ~EndCut
      BY DEF EndCut
    <3> QED
      BY <3>1, <3>2 DEF Next
  <2> QED
    BY <2>1, <2>2, ParagraphAdvances, WindowAdvances
<1> QED
  BY <1>1, CutInvariant, PTL DEF Spec, CuttingAdvances
-----------------------------------------------------------------------------
(* What the division of the text means                                     *)

(* A position in a paragraph has one owner, unless only blank quotes have  *)
(* their middle there; then it has at most one.                            *)
LEMMA OneOwner ==
  ASSUME text \in Seq(Int), Divided(text, chunks, Len(text)), NEW k \in Nat,
         NEW p \in Paragraphs(text), p.start <= k, k < p.end
  PROVE  /\ Owners(k) = {} \/ \E i \in DOMAIN chunks : Owners(k) = {i}
         /\ Owners(k) = {} => Void(text, k)
<1>1. /\ chunks \in Seq(Records) /\ Len(chunks) \in Nat /\ DOMAIN chunks = 1 .. Len(chunks)
      /\ \A i \in 1 .. Len(chunks) : chunks[i] \in Records
      /\ \A i, j \in 1 .. Len(chunks) : i < j => chunks[i].coreEnd <= chunks[j].coreStart
  BY DEF Divided
<1>2. Owners(k) = {i \in 1 .. Len(chunks) : InCore(chunks[i], k)}
  BY <1>1 DEF Owners, InCore
<1>3. \A i, j \in Owners(k) : i = j
  <2> SUFFICES ASSUME NEW i \in Owners(k), NEW j \in Owners(k), i < j PROVE FALSE
    BY <1>1, <1>2
  <2>1. chunks[i] \in Records /\ chunks[j] \in Records
    BY <1>1, <1>2
  <2>2. chunks[i].coreEnd \in Nat /\ chunks[j].coreStart \in Nat
    BY <2>1 DEF Records
  <2>3. k < chunks[i].coreEnd /\ chunks[j].coreStart <= k
    BY <1>2 DEF InCore
  <2>4. chunks[i].coreEnd <= chunks[j].coreStart
    BY <1>1, <1>2
  <2> QED
    BY <2>2, <2>3, <2>4
<1>4. Owners(k) = {} => Void(text, k)
  <2>1. k \in 0 .. Len(text) - 1
    BY ParagraphsApart
  <2> QED
    BY <1>2, <2>1 DEF Divided
<1> QED
  BY <1>1, <1>2, <1>3, <1>4

LEMMA SizeOfOwners ==
  ASSUME NEW S, NEW T, S = {} \/ \E i \in T : S = {i}
  PROVE  Cardinality(S) <= 1 /\ (S # {} => Cardinality(S) = 1)
<1>1. Cardinality({}) = 0
  BY FS_EmptySet
<1>2. CASE S = {}
  BY <1>1, <1>2
<1>3. CASE S # {}
  <2>1. PICK i \in T : S = {i}
    BY <1>3
  <2>2. Cardinality(S) = 1
    BY <2>1, FS_Singleton
  <2> QED
    BY <2>2
<1> QED
  BY <1>2, <1>3

LEMMA DivisionFits == CutInv => ChunksFit
<1> SUFFICES ASSUME CutInv, JustCut, NEW i \in DOMAIN chunks
             PROVE  LET c == chunks[i]
                    IN /\ 0 <= c.start /\ c.end <= Len(text) /\ c.end - c.start <= HardChunk
                       /\ c.start <= c.coreStart /\ c.coreStart < c.coreEnd
                       /\ c.coreEnd <= c.end
                       /\ i > 1 => chunks[i - 1].coreEnd <= c.coreStart
  BY DEF ChunksFit
<1>1. /\ chunks \in Seq(Records) /\ i \in 1 .. Len(chunks) /\ Fits(text, chunks[i])
      /\ \A n, m \in 1 .. Len(chunks) : n < m => chunks[n].coreEnd <= chunks[m].coreStart
  BY DEF CutInv, JustCut, Divided
<1>2. chunks[i].start \in Nat
  <2>1. chunks[i] \in Records
    BY <1>1
  <2> QED
    BY <2>1 DEF Records
<1>3. i > 1 => i - 1 \in 1 .. Len(chunks) /\ i - 1 < i
  BY <1>1
<1> QED
  BY <1>1, <1>2, <1>3 DEF Fits

LEMMA DivisionOwns == CutInv => EveryCharacterOwned
<1> SUFFICES ASSUME CutInv, JustCut, NEW p \in Paragraphs(text), NEW k \in p.start .. p.end - 1
             PROVE  IF Blank(Sub(text, k, k + 1)) THEN Cardinality(Owners(k)) <= 1
                                                  ELSE Cardinality(Owners(k)) = 1
  BY DEF EveryCharacterOwned
<1>1. text \in Seq(Int) /\ Divided(text, chunks, Len(text))
  BY DEF CutInv, JustCut
<1>2. p.start \in Nat /\ p.end \in Nat /\ p.end <= Len(text)
  BY <1>1, ParagraphsApart
<1>3. k \in Nat /\ p.start <= k /\ k < p.end
  BY <1>2
<1>4. /\ Owners(k) = {} \/ \E i \in DOMAIN chunks : Owners(k) = {i}
      /\ Owners(k) = {} => Void(text, k)
  BY <1>1, <1>3, OneOwner
<1>5. Cardinality(Owners(k)) <= 1 /\ (Owners(k) # {} => Cardinality(Owners(k)) = 1)
  BY <1>4, SizeOfOwners
<1>6. Void(text, k) => Blank(Sub(text, k, k + 1))
  <2>1. k \in 0 .. Len(text) /\ k + 1 \in 0 .. Len(text) /\ k + 1 - k = 1
    BY <1>1, <1>2, <1>3
  <2>2. Middle(k, k + 1) = k
    BY <1>3, <2>1 DEF Middle
  <2>3. ShortQuote(p, k, k + 1)
    BY <1>2, <1>3, <2>1, SizesAssumption DEF ShortQuote
  <2>4. Void(text, k) => BlankIn(text, k, k + 1)
    BY <2>1, <2>2, <2>3 DEF Void
  <2> QED
    BY <1>1, <1>3, <2>1, <2>4, BlankPart
<1> QED
  BY <1>4, <1>5, <1>6

LEMMA DivisionSees == CutInv => ShortQuotesSeen
<1> SUFFICES ASSUME CutInv, JustCut, NEW p \in Paragraphs(text),
                    NEW a \in p.start .. p.end - 1, NEW n \in 1 .. MaxOverlap,
                    Covers(p, [start |-> a, end |-> a + n]), ~Blank(Sub(text, a, a + n))
             PROVE  LET range == [start |-> a, end |-> a + n]
                    IN /\ Cardinality({i \in DOMAIN chunks : Accepted(chunks[i], range)}) = 1
                       /\ \A i \in DOMAIN chunks :
                            Accepted(chunks[i], range) => Covers(chunks[i], range)
  BY DEF ShortQuotesSeen
<1> DEFINE range == [start |-> a, end |-> a + n]
           b     == a + n
           mid   == Middle(a, b)
<1>1. text \in Seq(Int) /\ Divided(text, chunks, Len(text))
  BY DEF CutInv, JustCut
<1>2. p.start \in Nat /\ p.end \in Nat /\ p.end <= Len(text)
  BY <1>1, ParagraphsApart
<1>3. /\ a \in 0 .. Len(text) /\ b \in 0 .. Len(text) /\ a < b /\ b - a <= MaxOverlap
      /\ p.start <= a /\ b <= p.end
  <2>1. p.start <= a /\ b <= p.end
    BY DEF Covers
  <2> DEFINE first == p.start
             last  == p.end
             all   == Len(text)
  <2>2. first \in Nat /\ last \in Nat /\ all \in Nat /\ last <= all /\ a \in first .. last - 1
    BY <1>1, <1>2
  <2>3. n \in 1 .. MaxOverlap /\ MaxOverlap \in Nat /\ first <= a /\ b <= last
    BY <2>1, SizesAssumption
  <2> HIDE DEF first, last, all
  <2>4. a \in 0 .. all /\ b \in 0 .. all /\ a < b /\ b - a <= MaxOverlap
    BY <2>2, <2>3
  <2> QED
    BY <2>1, <2>4 DEF all
<1>4. ShortQuote(p, a, b)
  BY <1>3 DEF ShortQuote
<1>5. mid \in Nat /\ p.start <= mid /\ mid < p.end
  <2>1. a \in Nat /\ b \in Nat
    BY <1>3
  <2> HIDE DEF b
  <2>2. mid \in Nat /\ a <= mid /\ mid < b
    BY <1>3, <2>1, MiddleInside
  <2> HIDE DEF mid
  <2> QED
    BY <1>2, <1>3, <2>1, <2>2
<1>6. \A i \in DOMAIN chunks : Accepted(chunks[i], range) <=> InCore(chunks[i], mid)
  BY DEF Accepted, InCore, Middle
<1>7. {i \in DOMAIN chunks : Accepted(chunks[i], range)} = Owners(mid)
  BY <1>6 DEF Owners, InCore
<1>8. ~Void(text, mid)
  <2>1. Void(text, mid) => BlankIn(text, a, b)
    BY <1>3, <1>4 DEF Void
  <2>2. a \in Nat /\ b \in Nat /\ b <= Len(text)
    BY <1>1, <1>3
  <2>3. ~BlankIn(text, a, b)
    BY <1>1, <2>2, BlankPart
  <2> QED
    BY <2>1, <2>3
<1>9. Cardinality({i \in DOMAIN chunks : Accepted(chunks[i], range)}) = 1
  <2>1. /\ Owners(mid) = {} \/ \E i \in DOMAIN chunks : Owners(mid) = {i}
        /\ Owners(mid) # {}
    <3> HIDE DEF mid
    <3> QED
      BY <1>1, <1>5, <1>8, OneOwner
  <2> QED
    <3> HIDE DEF mid, range
    <3> QED
      BY <1>7, <2>1, SizeOfOwners
<1>10. ASSUME NEW i \in DOMAIN chunks, Accepted(chunks[i], range)
       PROVE  Covers(chunks[i], range)
  <2>1. /\ Fits(text, chunks[i])
    BY <1>1 DEF Divided
  <2>2. chunks[i].coreStart <= mid /\ mid < chunks[i].coreEnd
    BY <1>6, <1>10 DEF InCore
  <2>3. chunks[i].start <= a /\ b <= chunks[i].end
    <3>1. /\ chunks[i].start \in Nat /\ chunks[i].end \in Nat
          /\ chunks[i].coreStart \in Nat /\ chunks[i].coreEnd \in Nat
      <4>1. chunks[i] \in Records
        BY <1>1 DEF Divided
      <4> QED
        BY <4>1 DEF Records
    <3>2. /\ chunks[i].start <= chunks[i].coreStart /\ chunks[i].coreEnd <= chunks[i].end
          /\ Shows(text, chunks[i].start, chunks[i].end, chunks[i].coreStart, chunks[i].coreEnd)
      BY <2>1 DEF Fits
    <3> DEFINE c == chunks[i]
    <3>3. /\ c.start \in Nat /\ c.end \in Nat /\ c.coreStart \in Nat /\ c.coreEnd \in Nat
          /\ c.start <= c.coreStart /\ c.coreEnd <= c.end
          /\ Shows(text, c.start, c.end, c.coreStart, c.coreEnd)
          /\ c.coreStart <= Middle(a, b) /\ Middle(a, b) < c.coreEnd
      BY <2>2, <3>1, <3>2
    <3> HIDE DEF c, b, mid, range
    <3>4. c.start <= a /\ b <= c.end
      <4>1. text \in Seq(Int) /\ a \in 0 .. Len(text) /\ b \in 0 .. Len(text)
            /\ ShortQuote(p, a, b)
        BY <1>1, <1>3, <1>4
      <4> DEFINE lo == c.start
                 hi == c.end
                 from == c.coreStart
                 to == c.coreEnd
      <4>2. /\ lo \in Nat /\ hi \in Nat /\ from \in Nat /\ to \in Nat /\ lo <= from /\ to <= hi
            /\ Shows(text, lo, hi, from, to) /\ from <= Middle(a, b) /\ Middle(a, b) < to
        BY <3>3
      <4> HIDE DEF lo, hi, from, to
      <4>3. lo <= a /\ b <= hi
        BY <4>1, <4>2, QuotesShown
      <4> QED
        BY <4>3 DEF lo, hi
    <3> QED
      BY <3>4 DEF c, b
  <2> QED
    BY <2>3 DEF Covers
<1> QED
  BY <1>9, <1>10

(* Wherever long paragraphs are split, short ones joined and context is    *)
(* repeated, the chunks carry the whole text within the hard limit, and    *)
(* each character and each short quote of a paragraph is in one core.      *)
THEOREM TextIsCovered == Spec => []ChunksCoverText
<1>1. CutInv => ChunksCoverText
  BY DivisionFits, DivisionOwns, DivisionSees DEF ChunksCoverText
<1> QED
  BY <1>1, CutInvariant, PTL
-----------------------------------------------------------------------------
(* Sorting                                                                 *)

(* What the code's sort expects of its keys: a strict weak order.          *)
Orders(before, n) ==
  /\ \A i \in 1 .. n : <<i, i>> \notin before
  /\ \A i, j, k \in 1 .. n : <<i, j>> \in before /\ <<j, k>> \in before => <<i, k>> \in before
  /\ \A i, j, k \in 1 .. n : <<i, k>> \in before => <<i, j>> \in before \/ <<j, k>> \in before

LEMMA PrecedesTotally ==
  ASSUME NEW n \in Nat, NEW before, Orders(before, n)
  PROVE  /\ \A i \in 1 .. n : ~Precedes(before, i, i)
         /\ \A i, j \in 1 .. n : i # j => Precedes(before, i, j) \/ Precedes(before, j, i)
         /\ \A i, j, k \in 1 .. n :
              Precedes(before, i, j) /\ Precedes(before, j, k) => Precedes(before, i, k)
<1>1. \A i, j \in 1 .. n : <<i, j>> \in before => <<j, i>> \notin before
  BY DEF Orders
<1>2. \A i, j \in 1 .. n : Precedes(before, i, j) => <<j, i>> \notin before
  BY <1>1 DEF Precedes
<1>3. \A i, j \in 1 .. n : i # j => Precedes(before, i, j) \/ Precedes(before, j, i)
  BY <1>1 DEF Precedes
<1>4. \A i \in 1 .. n : ~Precedes(before, i, i)
  <2> TAKE i \in 1 .. n
  <2>1. ~(i < i) /\ <<i, i>> \notin before
    BY DEF Orders
  <2> QED
    BY <2>1 DEF Precedes
<1>5. ASSUME NEW i \in 1 .. n, NEW j \in 1 .. n, NEW k \in 1 .. n,
             Precedes(before, i, j), Precedes(before, j, k)
      PROVE  Precedes(before, i, k)
  <2>1. <<j, i>> \notin before /\ <<k, j>> \notin before
    BY <1>2, <1>5
  <2>2. <<k, i>> \notin before
    BY <2>1 DEF Orders
  <2>3. <<i, j>> \in before => <<i, k>> \in before
    BY <2>1 DEF Orders
  <2>4. <<j, k>> \in before => <<i, k>> \in before
    BY <2>1 DEF Orders
  <2>5. i < j /\ j < k => i < k
    OBVIOUS
  <2> QED
    BY <1>5, <2>2, <2>3, <2>4, <2>5 DEF Precedes
<1> QED
  BY <1>3, <1>4, <1>5

(* The place of an item is one past the items that precede it.             *)
RankIn(before, n, i) == 1 + Cardinality({k \in 1 .. n : Precedes(before, k, i)})

LEMMA RanksAreNumbers ==
  ASSUME NEW n \in Nat, NEW before, Orders(before, n)
  PROVE  /\ \A i \in 1 .. n : RankIn(before, n, i) \in 1 .. n
         /\ \A i, j \in 1 .. n :
              Precedes(before, i, j) => RankIn(before, n, i) < RankIn(before, n, j)
         /\ \A i, j \in 1 .. n : RankIn(before, n, i) = RankIn(before, n, j) => i = j
<1> DEFINE ahead(i) == {k \in 1 .. n : Precedes(before, k, i)}
<1>1. IsFiniteSet(1 .. n) /\ Cardinality(1 .. n) = n
  <2>1. 1 \in Int /\ n \in Int /\ (1 > n => n = 0) /\ n - 1 + 1 = n
    OBVIOUS
  <2> QED
    BY <2>1, FS_Interval
<1>2. \A i \in 1 .. n : ahead(i) \subseteq 1 .. n /\ i \notin ahead(i)
  BY PrecedesTotally
<1>3. \A i \in 1 .. n : IsFiniteSet(ahead(i)) /\ Cardinality(ahead(i)) \in Nat
  BY <1>1, <1>2, FS_Subset, FS_CardinalityType
<1>4. ASSUME NEW S, NEW T, IsFiniteSet(T), S \subseteq T, NEW x \in T, x \notin S
      PROVE  Cardinality(S) + 1 <= Cardinality(T)
  <2>1. S \subseteq T \ {x}
    BY <1>4
  <2>2. IsFiniteSet(T \ {x}) /\ Cardinality(T \ {x}) = Cardinality(T) - 1
    BY <1>4, FS_RemoveElement
  <2>3. IsFiniteSet(S) /\ Cardinality(S) <= Cardinality(T \ {x})
    BY <2>1, <2>2, FS_Subset
  <2>4. Cardinality(S) \in Nat /\ Cardinality(T) \in Nat
    BY <1>4, <2>3, FS_CardinalityType
  <2> QED
    BY <2>2, <2>3, <2>4
<1> HIDE DEF ahead
<1>5. \A i \in 1 .. n : RankIn(before, n, i) = 1 + Cardinality(ahead(i))
  BY DEF RankIn, ahead
<1>6. \A i \in 1 .. n : RankIn(before, n, i) \in 1 .. n
  <2> TAKE i \in 1 .. n
  <2>1. Cardinality(ahead(i)) + 1 <= n
    BY <1>1, <1>2, <1>4
  <2> QED
    BY <1>3, <1>5, <2>1
<1>7. ASSUME NEW i \in 1 .. n, NEW j \in 1 .. n, Precedes(before, i, j)
      PROVE  RankIn(before, n, i) < RankIn(before, n, j)
  <2>1. ahead(i) \subseteq ahead(j) /\ i \in ahead(j) /\ i \notin ahead(i)
    BY <1>2, <1>7, PrecedesTotally DEF ahead
  <2>2. Cardinality(ahead(i)) + 1 <= Cardinality(ahead(j))
    BY <1>3, <1>4, <2>1
  <2> QED
    BY <1>3, <1>5, <2>2
<1>8. ASSUME NEW i \in 1 .. n, NEW j \in 1 .. n, RankIn(before, n, i) = RankIn(before, n, j)
      PROVE  i = j
  <2> SUFFICES ASSUME i # j PROVE FALSE
    OBVIOUS
  <2>1. Precedes(before, i, j) \/ Precedes(before, j, i)
    BY PrecedesTotally
  <2> QED
    BY <1>6, <1>7, <1>8, <2>1
<1> QED
  BY <1>6, <1>7, <1>8

(* The stable sort permutes the issues, and none comes before one that     *)
(* stands ahead of it.                                                     *)
Permutes(sorted, list, before, n, at) ==
  /\ sorted = [m \in 1 .. n |-> list[at[m]]]
  /\ \A i, j \in 1 .. n : at[i] = at[j] => i = j
  /\ \A i \in 1 .. n : \E m \in 1 .. n : at[m] = i
  /\ \A i, j \in 1 .. n : i < j => <<at[j], at[i]>> \notin before

LEMMA StableSortSorts ==
  ASSUME NEW n \in Nat, NEW list, DOMAIN list = 1 .. n, NEW before, Orders(before, n)
  PROVE  \E at \in [1 .. n -> 1 .. n] : Permutes(StableSort(list, before), list, before, n, at)
<1> DEFINE rank == [i \in 1 .. n |-> RankIn(before, n, i)]
           at   == [m \in 1 .. n |-> CHOOSE i \in 1 .. n : RankIn(before, n, i) = m]
<1>1. /\ rank \in [1 .. n -> 1 .. n]
      /\ \A i, j \in 1 .. n : rank[i] = rank[j] => i = j
      /\ \A i, j \in 1 .. n : Precedes(before, i, j) => rank[i] < rank[j]
  BY RanksAreNumbers
<1>2. \A m \in 1 .. n : \E i \in 1 .. n : rank[i] = m
  <2>1. IsFiniteSet(1 .. n)
    BY FS_Interval
  <2>2. rank \in Injection(1 .. n, 1 .. n)
    BY <1>1 DEF Injection, IsInjective
  <2>3. rank \in Surjection(1 .. n, 1 .. n)
    <3> HIDE DEF rank
    <3> QED
      BY <2>1, <2>2, FS_Injection
  <2> HIDE DEF rank
  <2> QED
    BY <2>3 DEF Surjection
<1>3. \A m \in 1 .. n : at[m] \in 1 .. n /\ rank[at[m]] = m
  BY <1>2
<1>4. StableSort(list, before) = [m \in 1 .. n |-> list[at[m]]]
  BY DEF StableSort, RankIn
<1> HIDE DEF rank, at
<1>5. at \in [1 .. n -> 1 .. n]
  BY <1>3 DEF at
<1>6. \A i, j \in 1 .. n : at[i] = at[j] => i = j
  BY <1>3
<1>7. \A i \in 1 .. n : \E m \in 1 .. n : at[m] = i
  <2> TAKE i \in 1 .. n
  <2>1. rank[i] \in 1 .. n
    BY <1>1
  <2>2. at[rank[i]] = i
    BY <1>1, <1>3, <2>1
  <2> QED
    BY <2>1, <2>2
<1>8. ASSUME NEW i \in 1 .. n, NEW j \in 1 .. n, i < j PROVE <<at[j], at[i]>> \notin before
  <2>1. <<at[j], at[i]>> \in before => Precedes(before, at[j], at[i])
    BY DEF Precedes
  <2>2. ~Precedes(before, at[j], at[i])
    BY <1>1, <1>3, <1>8
  <2> QED
    BY <2>1, <2>2
<1>9. Permutes(StableSort(list, before), list, before, n, at)
  BY <1>4, <1>6, <1>7, <1>8 DEF Permutes
<1> QED
  BY <1>5, <1>9
-----------------------------------------------------------------------------
(* Merging                                                                 *)

(* What the orders and the merge read of an issue.                         *)
Sortable(x) ==
  /\ x.start \in Int /\ x.end \in Int /\ x.start < x.end /\ x.confidence \in Int
  /\ x.class.category \in DOMAIN CategoryRank

LEMMA RangesOrder ==
  ASSUME NEW n \in Nat, NEW list, DOMAIN list = 1 .. n,
         \A i \in 1 .. n : Sortable(list[i])
  PROVE  Orders(ByRange(list), n)
<1> DEFINE a(i) == list[i].start
           b(i) == list[i].end
           less(i, j) == a(i) < a(j) \/ (a(i) = a(j) /\ b(i) < b(j))
<1>1. \A i \in 1 .. n : a(i) \in Int /\ b(i) \in Int
  BY DEF Sortable
<1>2. \A i, j \in 1 .. n : <<i, j>> \in ByRange(list) <=> less(i, j)
  BY DEF ByRange
<1> HIDE DEF a, b
<1>3. \A i \in 1 .. n : ~less(i, i)
  BY <1>1
<1>4. \A i, j, k \in 1 .. n : less(i, j) /\ less(j, k) => less(i, k)
  BY <1>1
<1>5. \A i, j, k \in 1 .. n : less(i, k) => less(i, j) \/ less(j, k)
  BY <1>1
<1> HIDE DEF less
<1> QED
  BY <1>2, <1>3, <1>4, <1>5 DEF Orders

LEMMA ProblemsOrder ==
  ASSUME NEW n \in Nat, NEW list, DOMAIN list = 1 .. n,
         \A i \in 1 .. n : Sortable(list[i])
  PROVE  Orders(ByProblem(list), n)
<1> DEFINE a(i) == list[i].start
           b(i) == list[i].end
           c(i) == CategoryRank[list[i].class.category]
           d(i) == list[i].confidence
           less(i, j) == \/ a(i) < a(j)
                         \/ a(i) = a(j) /\ b(i) < b(j)
                         \/ a(i) = a(j) /\ b(i) = b(j) /\ c(i) < c(j)
                         \/ a(i) = a(j) /\ b(i) = b(j) /\ c(i) = c(j) /\ d(i) > d(j)
<1>1. \A i \in 1 .. n : a(i) \in Int /\ b(i) \in Int /\ c(i) \in Int /\ d(i) \in Int
  BY DEF Sortable, CategoryRank
<1>2. \A i, j \in 1 .. n :
        list[i].class.category = list[j].class.category <=> c(i) = c(j)
  BY DEF Sortable, CategoryRank
<1>3. \A i, j \in 1 .. n : <<i, j>> \in ByProblem(list) <=> less(i, j)
  BY <1>2 DEF ByProblem, SortedBefore
<1> HIDE DEF a, b, c, d
<1>4. \A i \in 1 .. n : ~less(i, i)
  BY <1>1
<1>5. \A i, j, k \in 1 .. n : less(i, j) /\ less(j, k) => less(i, k)
  <2> SUFFICES ASSUME NEW i \in 1 .. n, NEW j \in 1 .. n, NEW k \in 1 .. n,
                      less(i, j), less(j, k)
               PROVE  less(i, k)
    OBVIOUS
  <2>1. \A x \in {i, j, k} : a(x) \in Int /\ b(x) \in Int /\ c(x) \in Int /\ d(x) \in Int
    BY <1>1
  <2> QED
    BY <2>1
<1>6. \A i, j, k \in 1 .. n : less(i, k) => less(i, j) \/ less(j, k)
  BY <1>1
<1> HIDE DEF less
<1> QED
  BY <1>3, <1>4, <1>5, <1>6 DEF Orders

(* MergeAll takes the issues one by one.                                   *)
Runs(upTo, list) ==
  /\ upTo[0] = <<>>
  /\ \A n \in 1 .. Len(list) : upTo[n] = MergeIssue(upTo[n - 1], list[n])

LEMMA MergeTakesEach ==
  ASSUME NEW S, NEW list \in Seq(S)
  PROVE  \E upTo : Runs(upTo, list) /\ MergeAll(list) = upTo[Len(list)]
<1> DEFINE Taken(f, n) == f = [k \in 0 .. n |-> IF k = 0 THEN <<>> ELSE MergeIssue(f[k - 1], list[k])]
           Ns == {n \in Nat : \E f : Taken(f, n)}
<1>1. 0 \in Ns
  <2> DEFINE f == [k \in 0 .. 0 |-> <<>>]
  <2>1. f = [k \in 0 .. 0 |-> IF k = 0 THEN <<>> ELSE MergeIssue(f[k - 1], list[k])]
    OBVIOUS
  <2> QED
    BY <2>1
<1>2. ASSUME NEW n \in Ns PROVE n + 1 \in Ns
  <2>1. PICK f : Taken(f, n)
    OBVIOUS
  <2> DEFINE g == [k \in 0 .. n + 1 |-> IF k = n + 1 THEN MergeIssue(f[n], list[n + 1]) ELSE f[k]]
  <2>2. n \in Nat
    OBVIOUS
  <2>3. \A k \in 0 .. n : f[k] = IF k = 0 THEN <<>> ELSE MergeIssue(f[k - 1], list[k])
    BY <2>1
  <2>4. \A k \in 0 .. n + 1 :
          g[k] = IF k = 0 THEN <<>> ELSE MergeIssue(g[k - 1], list[k])
    <3> TAKE k \in 0 .. n + 1
    <3>1. CASE k = n + 1
      <4>1. k # 0 /\ k - 1 = n /\ n # n + 1 /\ n \in 0 .. n + 1
        BY <2>2, <3>1
      <4>2. g[k] = MergeIssue(f[n], list[n + 1]) /\ g[n] = f[n]
        BY <3>1, <4>1
      <4> QED
        BY <3>1, <4>1, <4>2
    <3>2. CASE k # n + 1
      <4>1. k \in 0 .. n /\ (k # 0 => k - 1 \in 0 .. n + 1 /\ k - 1 # n + 1)
        BY <2>2, <3>2
      <4>2. g[k] = f[k] /\ (k # 0 => g[k - 1] = f[k - 1])
        BY <3>2, <4>1
      <4> QED
        BY <2>3, <4>1, <4>2
    <3> QED
      BY <3>1, <3>2
  <2>5. DOMAIN g = 0 .. n + 1 /\ g = [k \in 0 .. n + 1 |-> g[k]]
    OBVIOUS
  <2> HIDE DEF g
  <2>6. Taken(g, n + 1)
    BY <2>4, <2>5
  <2> QED
    BY <2>2, <2>6
<1>3. Len(list) \in Ns
  <2> HIDE DEF Ns
  <2>1. ASSUME Nat \ Ns # {} PROVE FALSE
    <3>1. PICK m \in Nat \ Ns : \A k \in Nat \ Ns : m <= k
      BY <2>1, LeastNumber
    <3>2. m # 0 /\ m - 1 \in Nat
      BY <1>1
    <3>3. m - 1 \in Ns
      BY <3>1, <3>2
    <3>4. m - 1 + 1 = m
      BY <3>2
    <3> QED
      BY <1>2, <3>3, <3>4
  <2> QED
    BY <2>1
<1> DEFINE all == CHOOSE f : Taken(f, Len(list))
<1>4. Taken(all, Len(list))
  BY <1>3
<1>5. MergeAll(list) = all[Len(list)]
  BY DEF MergeAll
<1> HIDE DEF all
<1>6. \A k \in 0 .. Len(list) :
        all[k] = IF k = 0 THEN <<>> ELSE MergeIssue(all[k - 1], list[k])
  BY <1>4
<1>7. Len(list) \in Nat
  OBVIOUS
<1>8. 0 \in 0 .. Len(list) /\ \A n \in 1 .. Len(list) : n \in 0 .. Len(list) /\ n # 0
  BY <1>7
<1> QED
  BY <1>5, <1>6, <1>8 DEF Runs

(* What the merge promises of the issues it has taken.                     *)
Apart(merged) ==
  \A i, j \in DOMAIN merged : i # j => ~Duplicates(merged[i], merged[j])

Stands(all, merged, a) ==
  \E i \in DOMAIN merged : merged[i].confidence >= a.confidence /\ Leads(all, a, merged[i])

(* Taking an issue that starts no earlier than those kept.                 *)
LEMMA MergeIssueKeeps ==
  ASSUME NEW S, \A x \in S : Sortable(x),
         NEW merged \in Seq(S), NEW issue \in S, Apart(merged),
         \A i \in DOMAIN merged : merged[i].start <= issue.start
  PROVE  LET next == MergeIssue(merged, issue)
         IN /\ next \in Seq(S) /\ Apart(next)
            /\ \A i \in DOMAIN next : next[i] = issue \/ \E j \in DOMAIN merged : next[i] = merged[j]
            /\ Stands(S, next, issue)
            /\ \A a \in S : Stands(S, merged, a) => Stands(S, next, a)
<1> DEFINE same  == {i \in DOMAIN merged : Duplicates(merged[i], issue)}
           index == Min(same)
           next  == MergeIssue(merged, issue)
<1>1. /\ Len(merged) \in Nat /\ DOMAIN merged = 1 .. Len(merged)
      /\ \A i \in DOMAIN merged : merged[i] \in S /\ Sortable(merged[i])
      /\ Sortable(issue)
  OBVIOUS
<1>2. \A a, b : Duplicates(a, b) <=> Duplicates(b, a)
  BY DEF Duplicates, SameProblem, Overlap
<1>3. \A a \in S : Leads(S, a, a)
  BY DEF Leads
<1>4. CASE same = {}
  <2>1. next = Append(merged, issue)
    BY <1>4 DEF MergeIssue
  <2>2. /\ next \in Seq(S) /\ Len(next) = Len(merged) + 1 /\ DOMAIN next = 1 .. Len(merged) + 1
        /\ next[Len(merged) + 1] = issue /\ \A i \in DOMAIN merged : next[i] = merged[i]
    BY <1>1, <2>1
  <2> HIDE DEF next
  <2>3. \A i \in DOMAIN next : i = Len(merged) + 1 \/ i \in DOMAIN merged
    BY <1>1, <2>2
  <2>4. \A i \in DOMAIN merged : i \in DOMAIN next
    BY <1>1, <2>2
  <2>5. \A i \in DOMAIN merged : ~Duplicates(merged[i], issue)
    BY <1>4
  <2>6. Apart(next)
    <3> SUFFICES ASSUME NEW i \in DOMAIN next, NEW j \in DOMAIN next, i # j
                 PROVE  ~Duplicates(next[i], next[j])
      BY DEF Apart
    <3>1. CASE i \in DOMAIN merged /\ j \in DOMAIN merged
      BY <2>2, <3>1 DEF Apart
    <3>2. CASE i = Len(merged) + 1 /\ j \in DOMAIN merged
      BY <1>2, <2>2, <2>5, <3>2
    <3>3. CASE i \in DOMAIN merged /\ j = Len(merged) + 1
      BY <2>2, <2>5, <3>3
    <3> QED
      BY <2>3, <3>1, <3>2, <3>3
  <2>7. \A i \in DOMAIN next : next[i] = issue \/ \E j \in DOMAIN merged : next[i] = merged[j]
    BY <2>2, <2>3
  <2>8. Stands(S, next, issue)
    <3>1. Len(merged) + 1 \in DOMAIN next
      BY <1>1, <2>2
    <3>2. issue.confidence >= issue.confidence
      BY <1>1 DEF Sortable
    <3> QED
      BY <1>3, <2>2, <3>1, <3>2 DEF Stands
  <2>9. \A a \in S : Stands(S, merged, a) => Stands(S, next, a)
    BY <2>2, <2>4 DEF Stands
  <2> QED
    BY <2>2, <2>6, <2>7, <2>8, <2>9 DEF next
<1>5. CASE same # {}
  <2>1. index \in DOMAIN merged /\ Duplicates(merged[index], issue)
    <3>1. same \in SUBSET Nat
      BY <1>1
    <3>2. index \in same
      <4> HIDE DEF same
      <4> QED
        BY <1>5, <3>1, MinIsLeast
    <3> QED
      BY <3>2
  <2>2. next = IF issue.confidence > merged[index].confidence
               THEN [merged EXCEPT ![index] = issue] ELSE merged
    BY <1>5 DEF MergeIssue
  <2> HIDE DEF next, index, same
  <2>3. CASE issue.confidence > merged[index].confidence
    <3>1. next = [merged EXCEPT ![index] = issue]
      BY <2>2, <2>3
    <3>2. /\ next \in Seq(S) /\ DOMAIN next = DOMAIN merged /\ next[index] = issue
          /\ \A i \in DOMAIN merged : i # index => next[i] = merged[i]
      BY <1>1, <2>1, <3>1
    <3>3. ASSUME NEW j \in DOMAIN merged, j # index PROVE ~Duplicates(merged[j], issue)
      <4> SUFFICES ASSUME Duplicates(merged[j], issue) PROVE FALSE
        OBVIOUS
      <4>1. ~Duplicates(merged[index], merged[j])
        BY <2>1, <3>3 DEF Apart
      <4>2. SameProblem(merged[index], merged[j])
        BY <2>1 DEF Duplicates, SameProblem
      <4>3. Overlap(merged[index], issue) /\ Overlap(merged[j], issue)
        BY <2>1 DEF Duplicates
      <4>4. Overlap(merged[index], merged[j])
        <5> DEFINE x == merged[index]
                   y == merged[j]
        <5>1. /\ x.start \in Int /\ x.end \in Int /\ y.start \in Int /\ y.end \in Int
              /\ issue.start \in Int /\ x.start <= issue.start /\ y.start <= issue.start
          BY <1>1, <2>1 DEF Sortable
        <5>2. issue.start < x.end /\ issue.start < y.end
          BY <4>3 DEF Overlap
        <5> HIDE DEF x, y
        <5>3. x.start < y.end /\ y.start < x.end
          BY <5>1, <5>2
        <5> QED
          BY <5>3 DEF Overlap, x, y
      <4> QED
        BY <4>1, <4>2, <4>4 DEF Duplicates
    <3>4. Apart(next)
      <4> SUFFICES ASSUME NEW i \in DOMAIN merged, NEW j \in DOMAIN merged, i # j
                   PROVE  ~Duplicates(next[i], next[j])
        BY <3>2 DEF Apart
      <4>1. CASE i # index /\ j # index
        BY <3>2, <4>1 DEF Apart
      <4>2. CASE i = index
        BY <1>2, <3>2, <3>3, <4>2
      <4>3. CASE j = index
        BY <3>2, <3>3, <4>3
      <4> QED
        BY <4>1, <4>2, <4>3
    <3>5. \A i \in DOMAIN next : next[i] = issue \/ \E j \in DOMAIN merged : next[i] = merged[j]
      BY <3>2
    <3>6. Stands(S, next, issue)
      <4>1. issue.confidence >= issue.confidence
        BY <1>1 DEF Sortable
      <4> QED
        BY <1>3, <2>1, <3>2, <4>1 DEF Stands
    <3>7. ASSUME NEW a \in S, Sortable(a), Stands(S, merged, a) PROVE Stands(S, next, a)
      <4>1. PICK i \in DOMAIN merged :
              merged[i].confidence >= a.confidence /\ Leads(S, a, merged[i])
        BY <3>7 DEF Stands
      <4>2. CASE i # index
        BY <3>2, <4>1, <4>2 DEF Stands
      <4>3. CASE i = index
        <5>1. Leads(S, a, issue)
          <6> SUFFICES ASSUME NEW within \in SUBSET (S \ {issue}), a \in within
                       PROVE  \E x \in within, y \in S \ within : Duplicates(x, y)
            BY DEF Leads
          <6>1. CASE merged[index] \in within
            BY <2>1, <6>1
          <6>2. CASE merged[index] \notin within
            <7>1. within \in SUBSET (S \ {merged[index]})
              BY <6>2
            <7> QED
              BY <4>1, <4>3, <7>1 DEF Leads
          <6> QED
            BY <6>1, <6>2
        <5>2. issue.confidence >= a.confidence
          <6>1. /\ merged[index].confidence \in Int /\ issue.confidence \in Int
                /\ a.confidence \in Int
            BY <1>1, <2>1, <3>7 DEF Sortable
          <6> QED
            BY <2>3, <4>1, <4>3, <6>1
        <5> QED
          BY <2>1, <3>2, <5>1, <5>2 DEF Stands
      <4> QED
        BY <4>2, <4>3
    <3> QED
      BY <3>2, <3>4, <3>5, <3>6, <3>7 DEF next
  <2>4. CASE ~(issue.confidence > merged[index].confidence)
    <3>1. next = merged
      BY <2>2, <2>4
    <3>2. merged[index].confidence >= issue.confidence
      <4>1. merged[index].confidence \in Int /\ issue.confidence \in Int
        BY <1>1, <2>1 DEF Sortable
      <4> QED
        BY <2>4, <4>1
    <3>3. Leads(S, issue, merged[index])
      <4> SUFFICES ASSUME NEW within \in SUBSET (S \ {merged[index]}), issue \in within
                   PROVE  \E x \in within, y \in S \ within : Duplicates(x, y)
        BY DEF Leads
      <4>1. merged[index] \in S /\ merged[index] \notin within
        BY <1>1, <2>1
      <4> QED
        BY <1>2, <2>1, <4>1
    <3>4. Stands(S, next, issue)
      BY <2>1, <3>1, <3>2, <3>3 DEF Stands
    <3> QED
      BY <3>1, <3>4 DEF next
  <2> QED
    BY <2>3, <2>4
<1> QED
  BY <1>4, <1>5

(* MergeAll of list in order of their starts.                            *)
LEMMA RunKeeps ==
  ASSUME NEW S, \A x \in S : Sortable(x), NEW list \in Seq(S),
         \A i, j \in DOMAIN list : i < j => list[i].start <= list[j].start,
         NEW upTo, Runs(upTo, list)
  PROVE  \A n \in 0 .. Len(list) :
           /\ upTo[n] \in Seq(S) /\ Apart(upTo[n])
           /\ \A i \in DOMAIN upTo[n] : \E j \in 1 .. n : upTo[n][i] = list[j]
           /\ \A j \in 1 .. n : Stands(S, upTo[n], list[j])
<1>1. /\ upTo[0] = <<>>
      /\ \A n \in 1 .. Len(list) : upTo[n] = MergeIssue(upTo[n - 1], list[n])
  BY DEF Runs
<1>2. /\ Len(list) \in Nat /\ DOMAIN list = 1 .. Len(list)
      /\ \A i \in DOMAIN list : list[i] \in S
  OBVIOUS
<1> DEFINE Good(n) == /\ upTo[n] \in Seq(S) /\ Apart(upTo[n])
                      /\ \A i \in DOMAIN upTo[n] : \E j \in 1 .. n : upTo[n][i] = list[j]
                      /\ \A j \in 1 .. n : Stands(S, upTo[n], list[j])
           Bad     == {n \in 0 .. Len(list) : ~Good(n)}
<1>3. Good(0)
  <2>1. upTo[0] \in Seq(S) /\ DOMAIN upTo[0] = {} /\ 1 .. 0 = {}
    BY <1>1
  <2> QED
    BY <2>1 DEF Apart
<1>4. ASSUME NEW n \in 1 .. Len(list), Good(n - 1) PROVE Good(n)
  <2> DEFINE merged == upTo[n - 1]
             issue  == list[n]
  <2>1. n - 1 \in Nat /\ 1 .. n - 1 \subseteq 1 .. n /\ n \in 1 .. n
        /\ 1 .. n \subseteq (1 .. n - 1) \cup {n} /\ 1 .. n \subseteq DOMAIN list
    BY <1>2
  <2>2. /\ merged \in Seq(S) /\ Apart(merged) /\ issue \in S
        /\ upTo[n] = MergeIssue(merged, issue)
    BY <1>1, <1>2, <1>4
  <2>3. \A i \in DOMAIN merged : \E j \in 1 .. n - 1 : merged[i] = list[j]
    BY <1>4
  <2>4. \A j \in 1 .. n - 1 : Stands(S, merged, list[j])
    BY <1>4
  <2>5. \A j \in 1 .. n - 1 : j < n /\ j \in DOMAIN list /\ n \in DOMAIN list
    BY <1>2
  <2> HIDE DEF merged, issue
  <2>6. \A i \in DOMAIN merged : merged[i].start <= issue.start
    BY <2>3, <2>5 DEF issue
  <2>7. /\ upTo[n] \in Seq(S) /\ Apart(upTo[n])
        /\ \A i \in DOMAIN upTo[n] :
             upTo[n][i] = issue \/ \E j \in DOMAIN merged : upTo[n][i] = merged[j]
        /\ Stands(S, upTo[n], issue)
        /\ \A a \in S : Stands(S, merged, a) => Stands(S, upTo[n], a)
    BY <2>2, <2>6, MergeIssueKeeps
  <2>8. \A i \in DOMAIN upTo[n] : \E j \in 1 .. n : upTo[n][i] = list[j]
    BY <2>1, <2>3, <2>7 DEF issue
  <2>9. \A j \in 1 .. n : Stands(S, upTo[n], list[j])
    <3> TAKE j \in 1 .. n
    <3>1. CASE j = n
      BY <2>7, <3>1 DEF issue
    <3>2. CASE j \in 1 .. n - 1
      BY <1>2, <2>4, <2>5, <2>7, <3>2
    <3> QED
      BY <2>1, <3>1, <3>2
  <2> QED
    BY <2>7, <2>8, <2>9
<1>5. Bad = {}
  <2> HIDE DEF Good
  <2> SUFFICES ASSUME Bad # {} PROVE FALSE
    OBVIOUS
  <2>1. Bad \in SUBSET Nat
    OBVIOUS
  <2>2. PICK m \in Bad : \A k \in Bad : m <= k
    <3> HIDE DEF Bad
    <3> QED
      BY <2>1, LeastNumber
  <2>3. m # 0 /\ m \in 1 .. Len(list) /\ m - 1 \in 0 .. Len(list) /\ ~(m <= m - 1)
    BY <1>2, <1>3
  <2>4. Good(m - 1)
    BY <2>2, <2>3
  <2> QED
    BY <1>4, <2>3, <2>4
<1> QED
  <2> HIDE DEF Good
  <2>1. \A n \in 0 .. Len(list) : Good(n)
    BY <1>5
  <2> QED
    BY <2>1 DEF Good

LEMMA MergeAllKeeps ==
  ASSUME NEW S, \A x \in S : Sortable(x), NEW list \in Seq(S),
         \A i, j \in DOMAIN list : i < j => list[i].start <= list[j].start
  PROVE  LET merged == MergeAll(list)
         IN /\ merged \in Seq(S) /\ Apart(merged)
            /\ \A i \in DOMAIN merged : \E j \in DOMAIN list : merged[i] = list[j]
            /\ \A j \in DOMAIN list : Stands(S, merged, list[j])
<1>1. PICK upTo : Runs(upTo, list) /\ MergeAll(list) = upTo[Len(list)]
  BY MergeTakesEach
<1>2. Len(list) \in 0 .. Len(list) /\ DOMAIN list = 1 .. Len(list)
  OBVIOUS
<1>3. /\ upTo[Len(list)] \in Seq(S) /\ Apart(upTo[Len(list)])
      /\ \A i \in DOMAIN upTo[Len(list)] : \E j \in 1 .. Len(list) : upTo[Len(list)][i] = list[j]
      /\ \A j \in 1 .. Len(list) : Stands(S, upTo[Len(list)], list[j])
  BY <1>1, <1>2, RunKeeps
<1> QED
  BY <1>1, <1>2, <1>3

(* deduplicate_issues: no two issues for one problem, in text order, and  *)
(* for every issue one at least as sure.                                   *)
LEMMA Deduplicates ==
  ASSUME NEW S, \A x \in S : Sortable(x), NEW list \in Seq(S)
  PROVE  LET kept == Deduplicate(list)
         IN /\ kept \in Seq(S) /\ Apart(kept)
            /\ \A i, j \in DOMAIN kept : i < j => kept[i].start <= kept[j].start
            /\ \A i \in DOMAIN kept : \E j \in DOMAIN list : kept[i] = list[j]
            /\ \A j \in DOMAIN list : Stands(S, kept, list[j])
<1> DEFINE sorted == StableSort(list, ByProblem(list))
           merged == MergeAll(sorted)
           kept   == Deduplicate(list)
<1>1. /\ Len(list) \in Nat /\ DOMAIN list = 1 .. Len(list)
      /\ \A i \in DOMAIN list : list[i] \in S /\ Sortable(list[i])
  OBVIOUS
<1>2. PICK at \in [1 .. Len(list) -> 1 .. Len(list)] :
        /\ sorted = [m \in 1 .. Len(list) |-> list[at[m]]]
        /\ \A i \in 1 .. Len(list) : \E m \in 1 .. Len(list) : at[m] = i
        /\ \A i, j \in 1 .. Len(list) : i < j => <<at[j], at[i]>> \notin ByProblem(list)
  <2>1. Orders(ByProblem(list), Len(list))
    BY <1>1, ProblemsOrder
  <2>2. \E at \in [1 .. Len(list) -> 1 .. Len(list)] :
          Permutes(StableSort(list, ByProblem(list)), list, ByProblem(list), Len(list), at)
    BY <1>1, <2>1, StableSortSorts
  <2> QED
    BY <2>2 DEF Permutes
<1> HIDE DEF sorted
<1>3. /\ sorted \in Seq(S) /\ DOMAIN sorted = 1 .. Len(list)
      /\ \A m \in 1 .. Len(list) : sorted[m] = list[at[m]]
  <2>1. sorted \in [1 .. Len(list) -> S]
    BY <1>1, <1>2
  <2> QED
    BY <1>1, <1>2, <2>1
<1>4. \A i, j \in DOMAIN sorted : i < j => sorted[i].start <= sorted[j].start
  <2> SUFFICES ASSUME NEW i \in 1 .. Len(list), NEW j \in 1 .. Len(list), i < j
               PROVE  sorted[i].start <= sorted[j].start
    BY <1>3
  <2>1. ~SortedBefore(list[at[j]], list[at[i]])
    BY <1>1, <1>2 DEF ByProblem
  <2>2. sorted[i] = list[at[i]] /\ sorted[j] = list[at[j]] /\ Sortable(sorted[i]) /\ Sortable(sorted[j])
    BY <1>1, <1>3
  <2>3. ~(sorted[j].start < sorted[i].start)
    BY <2>1, <2>2 DEF SortedBefore
  <2> QED
    BY <2>2, <2>3 DEF Sortable
<1>5. /\ merged \in Seq(S) /\ Apart(merged)
      /\ \A i \in DOMAIN merged : \E j \in DOMAIN sorted : merged[i] = sorted[j]
      /\ \A j \in DOMAIN sorted : Stands(S, merged, sorted[j])
  BY <1>3, <1>4, MergeAllKeeps
<1>6. kept = StableSort(merged, ByRange(merged))
  BY DEF Deduplicate, sorted
<1> HIDE DEF merged
<1>7. /\ Len(merged) \in Nat /\ DOMAIN merged = 1 .. Len(merged)
      /\ \A i \in DOMAIN merged : merged[i] \in S /\ Sortable(merged[i])
  BY <1>5
<1>8. PICK to \in [1 .. Len(merged) -> 1 .. Len(merged)] :
        /\ kept = [m \in 1 .. Len(merged) |-> merged[to[m]]]
        /\ \A i, j \in 1 .. Len(merged) : to[i] = to[j] => i = j
        /\ \A i \in 1 .. Len(merged) : \E m \in 1 .. Len(merged) : to[m] = i
        /\ \A i, j \in 1 .. Len(merged) : i < j => <<to[j], to[i]>> \notin ByRange(merged)
  <2>1. Orders(ByRange(merged), Len(merged))
    BY <1>7, RangesOrder
  <2>2. \E to \in [1 .. Len(merged) -> 1 .. Len(merged)] :
          Permutes(StableSort(merged, ByRange(merged)), merged, ByRange(merged), Len(merged), to)
    BY <1>7, <2>1, StableSortSorts
  <2> QED
    BY <2>2, <1>6 DEF Permutes
<1> HIDE DEF kept
<1>9. /\ kept \in Seq(S) /\ DOMAIN kept = 1 .. Len(merged)
      /\ \A m \in 1 .. Len(merged) : kept[m] = merged[to[m]]
  <2>1. kept \in [1 .. Len(merged) -> S]
    BY <1>7, <1>8
  <2> QED
    BY <1>7, <1>8, <2>1
<1>10. Apart(kept)
  <2> SUFFICES ASSUME NEW i \in 1 .. Len(merged), NEW j \in 1 .. Len(merged), i # j
               PROVE  ~Duplicates(kept[i], kept[j])
    BY <1>9 DEF Apart
  <2>1. to[i] \in DOMAIN merged /\ to[j] \in DOMAIN merged /\ to[i] # to[j]
    BY <1>7, <1>8
  <2>2. ~Duplicates(merged[to[i]], merged[to[j]])
    BY <1>5, <2>1 DEF Apart
  <2> QED
    BY <1>9, <2>2
<1>11. ASSUME NEW i \in DOMAIN kept, NEW j \in DOMAIN kept, i < j
       PROVE  kept[i].start <= kept[j].start
  <2>1. i \in 1 .. Len(merged) /\ j \in 1 .. Len(merged) /\ to[i] \in DOMAIN merged /\ to[j] \in DOMAIN merged
    BY <1>7, <1>9
  <2>2. ~(merged[to[j]].start < merged[to[i]].start)
    BY <1>8, <1>11, <2>1 DEF ByRange
  <2>3. Sortable(kept[i]) /\ Sortable(kept[j])
    BY <1>7, <1>9, <2>1
  <2> DEFINE x == kept[i].start
             y == kept[j].start
  <2>4. x \in Int /\ y \in Int
    BY <2>3 DEF Sortable
  <2>5. ~(y < x)
    BY <1>9, <2>1, <2>2
  <2> HIDE DEF x, y
  <2>6. x <= y
    BY <2>4, <2>5
  <2> QED
    BY <2>6 DEF x, y
<1>12. \A i \in DOMAIN kept : \E j \in DOMAIN list : kept[i] = list[j]
  <2> TAKE i \in DOMAIN kept
  <2>1. to[i] \in DOMAIN merged /\ kept[i] = merged[to[i]]
    BY <1>7, <1>8, <1>9
  <2>2. PICK k \in DOMAIN sorted : kept[i] = sorted[k]
    BY <1>5, <2>1
  <2>3. at[k] \in DOMAIN list /\ kept[i] = list[at[k]]
    BY <1>1, <1>2, <1>3, <2>2
  <2> QED
    BY <2>3
<1>13. ASSUME NEW j \in DOMAIN list PROVE Stands(S, kept, list[j])
  <2>1. PICK m \in 1 .. Len(list) : at[m] = j
    BY <1>1, <1>2
  <2>2. Stands(S, merged, list[j])
    BY <1>3, <1>5, <2>1
  <2>3. PICK i \in DOMAIN merged :
          merged[i].confidence >= list[j].confidence /\ Leads(S, list[j], merged[i])
    BY <2>2 DEF Stands
  <2>4. PICK k \in 1 .. Len(merged) : to[k] = i
    BY <1>7, <1>8
  <2> QED
    BY <1>9, <2>3, <2>4 DEF Stands
<1> QED
  BY <1>9, <1>10, <1>11, <1>12, <1>13 DEF kept

-----------------------------------------------------------------------------
(* Where a quote is located                                                *)

LEMMA SubOfSub ==
  ASSUME NEW content \in Seq(Int), NEW a \in Nat, NEW b \in Nat, a <= b, b <= Len(content),
         NEW c \in Nat, NEW d \in Nat, c <= d, d <= b - a
  PROVE  Sub(Sub(content, a, b), c, d) = Sub(content, a + c, a + d)
<1> DEFINE part == Sub(content, a, b)
           s    == Sub(part, c, d)
           t    == Sub(content, a + c, a + d)
<1>1. /\ part \in Seq(Int) /\ Len(part) = b - a
      /\ \A i \in 1 .. b - a : part[i] = content[a + i]
  BY SubItems
<1> HIDE DEF part
<1>2. s \in Seq(Int) /\ Len(s) = d - c /\ \A i \in 1 .. d - c : s[i] = part[c + i]
  BY <1>1, SubItems
<1>3. a + c \in Nat /\ a + d \in Nat /\ a + c <= a + d /\ a + d <= Len(content)
      /\ (a + d) - (a + c) = d - c
  OBVIOUS
<1>4. t \in Seq(Int) /\ Len(t) = d - c /\ \A i \in 1 .. d - c : t[i] = content[(a + c) + i]
  <2> DEFINE lo == a + c
             hi == a + d
  <2>1. lo \in Nat /\ hi \in Nat /\ lo <= hi /\ hi <= Len(content) /\ hi - lo = d - c
    BY <1>3
  <2> HIDE DEF lo, hi
  <2>2. /\ Sub(content, lo, hi) \in Seq(Int) /\ Len(Sub(content, lo, hi)) = hi - lo
        /\ \A i \in 1 .. hi - lo : Sub(content, lo, hi)[i] = content[lo + i]
    BY <2>1, SubItems
  <2> QED
    BY <2>1, <2>2 DEF lo, hi
<1>5. \A i \in 1 .. d - c : c + i \in 1 .. b - a /\ a + (c + i) = (a + c) + i
  OBVIOUS
<1>6. \A i \in 1 .. d - c : s[i] = t[i]
  BY <1>1, <1>2, <1>4, <1>5
<1> HIDE DEF s, t
<1>7. s = t
  BY <1>2, <1>4, <1>6, SameItems
<1> QED
  BY <1>7 DEF s, t, part

(* A context of at most one character fits where it was taken from.        *)
LEMMA ContextFits ==
  ASSUME NEW content \in Seq(Int), NEW a \in Nat, NEW k \in Nat, NEW b \in Nat,
         a <= k, k <= b, b <= Len(content), k - a <= 1
  PROVE  /\ IsSuffix(Sub(content, a, k), Sub(content, 0, k))
         /\ IsPrefix(Sub(content, a, k), Sub(content, a, b))
<1> DEFINE s == Sub(content, a, k)
           t == Sub(content, 0, k)
           u == Sub(content, a, b)
<1>0. k <= Len(content) /\ 0 \in Nat /\ 0 <= k /\ a <= b
  OBVIOUS
<1>1. s \in Seq(Int) /\ Len(s) = k - a /\ \A i \in 1 .. k - a : s[i] = content[a + i]
  BY <1>0, SubItems
<1>2. t \in Seq(Int) /\ Len(t) = k - 0 /\ \A i \in 1 .. k - 0 : t[i] = content[0 + i]
  BY <1>0, SubItems
<1>3. u \in Seq(Int) /\ Len(u) = b - a /\ \A i \in 1 .. b - a : u[i] = content[a + i]
  BY <1>0, SubItems
<1> DEFINE n == k - a
<1>4. n \in {0, 1} /\ n <= k /\ n <= b - a
  OBVIOUS
<1>5. n = 1 => s[1] = content[k] /\ t[k] = content[k] /\ u[1] = content[k]
  <2>1. n = 1 => a + 1 = k /\ 1 \in 1 .. k - a /\ k \in 1 .. k - 0 /\ 1 \in 1 .. b - a
    OBVIOUS
  <2> QED
    BY <1>1, <1>2, <1>3, <2>1
<1>6. Len(s) = n /\ Len(t) = k /\ Len(u) = b - a
  BY <1>1, <1>2, <1>3
<1> HIDE DEF s, t, u
<1>7. IsPrefix(s, u)
  <2>1. CASE n = 0
    <3>1. SubSeq(s, 1, 0) = SubSeq(u, 1, 0)
      BY <1>1, <1>3
    <3> QED
      BY <1>4, <1>6, <2>1, <3>1 DEF IsPrefix
  <2>2. CASE n = 1
    <3>1. SubSeq(s, 1, 1) = SubSeq(u, 1, 1)
      BY <1>1, <1>3, <1>4, <1>5, <1>6, <2>2
    <3> QED
      BY <1>4, <1>6, <2>2, <3>1 DEF IsPrefix
  <2> QED
    BY <1>4, <2>1, <2>2
<1>8. IsSuffix(s, t)
  <2> DEFINE v == Reverse(s)
             w == Reverse(t)
  <2>1. /\ v \in Seq(Int) /\ Len(v) = n /\ w \in Seq(Int) /\ Len(w) = k
        /\ (n = 1 => v[1] = s[1]) /\ (n = 1 => w[1] = t[k])
    <3>1. v = [i \in 1 .. n |-> s[n - i + 1]] /\ w = [i \in 1 .. k |-> t[k - i + 1]]
      BY <1>6 DEF Reverse
    <3>2. \A i \in 1 .. n : n - i + 1 \in 1 .. n
      OBVIOUS
    <3>3. \A i \in 1 .. k : k - i + 1 \in 1 .. k
      OBVIOUS
    <3>4. (\A i \in 1 .. n : s[i] \in Int) /\ (\A i \in 1 .. k : t[i] \in Int)
      BY <1>1, <1>2
    <3>5. v \in [1 .. n -> Int] /\ w \in [1 .. k -> Int]
      BY <3>1, <3>2, <3>3, <3>4
    <3>6. n = 1 => 1 \in 1 .. n /\ n - 1 + 1 = 1 /\ 1 \in 1 .. k /\ k - 1 + 1 = k
      BY <1>4
    <3> HIDE DEF v, w
    <3>7. v \in Seq(Int) /\ Len(v) = n /\ w \in Seq(Int) /\ Len(w) = k
      BY <1>4, <3>5
    <3> QED
      BY <3>1, <3>6, <3>7
  <2> HIDE DEF v, w
  <2>2. IsPrefix(v, w)
    <3>1. CASE n = 0
      <4>1. SubSeq(v, 1, 0) = SubSeq(w, 1, 0)
        BY <2>1
      <4> QED
        BY <1>4, <2>1, <3>1, <4>1 DEF IsPrefix
    <3>2. CASE n = 1
      <4>1. SubSeq(v, 1, 1) = SubSeq(w, 1, 1)
        BY <1>4, <1>5, <2>1, <3>2
      <4> QED
        BY <1>4, <2>1, <3>2, <4>1 DEF IsPrefix
    <3> QED
      BY <1>4, <3>1, <3>2
  <2> QED
    BY <2>2 DEF IsSuffix, v, w
<1> QED
  BY <1>7, <1>8 DEF s, t, u
(* A quote is located where the model read it, or not at all.              *)
LEMMA LocatesAt ==
  ASSUME NEW content \in Seq(Int), NEW lo \in Nat, NEW hi \in Nat, NEW a \in Nat, NEW b \in Nat,
         lo <= a, a < b, b <= hi, hi <= Len(content), NEW before, NEW after,
         before = None \/ before.text = Sub(content, Most(lo, a - 1), a),
         after = None \/ after.text = Sub(content, b, Least(hi, b + 1))
  PROVE  LET found == Locate(Sub(content, lo, hi), Sub(content, a, b), before, after)
         IN found = None \/ found = [at |-> a - lo]
<1> DEFINE part  == Sub(content, lo, hi)
           quote == Sub(content, a, b)
           o     == a - lo
           size  == b - a
           places  == Occurrences(part, quote)
           fitting == {k \in places :
             /\ before = None \/ IsSuffix(before.text, Sub(part, 0, k))
             /\ after = None  \/ IsPrefix(after.text, Sub(part, k + Len(quote), Len(part)))}
<1>1. part \in Seq(Int) /\ Len(part) = hi - lo
  <2>1. lo <= hi
    OBVIOUS
  <2> QED
    BY <2>1, SubItems
<1>2. quote \in Seq(Int) /\ Len(quote) = size /\ size \in Nat
  <2>1. a <= b /\ b <= Len(content) /\ b - a \in Nat
    OBVIOUS
  <2>2. Sub(content, a, b) \in Seq(Int) /\ Len(Sub(content, a, b)) = b - a
    BY <2>1, SubItems
  <2> QED
    BY <2>1, <2>2
<1>3. /\ o \in Nat /\ o + size \in Nat /\ o <= o + size /\ o + size <= hi - lo /\ lo <= hi
      /\ lo + o = a /\ lo + (o + size) = b
  OBVIOUS
<1>4. Sub(part, o, o + size) = quote
  <2> DEFINE d == o + size
  <2>1. d \in Nat /\ o <= d /\ d <= hi - lo /\ lo + d = b
    BY <1>3
  <2> HIDE DEF o, d
  <2>2. Sub(Sub(content, lo, hi), o, d) = Sub(content, lo + o, lo + d)
    BY <1>3, <2>1, SubOfSub
  <2>3. Sub(Sub(content, lo, hi), o, d) = Sub(content, a, b)
    BY <1>3, <2>1, <2>2
  <2> QED
    BY <2>3 DEF d
<1> HIDE DEF part, quote
<1>5. o \in places
  <2>1. o \in 0 .. Len(part) - Len(quote)
    BY <1>1, <1>2, <1>3
  <2>2. Sub(part, o, o + Len(quote)) = quote
    BY <1>2, <1>4
  <2> QED
    BY <2>1, <2>2 DEF Occurrences
<1>6. before = None \/ IsSuffix(before.text, Sub(part, 0, o))
  <2> SUFFICES ASSUME before # None PROVE IsSuffix(before.text, Sub(part, 0, o))
    OBVIOUS
  <2> DEFINE x == Most(lo, a - 1)
             y == x - lo
  <2>1. x \in Nat /\ lo <= x /\ x <= a /\ a - x <= 1
    BY DEF Most
  <2>2. before.text = Sub(content, x, a)
    OBVIOUS
  <2> HIDE DEF x
  <2>3. y \in Nat /\ y <= o /\ o - y <= 1 /\ lo + y = x /\ o <= hi - lo
    BY <2>1
  <2> HIDE DEF y, o
  <2>4. Sub(part, y, o) = Sub(content, x, a)
    <3>1. Sub(Sub(content, lo, hi), y, o) = Sub(content, lo + y, lo + o)
      BY <1>3, <2>3, SubOfSub
    <3> QED
      BY <1>3, <2>3, <3>1 DEF part
  <2>5. IsSuffix(Sub(part, y, o), Sub(part, 0, o))
    <3>1. o \in Nat /\ o <= Len(part) /\ o <= o
      BY <1>1, <1>3, <2>3
    <3> QED
      BY <1>1, <2>3, <3>1, ContextFits
  <2> QED
    BY <2>2, <2>4, <2>5
<1>7. after = None \/ IsPrefix(after.text, Sub(part, o + Len(quote), Len(part)))
  <2> SUFFICES ASSUME after # None
               PROVE  IsPrefix(after.text, Sub(part, o + Len(quote), Len(part)))
    OBVIOUS
  <2> DEFINE x == Least(hi, b + 1)
             y == x - lo
             z == b - lo
             n == hi - lo
  <2>1. x \in Nat /\ b <= x /\ x <= hi /\ x - b <= 1
    BY DEF Least
  <2>2. after.text = Sub(content, b, x)
    OBVIOUS
  <2> HIDE DEF x
  <2>3. /\ y \in Nat /\ z \in Nat /\ z <= y /\ y <= n /\ y - z <= 1 /\ lo + z = b /\ lo + y = x
        /\ n \in Nat /\ o + size = z
    BY <2>1
  <2>4. Len(part) = n /\ o + Len(quote) = z /\ Len(part) <= Len(part)
    BY <1>1, <1>2, <2>3
  <2>5. y <= hi - lo
    BY <2>3
  <2> HIDE DEF y, z, n
  <2>6. Sub(part, z, y) = Sub(content, b, x)
    <3>1. Sub(Sub(content, lo, hi), z, y) = Sub(content, lo + z, lo + y)
      BY <1>3, <2>3, <2>5, SubOfSub
    <3> QED
      BY <2>3, <3>1 DEF part
  <2>7. IsPrefix(Sub(part, z, y), Sub(part, z, n))
    BY <1>1, <2>3, <2>4, ContextFits
  <2> QED
    BY <2>2, <2>4, <2>6, <2>7
<1>8. o \in fitting
  BY <1>5, <1>6, <1>7
<1>9. IsFiniteSet(places) /\ IsFiniteSet(fitting)
  <2>1. IsFiniteSet(0 .. Len(part) - Len(quote))
    <3>1. 0 \in Int /\ Len(part) - Len(quote) \in Int
      BY <1>1, <1>2
    <3> QED
      BY <3>1, FS_Interval
  <2>2. places \subseteq 0 .. Len(part) - Len(quote)
    BY DEF Occurrences
  <2>3. IsFiniteSet(places)
    BY <2>1, <2>2, FS_Subset
  <2>4. fitting \subseteq places
    OBVIOUS
  <2> QED
    BY <2>3, <2>4, FS_Subset
<1> DEFINE found == Locate(part, quote, before, after)
<1>10. found = IF Blank(quote) \/ places = {} THEN None
               ELSE IF Cardinality(places) = 1 THEN [at |-> CHOOSE k \in places : TRUE]
               ELSE IF Cardinality(fitting) = 1 THEN [at |-> CHOOSE k \in fitting : TRUE]
               ELSE None
  BY DEF Locate
<1> HIDE DEF places, fitting, found, o
<1>11. ASSUME NEW T, IsFiniteSet(T), Cardinality(T) = 1, o \in T PROVE (CHOOSE k \in T : TRUE) = o
  <2>1. PICK y : T = {y}
    BY <1>11, FS_Singleton
  <2> QED
    BY <1>11, <2>1
<1>12. Cardinality(places) = 1 => (CHOOSE k \in places : TRUE) = o
  BY <1>5, <1>9, <1>11
<1>13. Cardinality(fitting) = 1 => (CHOOSE k \in fitting : TRUE) = o
  BY <1>8, <1>9, <1>11
<1>14. found = None \/ found = [at |-> o]
  BY <1>10, <1>12, <1>13
<1> QED
  BY <1>14 DEF found, part, quote, o

-----------------------------------------------------------------------------
(* From what a chunk reports to its issues                                 *)

(* What a model may report of a mistake is in the chunk and holds it.      *)
LEMMA OptionsHold ==
  ASSUME text \in Seq(Int), scenario \in Scenarios, NEW c \in Records, Fits(text, c),
         NEW m \in scenario.mistakes, NEW pick \in Options(c, m)
  PROVE  /\ pick.at.start \in Nat /\ pick.at.end \in Nat /\ pick.at.start < pick.at.end
         /\ pick.at.start <= m.start /\ m.end <= pick.at.end
         /\ c.start <= pick.at.start /\ pick.at.end <= c.end
         /\ m.start \in Nat /\ m.end \in Nat /\ m.start < m.end
         /\ pick.opinion \in scenario.opinions
         /\ pick.context.before = None
              \/ pick.context.before.text = Sub(text, Most(c.start, pick.at.start - 1), pick.at.start)
         /\ pick.context.after = None
              \/ pick.context.after.text = Sub(text, pick.at.end, Least(c.end, pick.at.end + 1))
<1>1. m.start \in Nat /\ m.end \in Nat /\ m.start < m.end /\ scenario.slack \in Nat
  BY ScenariosAssumption
<1>2. PICK range \in Quotes(c, m) : \E opinion \in scenario.opinions, wanted \in scenario.contexts :
        pick = [at |-> range, opinion |-> opinion, context |-> Context(c, range, wanted)]
  BY DEF Options
<1>3. PICK opinion \in scenario.opinions : \E wanted \in scenario.contexts :
        pick = [at |-> range, opinion |-> opinion, context |-> Context(c, range, wanted)]
  BY <1>2
<1>4. PICK wanted \in scenario.contexts :
        pick = [at |-> range, opinion |-> opinion, context |-> Context(c, range, wanted)]
  BY <1>3
<1>5. pick.at = range /\ pick.opinion = opinion /\ pick.context = Context(c, range, wanted)
  BY <1>4
<1>6. /\ range.start \in Most(0, m.start - scenario.slack) .. m.start
      /\ range.end \in m.end .. Least(Len(text), m.end + scenario.slack)
      /\ c.start <= range.start /\ range.end <= c.end
  BY DEF Quotes, Covers
<1>7. /\ range.start \in Nat /\ range.start <= m.start
      /\ range.end \in Nat /\ m.end <= range.end
  <2>1. Most(0, m.start - scenario.slack) \in Nat
    BY <1>1 DEF Most
  <2>2. Least(Len(text), m.end + scenario.slack) \in Int
    BY <1>1 DEF Least
  <2> QED
    BY <1>1, <1>6, <2>1, <2>2
<1>8. /\ pick.context.before = None
           \/ pick.context.before.text = Sub(text, Most(c.start, range.start - 1), range.start)
      /\ pick.context.after = None
           \/ pick.context.after.text = Sub(text, range.end, Least(c.end, range.end + 1))
  BY <1>5 DEF Context
<1>9. range.start < range.end
  BY <1>1, <1>7
<1> QED
  BY <1>1, <1>5, <1>6, <1>7, <1>8, <1>9

(* A candidate that is accepted stands where the model read the quote.     *)
LEMMA PlacedAtQuote ==
  ASSUME text \in Seq(Int), scenario \in Scenarios, NEW c \in Records, Fits(text, c),
         NEW m \in scenario.mistakes, NEW pick \in Options(c, m), PlaceOf(c, m, pick) # None
  PROVE  /\ PlaceOf(c, m, pick) = [start |-> pick.at.start, end |-> pick.at.end]
         /\ Accepted(c, pick.at) /\ ~Blank(Sub(text, pick.at.start, pick.at.end))
<1> DEFINE a == pick.at.start
           b == pick.at.end
           lo == c.start
           hi == c.end
           quote  == Sub(text, a, b)
           before == pick.context.before
           after  == pick.context.after
           found == Locate(Sub(text, lo, hi), quote, before, after)
           range == [start |-> lo + found.at, end |-> lo + found.at + Len(quote)]
<1>1. /\ a \in Nat /\ b \in Nat /\ a < b /\ lo <= a /\ b <= hi
      /\ before = None \/ before.text = Sub(text, Most(lo, a - 1), a)
      /\ after = None \/ after.text = Sub(text, b, Least(hi, b + 1))
  BY OptionsHold
<1>2. lo \in Nat /\ hi \in Nat /\ hi <= Len(text)
  BY DEF Records, Fits
<1>3. PlaceOf(c, m, pick) = IF found = None THEN None
                            ELSE IF Accepted(c, range) THEN range ELSE None
  BY DEF PlaceOf, ResolveAt, Candidate
<1> HIDE DEF lo, hi, a, b, before, after
<1>4. found = None \/ found = [at |-> a - lo]
  BY <1>1, <1>2, LocatesAt
<1>5. found # None /\ PlaceOf(c, m, pick) = range /\ Accepted(c, range)
  BY <1>3
<1>6. found.at = a - lo
  BY <1>4, <1>5
<1>7. Len(quote) = b - a
  <2>1. a <= b /\ b <= Len(text)
    BY <1>1, <1>2
  <2> QED
    BY <1>1, <2>1, SubItems
<1>8. range = [start |-> a, end |-> b]
  <2> DEFINE k == found.at
             n == Len(quote)
  <2>1. k = a - lo /\ n = b - a
    BY <1>6, <1>7
  <2> HIDE DEF k, n
  <2>2. lo + k = a /\ lo + k + n = b
    BY <1>1, <1>2, <2>1
  <2> QED
    BY <2>2 DEF k, n
<1>9. ~Blank(quote)
  BY <1>5 DEF Locate
<1> HIDE DEF range, quote
<1>10. Accepted(c, pick.at)
  BY <1>5, <1>8 DEF Accepted, a, b
<1> QED
  BY <1>5, <1>8, <1>9, <1>10 DEF a, b, quote

(* Its issue lies in the quote, touches the mistake and can be merged.     *)
LEMMA IssueInQuote ==
  ASSUME text \in Seq(Int), scenario \in Scenarios, NEW c \in Records, Fits(text, c),
         NEW m \in scenario.mistakes, NEW pick \in Options(c, m), PlaceOf(c, m, pick) # None
  PROVE  LET x == IssueOf(c, m, pick)
         IN Sortable(x) /\ Covers(pick.at, x) /\ Overlap(x, m)
<1> DEFINE candidate == Candidate(m, pick)
           verdict == pick.opinion.verdict
           place   == PlaceOf(c, m, pick)
           x == IssueOf(c, m, pick)
<1>1. /\ pick.at.start \in Nat /\ pick.at.end \in Nat /\ pick.at.start < pick.at.end
      /\ pick.at.start <= m.start /\ m.end <= pick.at.end
      /\ m.start \in Nat /\ m.end \in Nat /\ m.start < m.end
      /\ pick.opinion \in scenario.opinions
  BY OptionsHold
<1>2. place.start = pick.at.start /\ place.end = pick.at.end
  <2>1. place = [start |-> pick.at.start, end |-> pick.at.end]
    BY PlacedAtQuote
  <2> QED
    BY <2>1
<1>3. /\ verdict.confidence \in Nat
      /\ verdict.class = None \/ verdict.class.category \in DOMAIN CategoryRank
      /\ m.class.category \in DOMAIN CategoryRank
  BY <1>1, ScenariosAssumption
<1>4. /\ candidate.class = m.class
      /\ candidate.literal = IF m.literal THEN [start |-> m.start, end |-> m.end] ELSE None
  BY DEF Candidate
<1>5. x.confidence = verdict.confidence /\ x.class = ClassOf(candidate, verdict)
  BY DEF IssueOf, IssueAt
<1>6. \/ x.start = place.start /\ x.end = place.end
      \/ x.start = m.start /\ x.end = m.end
  <2> DEFINE narrow == /\ candidate.literal # None /\ ~Reclassified(candidate, verdict)
                       /\ LiteralEdit(ClassOf(candidate, verdict).category, place, candidate.literal)
  <2>1. /\ x.start = (IF narrow THEN candidate.literal ELSE place).start
        /\ x.end = (IF narrow THEN candidate.literal ELSE place).end
    BY DEF IssueOf, IssueAt
  <2>2. narrow => candidate.literal = [start |-> m.start, end |-> m.end]
    BY <1>4
  <2> HIDE DEF narrow, x
  <2> QED
    BY <2>1, <2>2
<1>7. x.class.category \in DOMAIN CategoryRank
  BY <1>3, <1>4, <1>5 DEF ClassOf
<1> HIDE DEF x, place, verdict
<1> QED
  BY <1>1, <1>2, <1>3, <1>5, <1>6, <1>7 DEF Sortable, Covers, Overlap, x

-----------------------------------------------------------------------------
(* The invariant of the analysis                                           *)

(* The issues one chunk makes of what it reports, before they are merged.  *)
MadeBy(c, pick) ==
  {IssueOf(c, m, pick[m]) : m \in {n \in scenario.mistakes : Keeps(c, n, pick[n])}}

WhollyCut == text \in Seq(Int) /\ Divided(text, chunks, Len(text))

(* Every issue is made of what a chunk reports, and none is lost in the    *)
(* merge of its chunk.                                                     *)
FindInv ==
  /\ phase \in {"read", "cut"} => picks = <<>> /\ issues = <<>>
  /\ phase \in {"analyze", "done"} \/ DOMAIN picks # {} => WhollyCut
  /\ phase \in {"analyze", "done"} => DOMAIN picks \cup pending = DOMAIN chunks
  /\ phase = "done" => pending = {}
  /\ DOMAIN picks \cap pending = {} /\ DOMAIN picks \subseteq DOMAIN chunks
  /\ \A i \in DOMAIN picks, m \in scenario.mistakes :
       picks[i][m] \in {None} \cup Options(chunks[i], m)
  /\ issues \in Seq(ToSet(issues))
  /\ \A x \in ToSet(issues) : \E i \in DOMAIN picks : x \in MadeBy(chunks[i], picks[i])
  /\ phase \in {"analyze", "done"} =>
       \A i \in DOMAIN picks : \A x \in MadeBy(chunks[i], picks[i]) :
         \E y \in ToSet(issues) \cap MadeBy(chunks[i], picks[i]) :
           y.confidence >= x.confidence /\ Leads(MadeBy(chunks[i], picks[i]), x, y)
  /\ phase # "done" => report = <<>>
  /\ phase = "done" => report = Deduplicate(issues)

(* What a chunk reports of a mistake it does not keep is None or refused.  *)
LEMMA MadeFromOption ==
  ASSUME text \in Seq(Int), scenario \in Scenarios, NEW c \in Records, Fits(text, c),
         NEW pick, \A m \in scenario.mistakes : pick[m] \in {None} \cup Options(c, m),
         NEW x \in MadeBy(c, pick)
  PROVE  \E m \in scenario.mistakes :
           /\ x = IssueOf(c, m, pick[m]) /\ Keeps(c, m, pick[m]) /\ pick[m] \in Options(c, m)
           /\ Sortable(x) /\ Covers(pick[m].at, x) /\ Overlap(x, m)
<1>1. PICK m \in scenario.mistakes : x = IssueOf(c, m, pick[m]) /\ Keeps(c, m, pick[m])
  BY DEF MadeBy
<1>2. pick[m] \in Options(c, m) /\ PlaceOf(c, m, pick[m]) # None
  BY <1>1 DEF Keeps
<1> QED
  BY <1>1, <1>2, IssueInQuote

(* ChunkIssues merges what the chunk makes.                                *)
LEMMA ChunkMerges ==
  ASSUME text \in Seq(Int), scenario \in Scenarios, NEW c \in Records, Fits(text, c),
         NEW pick, \A m \in scenario.mistakes : pick[m] \in {None} \cup Options(c, m),
         ChunkIssues(c, pick) # None
  PROVE  LET made  == MadeBy(c, pick)
             found == ChunkIssues(c, pick).issues
         IN /\ found \in Seq(made)
            /\ \A x \in made : \E i \in DOMAIN found :
                 found[i].confidence >= x.confidence /\ Leads(made, x, found[i])
<1> DEFINE made  == MadeBy(c, pick)
           kept  == {m \in scenario.mistakes : Keeps(c, m, pick[m])}
           order == SetToSeq(kept)
           size  == Cardinality(kept)
           list  == [n \in 1 .. size |-> IssueOf(c, order[n], pick[order[n]])]
<1>1. ChunkIssues(c, pick).issues = Deduplicate(list)
  BY DEF ChunkIssues
<1>2. size \in Nat /\ order \in [1 .. size -> kept] /\ \A m \in kept : \E n \in 1 .. size : order[n] = m
  <2>1. IsFiniteSet(kept)
    <3>1. IsFiniteSet(scenario.mistakes) /\ kept \subseteq scenario.mistakes
      BY ScenariosAssumption
    <3> QED
      BY <3>1, FS_Subset
  <2> HIDE DEF kept
  <2>2. size \in Nat /\ ExistsBijection(1 .. size, kept)
    BY <2>1, FS_CardinalityType
  <2>3. \E f \in [1 .. size -> kept] : IsInjective(f)
    BY <2>2 DEF ExistsBijection, Bijection, Injection
  <2>4. order \in [1 .. size -> kept] /\ IsInjective(order)
    BY <2>3 DEF SetToSeq
  <2> HIDE DEF order
  <2>5. order \in Injection(1 .. size, kept)
    BY <2>4 DEF Injection
  <2>6. Cardinality(1 .. size) = size
    <3>1. 1 \in Int /\ size \in Int /\ (1 > size => size = 0) /\ size - 1 + 1 = size
      BY <2>2
    <3> QED
      BY <3>1, FS_Interval
  <2>7. order \in Surjection(1 .. size, kept)
    BY <2>1, <2>5, <2>6, FS_Injection
  <2> QED
    BY <2>2, <2>4, <2>7 DEF Surjection
<1>3. \A n \in 1 .. size : list[n] \in made
  BY <1>2 DEF MadeBy
<1>4. \A x \in made : \E n \in 1 .. size : list[n] = x
  <2> SUFFICES ASSUME NEW m \in kept PROVE \E n \in 1 .. size : list[n] = IssueOf(c, m, pick[m])
    BY DEF MadeBy
  <2>1. PICK n \in 1 .. size : order[n] = m
    BY <1>2
  <2> QED
    BY <2>1
<1>5. list \in Seq(made) /\ DOMAIN list = 1 .. size
  <2>1. list \in [1 .. size -> made]
    BY <1>3
  <2> HIDE DEF list, size, kept, made
  <2> QED
    BY <1>2, <2>1
<1>6. \A x \in made : Sortable(x)
  BY MadeFromOption
<1> HIDE DEF made, list
<1>7. /\ Deduplicate(list) \in Seq(made)
      /\ \A j \in DOMAIN list : Stands(made, Deduplicate(list), list[j])
  BY <1>5, <1>6, Deduplicates
<1>8. \A x \in made : Stands(made, Deduplicate(list), x)
  BY <1>4, <1>5, <1>7
<1> QED
  BY <1>1, <1>7, <1>8 DEF Stands, made

(* One more chunk returns.                                                 *)
LEMMA AnalyzeKeeps ==
  ASSUME CutInv, FindInv, NEW i \in pending, Analyze(i)
  PROVE  FindInv'
<1>1. /\ phase = "analyze" /\ scenario \in Scenarios /\ WhollyCut /\ report = <<>>
      /\ DOMAIN picks \cup pending = DOMAIN chunks /\ DOMAIN picks \cap pending = {}
  BY DEF FindInv, CutInv, Analyze
<1>2. PICK pick \in [scenario.mistakes ->
                     {None} \cup UNION {Options(chunks[i], m) : m \in scenario.mistakes}] :
        /\ \A m \in scenario.mistakes : pick[m] \in {None} \cup Options(chunks[i], m)
        /\ picks' = [k \in DOMAIN picks \cup {i} |-> IF k = i THEN pick ELSE picks[k]]
        /\ IF ChunkIssues(chunks[i], pick) = None THEN phase' = "failed" /\ UNCHANGED issues
           ELSE issues' = issues \o ChunkIssues(chunks[i], pick).issues /\ UNCHANGED phase
  BY DEF Analyze
<1>3. /\ pending' = pending \ {i} /\ scenario' = scenario /\ doc' = doc /\ chunks' = chunks
      /\ report' = report
  BY DEF Analyze
<1>4. /\ DOMAIN picks' = DOMAIN picks \cup {i} /\ picks'[i] = pick
      /\ \A k \in DOMAIN picks : k # i /\ picks'[k] = picks[k]
  BY <1>1, <1>2
<1>5. \A c, p : MadeBy(c, p)' = MadeBy(c, p)
  BY <1>3 DEF MadeBy, Keeps, IssueOf, PlaceOf, Candidate, text
<1>6. \A c, m : Options(c, m)' = Options(c, m)
  BY <1>3 DEF Options, Quotes, Context, text
<1>7. text \in Seq(Int) /\ chunks[i] \in Records /\ Fits(text, chunks[i])
  <2>1. i \in DOMAIN chunks
    BY <1>1
  <2> QED
    BY <1>1, <2>1 DEF WhollyCut, Divided
<1>8. WhollyCut'
  BY <1>1, <1>3 DEF WhollyCut, text
<1>9. \A k \in DOMAIN picks', m \in scenario'.mistakes :
        picks'[k][m] \in {None} \cup Options(chunks[k], m)'
  BY <1>2, <1>3, <1>4, <1>6 DEF FindInv
<1>10. /\ DOMAIN picks' \cup pending' = DOMAIN chunks' /\ DOMAIN picks' \cap pending' = {}
       /\ DOMAIN picks' \subseteq DOMAIN chunks'
  BY <1>1, <1>3, <1>4
<1>11. /\ issues \in Seq(ToSet(issues))
       /\ \A x \in ToSet(issues) : \E k \in DOMAIN picks : x \in MadeBy(chunks[k], picks[k])
  BY DEF FindInv
<1>12. CASE ChunkIssues(chunks[i], pick) = None
  <2>1. phase' = "failed" /\ issues' = issues
    BY <1>2, <1>12
  <2>2. issues' \in Seq(ToSet(issues'))
    BY <1>11, <2>1
  <2>3. \A x \in ToSet(issues') : \E k \in DOMAIN picks' : x \in MadeBy(chunks[k], picks[k])'
    BY <1>3, <1>4, <1>5, <1>11, <2>1
  <2> QED
    BY <1>1, <1>3, <1>8, <1>9, <1>10, <2>1, <2>2, <2>3 DEF FindInv
<1>13. CASE ChunkIssues(chunks[i], pick) # None
  <2> DEFINE found == ChunkIssues(chunks[i], pick).issues
             made  == MadeBy(chunks[i], pick)
  <2>1. phase' = phase /\ issues' = issues \o found
    BY <1>2, <1>13
  <2>2. /\ found \in Seq(made)
        /\ \A x \in made : \E n \in DOMAIN found :
             found[n].confidence >= x.confidence /\ Leads(made, x, found[n])
    BY <1>1, <1>2, <1>7, <1>13, ChunkMerges
  <2> HIDE DEF found, made
  <2>3. /\ issues' \in Seq(ToSet(issues) \cup ToSet(found))
        /\ ToSet(issues') = ToSet(issues) \cup ToSet(found)
    <3> DEFINE both == ToSet(issues) \cup ToSet(found)
    <3>1. issues \in Seq(both) /\ found \in Seq(both)
      <4>1. found \in Seq(ToSet(found))
        BY <2>2 DEF ToSet
      <4> QED
        BY <1>11, <4>1
    <3>2. /\ issues' \in Seq(both) /\ Len(issues') = Len(issues) + Len(found)
          /\ \A n \in 1 .. Len(issues) : issues'[n] = issues[n]
          /\ \A n \in 1 .. Len(found) : issues'[Len(issues) + n] = found[n]
      <4> HIDE DEF both
      <4> QED
        BY <2>1, <3>1
    <3>3. ToSet(issues') \subseteq both
      BY <3>2 DEF ToSet
    <3>4. ToSet(issues) \subseteq ToSet(issues')
      <4>1. \A n \in 1 .. Len(issues) : n \in 1 .. Len(issues')
        BY <1>11, <2>2, <3>2
      <4>2. DOMAIN issues = 1 .. Len(issues) /\ DOMAIN issues' = 1 .. Len(issues')
        BY <1>11, <3>2
      <4> QED
        BY <3>2, <4>1, <4>2 DEF ToSet
    <3>5. ToSet(found) \subseteq ToSet(issues')
      <4>1. \A n \in 1 .. Len(found) : Len(issues) + n \in 1 .. Len(issues')
        BY <1>11, <2>2, <3>2
      <4>2. DOMAIN found = 1 .. Len(found) /\ DOMAIN issues' = 1 .. Len(issues')
        BY <2>2, <3>2
      <4> QED
        BY <3>2, <4>1, <4>2 DEF ToSet
    <3> QED
      BY <3>2, <3>3, <3>4, <3>5
  <2>4. issues' \in Seq(ToSet(issues'))
    BY <2>3
  <2>5. ToSet(found) \subseteq made
    BY <2>2 DEF ToSet
  <2>6. MadeBy(chunks[i], picks[i])' = made
    BY <1>3, <1>4, <1>5 DEF made
  <2>7. \A k \in DOMAIN picks : MadeBy(chunks[k], picks[k])' = MadeBy(chunks[k], picks[k])
    BY <1>3, <1>4, <1>5
  <2>8. \A x \in ToSet(issues') : \E k \in DOMAIN picks' : x \in MadeBy(chunks[k], picks[k])'
    BY <1>4, <1>11, <2>3, <2>5, <2>6, <2>7
  <2>9. ASSUME NEW k \in DOMAIN picks', NEW x \in MadeBy(chunks[k], picks[k])'
        PROVE  \E y \in ToSet(issues') \cap MadeBy(chunks[k], picks[k])' :
                 y.confidence >= x.confidence /\ Leads(MadeBy(chunks[k], picks[k])', x, y)
    <3>1. CASE k = i
      <4>1. PICK n \in DOMAIN found : found[n].confidence >= x.confidence /\ Leads(made, x, found[n])
        BY <2>2, <2>6, <2>9, <3>1
      <4>2. found[n] \in ToSet(issues') \cap made
        BY <2>3, <2>5 DEF ToSet
      <4> QED
        BY <2>6, <3>1, <4>1, <4>2
    <3>2. CASE k # i
      <4>1. k \in DOMAIN picks
        BY <1>4, <3>2
      <4>2. MadeBy(chunks[k], picks[k])' = MadeBy(chunks[k], picks[k])
        BY <2>7, <4>1
      <4> DEFINE old == MadeBy(chunks[k], picks[k])
      <4>3. \A z \in old : \E y \in ToSet(issues) \cap old : y.confidence >= z.confidence /\ Leads(old, z, y)
        BY <1>1, <4>1 DEF FindInv
      <4> HIDE DEF old
      <4>4. MadeBy(chunks[k], picks[k])' = old
        BY <4>2 DEF old
      <4> QED
        BY <2>3, <2>9, <4>3, <4>4
    <3> QED
      BY <3>1, <3>2
  <2> QED
    BY <1>1, <1>3, <1>8, <1>9, <1>10, <2>1, <2>4, <2>8, <2>9 DEF FindInv, Leads
<1> QED
  BY <1>12, <1>13

(* What the later steps leave as it is.                                    *)
Reported ==
  \A i \in DOMAIN picks, m \in scenario.mistakes :
    picks[i][m] \in {None} \cup Options(chunks[i], m)

Traced ==
  /\ issues \in Seq(ToSet(issues))
  /\ \A x \in ToSet(issues) : \E i \in DOMAIN picks : x \in MadeBy(chunks[i], picks[i])

KeptOf(made) ==
  \A x \in made : \E y \in ToSet(issues) \cap made : y.confidence >= x.confidence /\ Leads(made, x, y)

LEMMA Unmoved ==
  ASSUME UNCHANGED <<scenario, doc, chunks, picks, issues>>, CutInv, FindInv
  PROVE  /\ WhollyCut' = WhollyCut /\ Reported' /\ Traced'
         /\ phase \in {"analyze", "done"} =>
              \A i \in DOMAIN picks' : KeptOf(MadeBy(chunks[i], picks[i]))'
<1>1. /\ scenario' = scenario /\ doc' = doc /\ chunks' = chunks /\ picks' = picks
      /\ issues' = issues
  OBVIOUS
<1>2. \A c, p : MadeBy(c, p)' = MadeBy(c, p)
  BY <1>1 DEF MadeBy, Keeps, IssueOf, PlaceOf, Candidate, text
<1>3. \A c, m : Options(c, m)' = Options(c, m)
  BY <1>1 DEF Options, Quotes, Context, text
<1>4. WhollyCut' = WhollyCut
  BY <1>1 DEF WhollyCut, text
<1>5. Reported'
  <2>1. Reported
    BY DEF FindInv, Reported
  <2>2. \A i, m : Options(chunks[i], m)' = Options(chunks[i], m)
    BY <1>1, <1>3
  <2> QED
    BY <1>1, <2>1, <2>2 DEF Reported
<1>6. \A i : MadeBy(chunks[i], picks[i])' = MadeBy(chunks[i], picks[i])
  BY <1>1, <1>2
<1>7. Traced'
  <2>1. Traced
    BY DEF FindInv, Traced
  <2> QED
    BY <1>1, <1>6, <2>1 DEF Traced
<1>8. \A i : KeptOf(MadeBy(chunks[i], picks[i]))' = KeptOf(MadeBy(chunks[i], picks[i]))
  BY <1>1, <1>6 DEF KeptOf, Leads
<1>9. phase \in {"analyze", "done"} => \A i \in DOMAIN picks : KeptOf(MadeBy(chunks[i], picks[i]))
  BY DEF FindInv, KeptOf
<1> QED
  BY <1>1, <1>4, <1>5, <1>7, <1>8, <1>9

(* The whole analysis keeps it.                                            *)
THEOREM FindInvariant == Spec => []FindInv
<1>1. Init => FindInv
  <2> SUFFICES ASSUME Init PROVE FindInv
    OBVIOUS
  <2>1. /\ phase = "read" /\ picks = <<>> /\ issues = <<>> /\ pending = {} /\ report = <<>>
    BY DEF Init
  <2>2. DOMAIN picks = {} /\ issues \in Seq(ToSet(issues)) /\ ToSet(issues) = {}
    BY <2>1 DEF ToSet
  <2> QED
    BY <2>1, <2>2 DEF FindInv
<1>2. CutInv /\ FindInv /\ [Next]_vars => FindInv'
  <2> SUFFICES ASSUME CutInv, FindInv, [Next]_vars PROVE FindInv'
    OBVIOUS
  <2>1. CASE Read \/ CutParagraph \/ CutWindow
    <3>1. /\ picks' = picks /\ issues' = issues /\ pending' = pending /\ report' = report
          /\ phase \in {"read", "cut"} /\ phase' \in {"cut", "failed"}
      BY <2>1 DEF Read, CutParagraph, CutWindow
    <3>2. picks = <<>> /\ issues = <<>> /\ report = <<>>
      BY <3>1 DEF FindInv
    <3>3. DOMAIN picks = {} /\ ToSet(issues) = {} /\ issues \in Seq({})
      BY <3>2 DEF ToSet
    <3>4. ToSet(issues') = {}
      BY <3>1, <3>3
    <3> QED
      BY <3>1, <3>2, <3>3, <3>4 DEF FindInv
  <2>2. CASE EndCut
    <3>1. /\ picks' = picks /\ issues' = issues /\ pending' = DOMAIN chunks' /\ report' = report
          /\ phase = "cut" /\ phase' \in {"analyze", "failed"} /\ text' = text
      BY <2>2 DEF EndCut, text
    <3>2. picks = <<>> /\ issues = <<>> /\ report = <<>>
      BY <3>1 DEF FindInv
    <3>3. DOMAIN picks = {} /\ ToSet(issues) = {} /\ issues \in Seq({})
      BY <3>2 DEF ToSet
    <3>4. ToSet(issues') = {}
      BY <3>1, <3>3
    <3>5. WhollyCut'
      <4>1. Cutting
        BY <3>1 DEF CutInv
      <4>2. text \in Seq(Int) /\ Divided(text, chunks', Len(text))
        BY <2>2, <4>1, EndDivides DEF Cutting
      <4> QED
        BY <3>1, <4>2 DEF WhollyCut
    <3> QED
      BY <3>1, <3>2, <3>3, <3>4, <3>5 DEF FindInv
  <2>3. CASE Merge \/ UNCHANGED vars
    <3>1. UNCHANGED <<scenario, doc, chunks, picks, issues>> /\ pending' = pending
      BY <2>3 DEF Merge, vars
    <3>2. \/ phase = "analyze" /\ pending = {} /\ report' = Deduplicate(issues) /\ phase' = "done"
          \/ phase' = phase /\ report' = report
      BY <2>3 DEF Merge, vars
    <3>3. /\ WhollyCut' = WhollyCut /\ Reported' /\ Traced'
          /\ phase \in {"analyze", "done"} =>
               \A i \in DOMAIN picks' : KeptOf(MadeBy(chunks[i], picks[i]))'
      BY <3>1, Unmoved
    <3>4. /\ phase' \in {"read", "cut"} => picks' = <<>> /\ issues' = <<>>
          /\ phase' \in {"analyze", "done"} \/ DOMAIN picks' # {} => WhollyCut'
          /\ phase' \in {"analyze", "done"} => DOMAIN picks' \cup pending' = DOMAIN chunks'
          /\ phase' = "done" => pending' = {}
          /\ DOMAIN picks' \cap pending' = {} /\ DOMAIN picks' \subseteq DOMAIN chunks'
      BY <3>1, <3>2, <3>3 DEF FindInv
    <3>5. Deduplicate(issues)' = Deduplicate(issues)
      BY <3>1
    <3>6. /\ phase' # "done" => report' = <<>>
          /\ phase' = "done" => report' = Deduplicate(issues)'
      BY <3>2, <3>5 DEF FindInv
    <3>7. phase' \in {"analyze", "done"} =>
            \A i \in DOMAIN picks' : KeptOf(MadeBy(chunks[i], picks[i]))'
      BY <3>2, <3>3
    <3> QED
      BY <3>3, <3>4, <3>6, <3>7 DEF FindInv, Reported, Traced, KeptOf
  <2>4. CASE \E i \in pending : Analyze(i)
    BY <2>4, AnalyzeKeeps
  <2> QED
    BY <2>1, <2>2, <2>3, <2>4 DEF Next
<1> QED
  BY <1>1, <1>2, CutInvariant, PTL DEF Spec

-----------------------------------------------------------------------------
(* What the analysis promises of its report                                *)

LEMMA IssuesAreSortable ==
  ASSUME CutInv, FindInv, NEW x \in ToSet(issues)
  PROVE  \E i \in DOMAIN picks, m \in scenario.mistakes :
           /\ i \in DOMAIN chunks /\ x = IssueOf(chunks[i], m, picks[i][m])
           /\ Keeps(chunks[i], m, picks[i][m]) /\ picks[i][m] \in Options(chunks[i], m)
           /\ Sortable(x) /\ Covers(picks[i][m].at, x) /\ Overlap(x, m)
<1>1. PICK i \in DOMAIN picks : x \in MadeBy(chunks[i], picks[i])
  BY DEF FindInv
<1>2. /\ text \in Seq(Int) /\ scenario \in Scenarios /\ i \in DOMAIN chunks
      /\ chunks[i] \in Records /\ Fits(text, chunks[i])
      /\ \A m \in scenario.mistakes : picks[i][m] \in {None} \cup Options(chunks[i], m)
  <2>1. WhollyCut /\ i \in DOMAIN chunks /\ scenario \in Scenarios
    BY DEF FindInv, CutInv
  <2>2. \A m \in scenario.mistakes : picks[i][m] \in {None} \cup Options(chunks[i], m)
    BY DEF FindInv
  <2> QED
    BY <2>1, <2>2 DEF WhollyCut, Divided
<1> QED
  BY <1>1, <1>2, MadeFromOption

LEMMA ReportMerges ==
  ASSUME CutInv, FindInv, phase = "done"
  PROVE  /\ report \in Seq(ToSet(issues)) /\ Apart(report)
         /\ \A i, j \in DOMAIN report : i < j => report[i].start <= report[j].start
         /\ \A x \in ToSet(issues) : Stands(ToSet(issues), report, x)
<1> DEFINE all == ToSet(issues)
<1>1. issues \in Seq(all) /\ report = Deduplicate(issues)
  BY DEF FindInv
<1>2. \A x \in all : Sortable(x)
  BY IssuesAreSortable
<1>3. \A x \in all : \E j \in DOMAIN issues : issues[j] = x
  BY DEF ToSet
<1> HIDE DEF all
<1>4. /\ report \in Seq(all) /\ Apart(report)
      /\ \A i, j \in DOMAIN report : i < j => report[i].start <= report[j].start
      /\ \A j \in DOMAIN issues : Stands(all, report, issues[j])
  BY <1>1, <1>2, Deduplicates
<1> QED
  BY <1>3, <1>4 DEF all

(* The report has no two issues for one problem, is in text order, and for *)
(* every issue a chunk returned it keeps one at least as sure.             *)
THEOREM MergeKeeps == Spec => []MergeKeepsTheBest
<1>1. CutInv /\ FindInv => MergeKeepsTheBest
  <2> SUFFICES ASSUME CutInv, FindInv PROVE MergeKeepsTheBest
    OBVIOUS
  <2>1. CASE phase # "done"
    <3>1. report = <<>>
      BY <2>1 DEF FindInv
    <3>2. DOMAIN report = {}
      BY <3>1
    <3> QED
      BY <2>1, <3>2 DEF MergeKeepsTheBest, ReportDisjoint, BestKept
  <2>2. CASE phase = "done"
    <3>1. ReportDisjoint
      <4> SUFFICES ASSUME NEW a \in DOMAIN report, NEW b \in DOMAIN report, a < b
                   PROVE  ~Duplicates(report[a], report[b]) /\ report[a].start <= report[b].start
        BY DEF ReportDisjoint
      <4>1. a # b
        <5>1. a \in Int
          BY <2>2, ReportMerges
        <5> QED
          BY <5>1
      <4> QED
        BY <2>2, <4>1, ReportMerges DEF Apart
    <3>2. BestKept
      <4> SUFFICES ASSUME NEW a \in ToSet(issues)
                   PROVE  \E r \in ToSet(report) :
                            r.confidence >= a.confidence /\ Leads(ToSet(issues), a, r)
        BY DEF BestKept
      <4>1. Stands(ToSet(issues), report, a)
        BY <2>2, ReportMerges
      <4> QED
        BY <4>1 DEF Stands, ToSet
    <3> QED
      BY <3>1, <3>2 DEF MergeKeepsTheBest
  <2> QED
    BY <2>1, <2>2
<1> QED
  BY <1>1, CutInvariant, FindInvariant, PTL

(* Every issue lies within the quote a chunk reported.                     *)
QuotesHold == \A x \in ToSet(issues) : WithinItsQuote(x)

THEOREM IssuesWithinQuotes == Spec => []QuotesHold
<1>1. CutInv /\ FindInv => QuotesHold
  <2> SUFFICES ASSUME CutInv, FindInv, NEW x \in ToSet(issues) PROVE WithinItsQuote(x)
    BY DEF QuotesHold
  <2>1. PICK i \in DOMAIN picks : \E m \in scenario.mistakes :
          Keeps(chunks[i], m, picks[i][m]) /\ Covers(picks[i][m].at, x)
    BY IssuesAreSortable
  <2>2. PICK m \in scenario.mistakes :
          Keeps(chunks[i], m, picks[i][m]) /\ Covers(picks[i][m].at, x)
    BY <2>1
  <2>3. Reports(i, m) # None /\ Covers(Reports(i, m).at, x)
    BY <2>2 DEF Reports, Keeps
  <2> QED
    BY <2>3 DEF WithinItsQuote
<1> QED
  BY <1>1, CutInvariant, FindInvariant, PTL

-----------------------------------------------------------------------------
(* Protected spans                                                         *)

(* A window has the characters of the text, counted from its beginning.    *)
IsWindow(content, part, lo, hi) ==
  Len(part) = hi - lo /\ \A i \in 1 .. hi - lo : part[i] = content[lo + i]

(* What lies between the first and the last character of a range.          *)
Between(content, s, e) == {content[k] : k \in s + 2 .. e - 1}

(* A range of a window has the marks of the same range of the text.        *)
Alike(content, part, lo, s, e) ==
  /\ part[s + 1] = content[lo + s + 1] /\ part[e] = content[lo + e]
  /\ Between(part, s, e) = Between(content, lo + s, lo + e)
  /\ e < Len(part) => part[e + 1] = content[lo + e + 1]

LEMMA SameMarks ==
  ASSUME NEW content, NEW part, NEW lo \in Nat, NEW hi \in Nat, IsWindow(content, part, lo, hi),
         NEW s \in Nat, NEW e \in Nat, s < e, e <= hi - lo
  PROVE  Alike(content, part, lo, s, e)
<1>1. part[s + 1] = content[lo + s + 1]
  <2>1. s + 1 \in 1 .. hi - lo
    OBVIOUS
  <2>2. part[s + 1] = content[lo + (s + 1)]
    BY <2>1 DEF IsWindow
  <2>3. lo + (s + 1) = lo + s + 1
    OBVIOUS
  <2> QED
    BY <2>2, <2>3
<1>2. part[e] = content[lo + e]
  <2>1. e \in 1 .. hi - lo
    OBVIOUS
  <2> QED
    BY <2>1 DEF IsWindow
<1>3. Between(part, s, e) = Between(content, lo + s, lo + e)
  <2> DEFINE inside == {content[k] : k \in lo + s + 2 .. lo + e - 1}
  <2>1. ASSUME NEW k \in s + 2 .. e - 1
        PROVE  part[k] \in inside
    <3>1. k \in 1 .. hi - lo /\ lo + k \in lo + s + 2 .. lo + e - 1
      OBVIOUS
    <3>2. part[k] = content[lo + k]
      BY <3>1 DEF IsWindow
    <3> QED
      BY <3>1, <3>2
  <2>2. ASSUME NEW k \in lo + s + 2 .. lo + e - 1
        PROVE  content[k] \in {part[j] : j \in s + 2 .. e - 1}
    <3>1. k - lo \in 1 .. hi - lo /\ k - lo \in s + 2 .. e - 1 /\ lo + (k - lo) = k
      OBVIOUS
    <3>2. part[k - lo] = content[lo + (k - lo)]
      BY <3>1 DEF IsWindow
    <3> QED
      BY <3>1, <3>2
  <2> QED
    BY <2>1, <2>2 DEF Between
<1>4. e < Len(part) => part[e + 1] = content[lo + e + 1]
  <2> SUFFICES ASSUME e < hi - lo
               PROVE  part[e + 1] = content[lo + e + 1]
    BY DEF IsWindow
  <2>1. e + 1 \in 1 .. hi - lo /\ lo + (e + 1) = lo + e + 1
    OBVIOUS
  <2>2. part[e + 1] = content[lo + (e + 1)]
    BY <2>1 DEF IsWindow
  <2> QED
    BY <2>1, <2>2
<1> QED
  BY <1>1, <1>2, <1>3, <1>4 DEF Alike

(* What Matches asks of a range.                                           *)
MarksMatch(pattern, first, last, inside, longer, ended) ==
  \/ /\ pattern = "base" /\ first \in {Backtick, Dollar} /\ last = first
     /\ inside # {} /\ first \notin inside
  \/ pattern = "base" /\ first = Opening /\ last = Closing /\ Closing \notin inside
  \/ /\ pattern = "base" /\ first = Scheme /\ longer
     /\ White \cap (inside \cup {last}) = {} /\ ended
  \/ pattern = "academic" /\ first = LeftBracket /\ last = RightBracket /\ inside = {Digit}
  \/ pattern = "financial" /\ first = Digit /\ last = Unit /\ inside \subseteq {Digit}

LEMMA MatchesAre ==
  ASSUME NEW content \in Seq(Int), NEW pattern, NEW s \in Nat, NEW e \in Nat
  PROVE  /\ Matches(content, [start |-> s, end |-> e], pattern) <=>
              MarksMatch(pattern, content[s + 1], content[e], Between(content, s, e),
                         s + 1 < e, e < Len(content) => content[e + 1] \in White)
         /\ [start |-> s, end |-> e] \in AllMatches(content, pattern) <=>
              s < e /\ e <= Len(content) /\ Matches(content, [start |-> s, end |-> e], pattern)
<1> DEFINE m == [start |-> s, end |-> e]
<1>1. m.start = s /\ m.end = e
  OBVIOUS
<1>2. m \in [start : 0 .. Len(content) - 1, end : 1 .. Len(content)] /\ s < e
        <=> s < e /\ e <= Len(content)
  OBVIOUS
<1> HIDE DEF m
<1>3. m \in AllMatches(content, pattern) <=>
        s < e /\ e <= Len(content) /\ Matches(content, m, pattern)
  BY <1>1, <1>2 DEF AllMatches
<1>4. Matches(content, m, pattern) <=>
        MarksMatch(pattern, content[s + 1], content[e], Between(content, s, e),
                   s + 1 < e, e < Len(content) => content[e + 1] \in White)
  BY <1>1, Zenon DEF Matches, MarksMatch, Between
<1> QED
  BY <1>3, <1>4 DEF m

LEMMA MatchRanges ==
  ASSUME NEW content \in Seq(Int), NEW pattern, NEW m \in AllMatches(content, pattern)
  PROVE  /\ m.start \in Nat /\ m.end \in Nat /\ m.start < m.end /\ m.end <= Len(content)
         /\ m = [start |-> m.start, end |-> m.end]
BY DEF AllMatches

(* A match that lies in a window is one of the window's text.              *)
LEMMA MatchInWindow ==
  ASSUME NEW content \in Seq(Int), NEW lo \in Nat, NEW hi \in Nat, hi <= Len(content),
         NEW pattern, NEW s \in Nat, NEW e \in Nat, lo + e <= hi,
         [start |-> lo + s, end |-> lo + e] \in AllMatches(content, pattern)
  PROVE  [start |-> s, end |-> e] \in AllMatches(Sub(content, lo, hi), pattern)
<1> DEFINE part == Sub(content, lo, hi)
           from == lo + s
           to   == lo + e
           first == content[from + 1]
           last  == content[to]
           inside == Between(content, from, to)
<1>1. lo <= hi /\ e <= hi - lo /\ from \in Nat /\ to \in Nat
  OBVIOUS
<1>2. part \in Seq(Int) /\ Len(part) = hi - lo /\ IsWindow(content, part, lo, hi)
  BY <1>1, SubItems DEF IsWindow
<1> HIDE DEF part
<1>3. /\ from < to
      /\ MarksMatch(pattern, first, last, inside,
                    from + 1 < to, to < Len(content) => content[to + 1] \in White)
  <2> HIDE DEF from, to
  <2>1. [start |-> from, end |-> to] \in AllMatches(content, pattern)
    BY DEF from, to
  <2> QED
    BY <1>1, <2>1, MatchesAre
<1>4. s < e
  BY <1>3
<1>5. /\ part[s + 1] = first /\ part[e] = last
      /\ Between(part, s, e) = inside
      /\ e < Len(part) => part[e + 1] = content[to + 1]
  <2>1. Alike(content, part, lo, s, e)
    BY <1>1, <1>2, <1>4, SameMarks
  <2> QED
    BY <2>1 DEF Alike
<1>6. (from + 1 < to <=> s + 1 < e) /\ (e < Len(part) => to < Len(content))
  BY <1>1, <1>2
<1> HIDE DEF from, to, first, last, inside
<1>7. MarksMatch(pattern, part[s + 1], part[e], Between(part, s, e),
                 s + 1 < e, e < Len(part) => part[e + 1] \in White)
  BY <1>3, <1>5, <1>6, Zenon DEF MarksMatch
<1>8. [start |-> s, end |-> e] \in AllMatches(part, pattern)
  BY <1>1, <1>2, <1>4, <1>7, MatchesAre
<1> QED
  BY <1>8 DEF part

(* A match of the window's text is one of the whole text, or a link that   *)
(* the end of the window cuts off.                                         *)
LEMMA MatchOfWindow ==
  ASSUME NEW content \in Seq(Int), NEW lo \in Nat, NEW hi \in Nat, lo <= hi, hi <= Len(content),
         NEW pattern, NEW w \in AllMatches(Sub(content, lo, hi), pattern)
  PROVE  \E m \in AllMatches(content, pattern) :
            /\ m.start = lo + w.start
            /\ m.end = lo + w.end \/ (w.end = hi - lo /\ hi <= m.end)
<1> DEFINE part == Sub(content, lo, hi)
           s == w.start
           e == w.end
           from == lo + s
           to   == lo + e
           first == content[from + 1]
           inside == Between(content, from, to)
<1>1. part \in Seq(Int) /\ Len(part) = hi - lo /\ IsWindow(content, part, lo, hi)
  BY SubItems DEF IsWindow
<1> HIDE DEF part
<1>2. /\ s \in Nat /\ e \in Nat /\ s < e /\ e <= hi - lo
      /\ [start |-> s, end |-> e] \in AllMatches(part, pattern)
  <2>1. w \in AllMatches(part, pattern)
    BY DEF part
  <2> QED
    BY <1>1, <2>1, MatchRanges
<1> HIDE DEF s, e
<1>3. from \in Nat /\ to \in Nat /\ from < to /\ to <= hi /\ to <= Len(content)
  BY <1>2
<1>4. MarksMatch(pattern, part[s + 1], part[e], Between(part, s, e),
                 s + 1 < e, e < Len(part) => part[e + 1] \in White)
  BY <1>1, <1>2, MatchesAre
<1>5. /\ part[s + 1] = first /\ part[e] = content[to]
      /\ Between(part, s, e) = inside
      /\ e < Len(part) => part[e + 1] = content[to + 1]
  <2>1. Alike(content, part, lo, s, e)
    BY <1>1, <1>2, SameMarks
  <2> QED
    BY <2>1 DEF Alike
<1>6. s + 1 < e <=> from + 1 < to
  BY <1>2
<1>7. e < Len(part) \/ (e = hi - lo /\ to = hi)
  BY <1>1, <1>2
<1> HIDE DEF from, to, first, inside
<1>8. CASE MarksMatch(pattern, first, content[to], inside, from + 1 < to,
                      to < Len(content) => content[to + 1] \in White)
  <2> DEFINE here == [start |-> from, end |-> to]
  <2>1. here \in AllMatches(content, pattern)
    BY <1>3, <1>8, MatchesAre DEF first, inside
  <2>2. here.start = lo + w.start /\ here.end = lo + w.end
    BY DEF from, to, s, e
  <2> QED
    BY <2>1, <2>2
<1>9. CASE ~MarksMatch(pattern, first, content[to], inside, from + 1 < to,
                       to < Len(content) => content[to + 1] \in White)
  <2>1. /\ pattern = "base" /\ first = Scheme /\ from + 1 < to
        /\ White \cap (inside \cup {content[to]}) = {}
        /\ e < Len(part) => content[to + 1] \in White
        /\ ~(to < Len(content) => content[to + 1] \in White)
    BY <1>4, <1>5, <1>6, <1>9, Zenon DEF MarksMatch
  <2>2. e = hi - lo /\ to = hi
    BY <1>7, <2>1
  <2> DEFINE ends == {Len(content)} \cup {k \in hi .. Len(content) : content[k + 1] \in White}
             last == Min(ends)
  <2>3. ends \in SUBSET Nat /\ ends # {}
    OBVIOUS
  <2>4. last \in ends /\ \A k \in ends : last <= k
    <3> HIDE DEF ends
    <3> QED
      BY <2>3, MinIsLeast
  <2> HIDE DEF last
  <2>5. last \in hi .. Len(content) /\ (last < Len(content) => content[last + 1] \in White)
    BY <2>4
  <2>6. ASSUME NEW k \in hi + 1 .. last
        PROVE  content[k] \notin White
    <3> SUFFICES ASSUME content[k] \in White
                 PROVE  FALSE
      OBVIOUS
    <3>1. k - 1 \in hi .. Len(content) /\ (k - 1) + 1 = k /\ ~(last <= k - 1)
      BY <2>5
    <3>2. k - 1 \in ends
      BY <3>1
    <3> QED
      BY <2>4, <3>1, <3>2
  <2>7. ASSUME NEW k \in from + 2 .. last
        PROVE  content[k] \notin White
    <3>1. CASE k \in from + 2 .. to - 1
      BY <2>1, <3>1 DEF inside, Between
    <3>2. CASE k = to
      BY <2>1, <3>2
    <3>3. CASE k \in hi + 1 .. last
      BY <2>6, <3>3
    <3> QED
      BY <1>3, <2>2, <2>5, <3>1, <3>2, <3>3
  <2>8. from + 1 < last /\ last \in Nat /\ last <= Len(content)
    BY <1>3, <2>1, <2>2, <2>5
  <2> HIDE DEF ends
  <2>9. White \cap (Between(content, from, last) \cup {content[last]}) = {}
    <3>1. last \in from + 2 .. last /\ \A k \in from + 2 .. last - 1 : k \in from + 2 .. last
      BY <1>3, <2>8
    <3> QED
      BY <2>7, <3>1 DEF Between
  <2>10. MarksMatch(pattern, content[from + 1], content[last], Between(content, from, last),
                    from + 1 < last, last < Len(content) => content[last + 1] \in White)
    BY <2>1, <2>5, <2>8, <2>9, Zenon DEF MarksMatch, first
  <2> DEFINE far == [start |-> from, end |-> last]
  <2>11. far \in AllMatches(content, pattern)
    <3>1. from < last
      BY <1>3, <2>8
    <3> QED
      BY <1>3, <2>8, <2>10, <3>1, MatchesAre
  <2>12. far.start = lo + w.start /\ w.end = hi - lo /\ hi <= far.end
    BY <2>2, <2>5 DEF from, s, e
  <2> QED
    BY <2>11, <2>12
<1> QED
  BY <1>8, <1>9

(* A match found in the text is found in a window that shows it, if no     *)
(* match found has the beginning of the window inside.                     *)
LEMMA FoundInWindow ==
  ASSUME NEW content \in Seq(Int), NEW lo \in Nat, NEW hi \in Nat, hi <= Len(content),
         NEW pattern, NEW x \in FindIter(content, pattern), lo <= x.start, x.end <= hi,
         \A f \in FindIter(content, pattern) : ~Straddles(f, lo)
  PROVE  [start |-> x.start - lo, end |-> x.end - lo] \in FindIter(Sub(content, lo, hi), pattern)
<1> DEFINE part == Sub(content, lo, hi)
           all == AllMatches(content, pattern)
           local == AllMatches(part, pattern)
           Shift(m) == [start |-> m.start - lo, end |-> m.end - lo]
           Open(found, n) == ~\E f \in found : Straddles(f, n.start)
           Before(m) == {n \in all : n.start < m.start}
           v == Shift(x)
           BeforeV == {n \in local : n.start < v.start}
<1>1. PICK found \in SUBSET Before(x) :
        Open(found, x) /\ \A n \in Before(x) : n \in found <=> Open(found, n)
  BY DEF FindIter
<1>2. x \in all
  BY DEF FindIter
<1>3. ASSUME NEW m \in all
      PROVE  m.start \in Nat /\ m.end \in Nat /\ m.start < m.end /\ m = [start |-> m.start, end |-> m.end]
  BY <1>3, MatchRanges
<1>5. lo <= hi
  BY <1>2, <1>3
<1>4. ASSUME NEW n \in local
      PROVE  n.start \in Nat /\ n.end \in Nat /\ n.start < n.end /\ n = [start |-> n.start, end |-> n.end]
  <2>1. part \in Seq(Int)
    BY <1>5, SubItems
  <2> HIDE DEF part
  <2> QED
    BY <2>1, <1>4, MatchRanges
<1> HIDE DEF all
<1>6. ASSUME NEW c \in found
      PROVE  c \in FindIter(content, pattern)
  <2>1. c \in Before(x) /\ Open(found, c)
    BY <1>1
  <2> DEFINE earlier == {n \in found : n.start < c.start}
  <2>2. earlier \in SUBSET Before(c) /\ Open(earlier, c)
    BY <1>1, <2>1
  <2>3. ASSUME NEW n \in Before(c)
        PROVE  n \in earlier <=> Open(earlier, n)
    <3>1. n \in Before(x)
      BY <1>2, <1>3, <2>1
    <3>2. ASSUME NEW f \in found, Straddles(f, n.start)
          PROVE  f \in earlier
      BY <1>1, <1>3, <2>1, <2>3, <3>2 DEF Straddles
    <3>3. Open(earlier, n) <=> Open(found, n)
      BY <3>2
    <3> QED
      BY <1>1, <2>3, <3>1, <3>3
  <2> QED
    BY <2>1, <2>2, <2>3 DEF FindIter, all
<1>7. ASSUME NEW c \in found, NEW k \in Nat, lo <= k, Straddles(c, k)
      PROVE  lo <= c.start
  <2>1. c \in all /\ ~Straddles(c, lo)
    BY <1>1, <1>6
  <2> QED
    BY <1>3, <1>7, <2>1 DEF Straddles
<1> DEFINE shifted == {Shift(c) : c \in {c \in found : lo <= c.start}}
<1>8. ASSUME NEW c \in found
      PROVE  c \in all /\ c.start < x.start /\ c.end <= x.start
  <2>1. c \in all /\ c.start < x.start /\ ~Straddles(c, x.start)
    BY <1>1
  <2> QED
    BY <1>2, <1>3, <2>1 DEF Straddles
<1>shift. ASSUME NEW m \in all, lo <= m.start, m.end <= hi
      PROVE  Shift(m) \in local
  <2> DEFINE s == m.start - lo
             e == m.end - lo
  <2>1. s \in Nat /\ e \in Nat /\ m = [start |-> lo + s, end |-> lo + e] /\ lo + e <= hi
    BY <1>3, <1>shift
  <2> HIDE DEF s, e
  <2>2. [start |-> s, end |-> e] \in local
    BY <2>1, MatchInWindow DEF all
  <2> QED
    BY <2>2 DEF s, e
<1>9. v.start = x.start - lo /\ v \in local
  BY <1>2, <1>shift
<1>10. ASSUME NEW c \in found, lo <= c.start
       PROVE  Shift(c) \in BeforeV /\ Shift(c).start = c.start - lo /\ Shift(c).end = c.end - lo
  <2>1. c \in all /\ c.start < x.start /\ c.end <= hi
    BY <1>2, <1>3, <1>8
  <2>2. Shift(c) \in local
    BY <1>10, <2>1, <1>shift
  <2> QED
    BY <1>2, <1>3, <1>9, <2>1, <2>2
<1> HIDE DEF local, part, v
<1>11. shifted \in SUBSET BeforeV
  BY <1>10
<1>12. ASSUME NEW n, NEW m, n.start \in Nat, m.start = lo + n.start
       PROVE  Open(shifted, n) <=> Open(found, m)
  <2>1. ASSUME NEW f \in found, Straddles(f, m.start)
        PROVE  \E g \in shifted : Straddles(g, n.start)
    <3>1. lo <= f.start
      BY <1>7, <1>12, <2>1
    <3>2. Straddles(Shift(f), n.start)
      BY <1>3, <1>8, <1>12, <2>1, <3>1 DEF Straddles
    <3> QED
      BY <3>1, <3>2
  <2>2. ASSUME NEW g \in shifted, Straddles(g, n.start)
        PROVE  \E f \in found : Straddles(f, m.start)
    <3>1. PICK f \in found : lo <= f.start /\ g = Shift(f)
      OBVIOUS
    <3>2. g.start = f.start - lo /\ g.end = f.end - lo
      BY <3>1
    <3>3. Straddles(f, m.start)
      BY <1>3, <1>8, <1>12, <2>2, <3>2 DEF Straddles
    <3> QED
      BY <3>3
  <2> QED
    BY <2>1, <2>2
<1>13. Open(shifted, v)
  <2>1. v.start \in Nat /\ x.start = lo + v.start
    BY <1>2, <1>3, <1>4, <1>9
  <2> HIDE DEF shifted
  <2>2. Open(shifted, v) <=> Open(found, x)
    BY <1>12, <2>1
  <2> QED
    BY <1>1, <2>2
<1>14. ASSUME NEW n \in BeforeV
       PROVE  n \in shifted <=> Open(shifted, n)
  <2>1. n \in local /\ n.start \in Nat /\ n.start < x.start - lo
    BY <1>4, <1>9
  <2>2. PICK m \in all : /\ m.start = lo + n.start
                         /\ m.end = lo + n.end \/ (n.end = hi - lo /\ hi <= m.end)
    BY <1>5, <2>1, MatchOfWindow DEF local, part, all
  <2>3. m \in Before(x)
    BY <1>2, <1>3, <2>1, <2>2
  <2>4. m \in found <=> Open(shifted, n)
    BY <1>1, <1>12, <2>1, <2>2, <2>3
  <2>5. CASE m.end = lo + n.end
    <3>1. m \in found => n \in shifted
      <4>1. n = Shift(m)
        BY <1>3, <1>4, <2>1, <2>2, <2>5
      <4>2. lo <= m.start
        BY <2>1, <2>2
      <4> QED
        BY <4>1, <4>2
    <3>2. n \in shifted => m \in found
      <4> SUFFICES ASSUME n \in shifted PROVE m \in found
        OBVIOUS
      <4>1. PICK c \in found : lo <= c.start /\ n = Shift(c)
        OBVIOUS
      <4>2. n.start = c.start - lo /\ n.end = c.end - lo
        BY <4>1
      <4>3. c.start = m.start /\ c.end = m.end
        BY <1>3, <1>8, <2>1, <2>2, <2>5, <4>2
      <4>4. c = m
        BY <1>3, <1>8, <2>2, <4>3
      <4> QED
        BY <4>4
    <3> QED
      BY <2>4, <3>1, <3>2
  <2>6. CASE n.end = hi - lo /\ hi <= m.end
    <3>1. m \notin found
      BY <1>2, <1>3, <1>8, <2>3, <2>6
    <3>2. n \notin shifted
      <4> SUFFICES ASSUME n \in shifted PROVE FALSE
        OBVIOUS
      <4>1. PICK c \in found : n = Shift(c)
        OBVIOUS
      <4>2. n.end = c.end - lo
        BY <4>1
      <4> QED
        BY <1>2, <1>3, <1>8, <2>6, <4>2
    <3> QED
      BY <2>4, <3>1, <3>2
  <2> QED
    BY <2>2, <2>5, <2>6
<1> HIDE DEF shifted
<1>15. v \in FindIter(part, pattern)
  BY <1>9, <1>11, <1>13, <1>14 DEF FindIter, local
<1> QED
  BY <1>15 DEF part, v

(* What overlaps a quote that a chunk keeps, in a paragraph, and does not  *)
(* begin before the chunk is shown in full if half the overlap holds it    *)
(* and half the quote, but for two characters.                             *)
LEMMA SpanShown ==
  ASSUME NEW content \in Seq(Int), NEW start \in Nat, NEW end \in Nat,
         NEW coreStart \in Nat, NEW coreEnd \in Nat,
         Shows(content, start, end, coreStart, coreEnd),
         NEW p \in Paragraphs(content), NEW from \in Nat, NEW to \in Nat,
         p.start <= from, to <= p.end, start <= from,
         NEW a \in Nat, NEW b \in Nat, start <= a, a < b, b <= end, Middle(a, b) < coreEnd,
         a < to, from < b, (to - from) + (b - a + 1) \div 2 <= MaxOverlap \div 2 + 2
  PROVE  to <= end
<1> DEFINE mid  == Middle(a, b)
           half == MaxOverlap \div 2
           less == (b - a) \div 2
           more == (b - a + 1) \div 2
<1>1. p.start \in Nat /\ p.end \in Nat
  BY ParagraphsApart
<1>2. MaxOverlap \in Nat /\ half \in Nat /\ half <= MaxOverlap - half
  <2>1. MaxOverlap \in Nat
    BY SizesAssumption
  <2> QED
    BY <2>1
<1>3. less \in Nat /\ more \in Nat /\ less + more = b - a
  OBVIOUS
<1>4. mid = a + less
  BY DEF Middle
<1>5. mid < coreEnd /\ (to - from) + more <= half + 2
  OBVIOUS
<1>6. (p.start < end /\ start < p.end) =>
           \/ start <= p.start /\ p.end <= end
           \/ end = p.end \/ coreEnd = end - MaxOverlap + half
  BY DEF Shows
<1> HIDE DEF mid, half, less, more
<1> SUFFICES ASSUME end < to PROVE FALSE
  OBVIOUS
<1>7. p.start < end /\ start < p.end
  BY <1>1
<1>8. coreEnd = end - MaxOverlap + half
  BY <1>1, <1>6, <1>7
<1>9. a + less < end - MaxOverlap + half
  BY <1>4, <1>5, <1>8
<1>10. from < a + less + more
  BY <1>3
<1> QED
  BY <1>2, <1>3, <1>5, <1>9, <1>10

(* Two passes confirm a typo or a punctuation error only where the chunk   *)
(* finds no protected span.                                                *)
LEMMA ConfirmedUnprotected ==
  ASSUME NEW c, NEW m, NEW pick,
         IssueOf(c, m, pick).level = "confirmed",
         IssueOf(c, m, pick).class.category \in {"typo", "punctuation"}
  PROVE  ~InProtected(text, c, PlaceOf(c, m, pick), scenario.profile, m.class.category)
         /\ m.class.category # "grammar"
<1> DEFINE candidate == Candidate(m, pick)
           verdict == pick.opinion.verdict
           place   == PlaceOf(c, m, pick)
           protected == InProtected(text, c, place, scenario.profile, candidate.class.category)
<1>1. /\ Level(candidate, verdict, protected) = "confirmed"
      /\ ClassOf(candidate, verdict).category \in {"typo", "punctuation"}
  BY DEF IssueOf, IssueAt, text
<1>2. candidate.class = m.class
  BY DEF Candidate
<1> HIDE DEF protected, place, verdict, candidate
<1>3. ~Reclassified(candidate, verdict) /\ ~protected
  BY <1>1 DEF Level
<1>4. candidate.class.category = ClassOf(candidate, verdict).category
  BY <1>3 DEF Reclassified
<1> QED
  BY <1>1, <1>2, <1>3, <1>4 DEF protected, place

(* A span that a window finds protects what it overlaps.                   *)
LEMMA FoundProtects ==
  ASSUME NEW content \in Seq(Int), NEW c \in Records, NEW a \in Nat, NEW b \in Nat,
         NEW from \in Nat, NEW to \in Nat, c.start <= a, a < to, from < b,
         NEW profile, NEW pattern \in Patterns(profile), NEW category, category # "grammar",
         [start |-> from - c.start, end |-> to - c.start]
            \in FindIter(Sub(content, c.start, c.end), pattern)
  PROVE  InProtected(content, c, [start |-> a, end |-> b], profile, category)
<1> DEFINE lo == c.start
           span == [start |-> from - lo, end |-> to - lo]
           range == [start |-> a, end |-> b]
           local == [start |-> range.start - lo, end |-> range.end - lo]
<1>1. lo \in Nat
  BY DEF Records
<1>2. Overlap(span, local)
  <2>1. /\ span.start = from - lo /\ span.end = to - lo
        /\ local.start = a - lo /\ local.end = b - lo
    OBVIOUS
  <2> HIDE DEF span, local, lo
  <2> QED
    BY <1>1, <2>1 DEF Overlap
<1> HIDE DEF span, local, range
<1> QED
  BY <1>2 DEF InProtected, span, local, range

(* A confirmed typo or punctuation issue touches no protected span of the  *)
(* text, wherever the windows end: a chunk that keeps the quote shows the  *)
(* span in full and finds it.                                              *)
THEOREM ProtectedIsRespected == Spec => []ConfirmedOutsideProtected
<1>1. CutInv /\ FindInv => ConfirmedOutsideProtected
  <2> SUFFICES ASSUME CutInv, FindInv, NEW i \in DOMAIN picks, NEW m \in scenario.mistakes,
                      Keeps(chunks[i], m, picks[i][m]),
                      IssueOf(chunks[i], m, picks[i][m]).level = "confirmed",
                      IssueOf(chunks[i], m, picks[i][m]).class.category \in {"typo", "punctuation"},
                      NEW pattern \in Patterns(scenario.profile),
                      NEW span \in FindIter(text, pattern),
                      ShownBeside(chunks[i], picks[i][m].at, span),
                      \A f \in FindIter(text, pattern) : ~Straddles(f, chunks[i].start),
                      Overlap(IssueOf(chunks[i], m, picks[i][m]), span)
               PROVE  FALSE
    BY DEF ConfirmedOutsideProtected, Reports
  <2> DEFINE c == chunks[i]
             pick == picks[i][m]
             r == IssueOf(c, m, pick)
             a == pick.at.start
             b == pick.at.end
  <2>1. /\ text \in Seq(Int) /\ scenario \in Scenarios /\ c \in Records /\ Fits(text, c)
        /\ pick \in Options(c, m) /\ PlaceOf(c, m, pick) # None
    <3>1. WhollyCut /\ i \in DOMAIN chunks /\ scenario \in Scenarios
      BY DEF FindInv, CutInv
    <3>2. pick # None /\ PlaceOf(c, m, pick) # None
      BY DEF Keeps
    <3>3. pick \in {None} \cup Options(c, m)
      BY DEF FindInv
    <3> QED
      BY <3>1, <3>2, <3>3 DEF WhollyCut, Divided
  <2>2. r.level = "confirmed" /\ r.class.category \in {"typo", "punctuation"} /\ Overlap(r, span)
    OBVIOUS
  <2>3. \/ Covers(c, span)
        \/ /\ InParagraph(span)
           /\ (span.end - span.start) + (b - a + 1) \div 2 <= MaxOverlap \div 2 + 2
    BY DEF ShownBeside
  <2>4. \A f \in FindIter(text, pattern) : ~Straddles(f, c.start)
    OBVIOUS
  <2> HIDE DEF c, pick
  <2>5. Sortable(r) /\ Covers(pick.at, r)
    BY <2>1, IssueInQuote
  <2>6. /\ PlaceOf(c, m, pick) = [start |-> a, end |-> b] /\ Accepted(c, pick.at)
    BY <2>1, PlacedAtQuote
  <2>7. a \in Nat /\ b \in Nat /\ a < b /\ c.start <= a /\ b <= c.end
    BY <2>1, OptionsHold
  <2>8. span.start \in Nat /\ span.end \in Nat /\ span.start < span.end /\ span.end <= Len(text)
    <3>1. span \in AllMatches(text, pattern)
      BY DEF FindIter
    <3> QED
      BY <2>1, <3>1, MatchRanges
  <2> HIDE DEF r
  <2>9. a < span.end /\ span.start < b
    <3>1. r.start \in Int /\ r.end \in Int /\ a <= r.start /\ r.end <= b
      BY <2>5 DEF Sortable, Covers
    <3>2. r.start < span.end /\ span.start < r.end
      BY <2>2 DEF Overlap
    <3> HIDE DEF a, b
    <3> QED
      BY <2>7, <2>8, <3>1, <3>2
  <2>10. c.coreStart <= Middle(a, b) /\ Middle(a, b) < c.coreEnd
    BY <2>6 DEF Accepted, Middle
  <2>11. /\ c.start \in Nat /\ c.end \in Nat /\ c.coreStart \in Nat /\ c.coreEnd \in Nat
         /\ c.end <= Len(text) /\ Shows(text, c.start, c.end, c.coreStart, c.coreEnd)
    BY <2>1 DEF Records, Fits
  <2>12. c.start <= span.start
    <3>1. ~Straddles(span, c.start)
      BY <2>4
    <3> HIDE DEF a, b
    <3> QED
      BY <2>7, <2>8, <2>9, <2>11, <3>1 DEF Straddles
  <2>13. span.end <= c.end
    <3>1. CASE Covers(c, span)
      BY <3>1 DEF Covers
    <3>2. CASE /\ InParagraph(span)
               /\ (span.end - span.start) + (b - a + 1) \div 2 <= MaxOverlap \div 2 + 2
      <4>1. PICK p \in Paragraphs(text) : p.start <= span.start /\ span.end <= p.end
        BY <3>2 DEF InParagraph, Covers
      <4> DEFINE lo == c.start
                 hi == c.end
                 from == c.coreStart
                 to == c.coreEnd
                 first == span.start
                 last == span.end
      <4>2. /\ text \in Seq(Int) /\ a \in Nat /\ b \in Nat /\ a < b
            /\ lo \in Nat /\ hi \in Nat /\ from \in Nat /\ to \in Nat
            /\ Shows(text, lo, hi, from, to) /\ Middle(a, b) < to
            /\ lo <= a /\ b <= hi /\ first \in Nat /\ last \in Nat /\ lo <= first
            /\ p.start <= first /\ last <= p.end /\ a < last /\ first < b
            /\ (last - first) + (b - a + 1) \div 2 <= MaxOverlap \div 2 + 2
        BY <2>1, <2>7, <2>8, <2>9, <2>10, <2>11, <2>12, <3>2, <4>1
      <4> HIDE DEF lo, hi, from, to, a, b, first, last
      <4>3. last <= hi
        BY <4>2, SpanShown, ZenonT(40)
      <4> QED
        BY <4>3 DEF hi, last
    <3> QED
      BY <2>3, <3>1, <3>2
  <2>14. [start |-> span.start - c.start, end |-> span.end - c.start]
           \in FindIter(Sub(text, c.start, c.end), pattern)
    BY <2>1, <2>4, <2>11, <2>12, <2>13, FoundInWindow
  <2>15. ~InProtected(text, c, [start |-> a, end |-> b], scenario.profile, m.class.category)
         /\ m.class.category # "grammar"
    BY <2>2, <2>6, ConfirmedUnprotected DEF r
  <2> HIDE DEF a, b
  <2> QED
    BY <2>1, <2>7, <2>8, <2>9, <2>14, <2>15, FoundProtects
<1> QED
  BY <1>1, CutInvariant, FindInvariant, PTL

-----------------------------------------------------------------------------
(* A mistake is reported once                                              *)

(* A quote that is located, in a chunk that accepts it, is a candidate.    *)
LEMMA PlacedWhenLocated ==
  ASSUME text \in Seq(Int), scenario \in Scenarios, NEW c \in Records, Fits(text, c),
         NEW m \in scenario.mistakes, NEW pick \in Options(c, m), Accepted(c, pick.at),
         Locate(Sub(text, c.start, c.end), Candidate(m, pick).quote,
                pick.context.before, pick.context.after) # None
  PROVE  PlaceOf(c, m, pick) # None
<1> DEFINE a == pick.at.start
           b == pick.at.end
           lo == c.start
           hi == c.end
           quote  == Sub(text, a, b)
           before == pick.context.before
           after  == pick.context.after
           found == Locate(Sub(text, lo, hi), quote, before, after)
           range == [start |-> lo + found.at, end |-> lo + found.at + Len(quote)]
<1>1. /\ a \in Nat /\ b \in Nat /\ a < b /\ lo <= a /\ b <= hi
      /\ before = None \/ before.text = Sub(text, Most(lo, a - 1), a)
      /\ after = None \/ after.text = Sub(text, b, Least(hi, b + 1))
  BY OptionsHold
<1>2. lo \in Nat /\ hi \in Nat /\ hi <= Len(text)
  BY DEF Records, Fits
<1>3. /\ found # None
      /\ PlaceOf(c, m, pick) = IF found = None THEN None
                               ELSE IF Accepted(c, range) THEN range ELSE None
  BY DEF PlaceOf, ResolveAt, Candidate
<1>4. Accepted(c, [start |-> a, end |-> b])
  BY DEF Accepted
<1> HIDE DEF lo, hi, a, b, before, after
<1>5. found = [at |-> a - lo]
  BY <1>1, <1>2, <1>3, LocatesAt
<1>6. Len(quote) = b - a
  <2>1. a <= b /\ b <= Len(text)
    BY <1>1, <1>2
  <2> QED
    BY <1>1, <2>1, SubItems
<1>7. range = [start |-> a, end |-> b]
  <2> DEFINE k == found.at
             n == Len(quote)
  <2>1. k = a - lo /\ n = b - a
    BY <1>5, <1>6
  <2> HIDE DEF k, n
  <2>2. lo + k = a /\ lo + k + n = b
    BY <1>1, <1>2, <2>1
  <2> QED
    BY <2>2 DEF k, n
<1>8. PlaceOf(c, m, pick) = range
  BY <1>3, <1>4, <1>7
<1>9. range # None
  <2>1. DOMAIN range = {"start", "end"} /\ DOMAIN None = {"none"}
    BY DEF None
  <2> QED
    BY <2>1
<1> QED
  BY <1>8, <1>9

(* A short quote that is not blank is accepted by one chunk, which shows   *)
(* it in full.                                                             *)
LEMMA OneChunkAccepts ==
  ASSUME WhollyCut, NEW p \in Paragraphs(text), NEW a \in Nat, NEW b \in Nat,
         ShortQuote(p, a, b), ~Blank(Sub(text, a, b))
  PROVE  \E j \in DOMAIN chunks :
           /\ chunks[j].start <= a /\ b <= chunks[j].end
           /\ \A k \in DOMAIN chunks : InCore(chunks[k], Middle(a, b)) <=> k = j
<1> DEFINE mid == Middle(a, b)
<1>1. /\ text \in Seq(Int) /\ Divided(text, chunks, Len(text))
      /\ p.start \in Nat /\ p.end \in Nat /\ p.end <= Len(text)
  <2>1. text \in Seq(Int) /\ Divided(text, chunks, Len(text))
    BY DEF WhollyCut
  <2> QED
    BY <2>1, ParagraphsApart
<1>2. /\ p.start <= a /\ a < b /\ b <= p.end /\ b - a <= MaxOverlap
  BY DEF ShortQuote
<1>3. a \in 0 .. Len(text) /\ b \in 0 .. Len(text)
  BY <1>1, <1>2
<1>4. mid \in Nat /\ p.start <= mid /\ mid < p.end
  <2>1. mid \in Nat /\ a <= mid /\ mid < b
    BY <1>2, MiddleInside
  <2> HIDE DEF mid
  <2> QED
    BY <1>1, <1>2, <2>1
<1>5. ~Void(text, mid)
  <2>1. Void(text, mid) => BlankIn(text, a, b)
    BY <1>3 DEF Void
  <2>2. ~BlankIn(text, a, b)
    BY <1>1, <1>2, <1>3, BlankPart
  <2> QED
    BY <2>1, <2>2
<1>6. PICK j \in DOMAIN chunks : Owners(mid) = {j}
  <2> HIDE DEF mid
  <2> QED
    BY <1>1, <1>4, <1>5, OneOwner
<1>7. Owners(mid) = {k \in DOMAIN chunks : InCore(chunks[k], mid)}
  BY DEF Owners, InCore
<1>8. \A k \in DOMAIN chunks : InCore(chunks[k], mid) <=> k = j
  BY <1>6, <1>7
<1>9. chunks[j].start <= a /\ b <= chunks[j].end
  <2> DEFINE lo == chunks[j].start
             hi == chunks[j].end
             from == chunks[j].coreStart
             to == chunks[j].coreEnd
  <2>1. chunks[j] \in Records /\ Fits(text, chunks[j])
    BY <1>1 DEF Divided
  <2>2. /\ lo \in Nat /\ hi \in Nat /\ from \in Nat /\ to \in Nat
    BY <2>1 DEF Records
  <2>3. /\ lo <= from /\ to <= hi /\ Shows(text, lo, hi, from, to)
    BY <2>1 DEF Fits
  <2>4. from <= Middle(a, b) /\ Middle(a, b) < to
    BY <1>8 DEF InCore
  <2> HIDE DEF lo, hi, from, to, mid
  <2>5. lo <= a /\ b <= hi
    BY <1>1, <1>3, <2>2, <2>3, <2>4, QuotesShown
  <2> QED
    BY <2>5 DEF lo, hi
<1> QED
  BY <1>8, <1>9

LEMMA OnlyOwnerKeeps ==
  ASSUME CutInv, FindInv, phase = "done",
         NEW m \in scenario.mistakes, Cardinality(scenario.mistakes) = 1,
         NEW i \in DOMAIN chunks, Reports(i, m) # None,
         InParagraph(Reports(i, m).at),
         Reports(i, m).at.end - Reports(i, m).at.start <= MaxOverlap,
         \A k \in DOMAIN chunks :
           (Covers(chunks[k], Reports(i, m).at) \/ Reports(k, m) # None)
              => Upholds(k, m, Reports(i, m).at)
  PROVE  \E x : ToSet(issues) = {x} /\ Overlap(x, m)
<1> DEFINE at == Reports(i, m).at
           a  == at.start
           b  == at.end
<1>1. /\ WhollyCut /\ scenario \in Scenarios /\ text \in Seq(Int) /\ DOMAIN picks = DOMAIN chunks
      /\ \A k \in DOMAIN chunks : chunks[k] \in Records /\ Fits(text, chunks[k])
      /\ \A k \in DOMAIN chunks : Reports(k, m) \in {None} \cup Options(chunks[k], m)
  <2>1. WhollyCut /\ pending = {} /\ DOMAIN picks \cup pending = DOMAIN chunks
    BY DEF FindInv
  <2>2. text \in Seq(Int) /\ \A k \in DOMAIN chunks : chunks[k] \in Records /\ Fits(text, chunks[k])
    BY <2>1 DEF WhollyCut, Divided
  <2>3. DOMAIN picks = DOMAIN chunks
    BY <2>1
  <2>4. \A k \in DOMAIN picks : picks[k][m] \in {None} \cup Options(chunks[k], m)
    BY DEF FindInv
  <2> QED
    BY <2>1, <2>2, <2>3, <2>4 DEF Reports, CutInv
<1>2. /\ \A k \in DOMAIN chunks :
           /\ Covers(chunks[k], at) \/ Reports(k, m) # None
           => /\ Reports(k, m) # None /\ Reports(k, m).at = at
              /\ ~Dropped(Reports(k, m).opinion.verdict)
              /\ Locate(Sub(text, chunks[k].start, chunks[k].end), Candidate(m, Reports(k, m)).quote,
                        Reports(k, m).context.before, Reports(k, m).context.after) # None
  BY DEF Upholds
<1>3. a \in Nat /\ b \in Nat /\ a < b
  <2>1. Reports(i, m) \in Options(chunks[i], m)
    BY <1>1
  <2> QED
    BY <1>1, <2>1, OptionsHold
<1>4. PICK p \in Paragraphs(text) : ShortQuote(p, a, b)
  BY <1>3 DEF InParagraph, Covers, ShortQuote
<1>5. ~Blank(Sub(text, a, b))
  <2>1. Locate(Sub(text, chunks[i].start, chunks[i].end), Candidate(m, Reports(i, m)).quote,
               Reports(i, m).context.before, Reports(i, m).context.after) # None
    BY <1>2
  <2>2. Candidate(m, Reports(i, m)).quote = Sub(text, a, b)
    BY DEF Candidate
  <2> QED
    BY <2>1, <2>2 DEF Locate
<1>6. PICK j \in DOMAIN chunks :
        /\ chunks[j].start <= a /\ b <= chunks[j].end
        /\ \A k \in DOMAIN chunks : InCore(chunks[k], Middle(a, b)) <=> k = j
  <2> HIDE DEF a, b
  <2> QED
    BY <1>1, <1>3, <1>4, <1>5, OneChunkAccepts
<1>7. \A k \in DOMAIN chunks : Accepted(chunks[k], at) <=> k = j
  BY <1>6 DEF Accepted, InCore, Middle
<1> DEFINE pick == Reports(j, m)
           x    == IssueOf(chunks[j], m, pick)
<1>8. /\ pick # None /\ pick.at = at /\ ~Dropped(pick.opinion.verdict)
      /\ Locate(Sub(text, chunks[j].start, chunks[j].end), Candidate(m, pick).quote,
                pick.context.before, pick.context.after) # None
  <2>1. Covers(chunks[j], at)
    BY <1>6 DEF Covers
  <2> QED
    BY <1>2, <2>1
<1>9. pick \in Options(chunks[j], m)
  BY <1>1, <1>8
<1>10. PlaceOf(chunks[j], m, pick) # None
  <2>1. Accepted(chunks[j], pick.at)
    BY <1>7, <1>8
  <2> HIDE DEF pick
  <2> QED
    BY <1>1, <1>8, <1>9, <2>1, PlacedWhenLocated
<1>11. Overlap(x, m)
  <2> HIDE DEF pick
  <2> QED
    BY <1>1, <1>9, <1>10, IssueInQuote
<1>12. scenario.mistakes = {m}
  <2>1. IsFiniteSet(scenario.mistakes)
    BY <1>1, ScenariosAssumption
  <2>2. \E n : scenario.mistakes = {n}
    BY <2>1, FS_Singleton
  <2> QED
    BY <2>2
<1>13. MadeBy(chunks[j], picks[j]) = {x}
  <2>1. Keeps(chunks[j], m, picks[j][m])
    BY <1>8, <1>10 DEF Keeps, Reports
  <2> QED
    BY <1>12, <2>1 DEF MadeBy, Reports
<1>14. ASSUME NEW k \in DOMAIN chunks, k # j PROVE MadeBy(chunks[k], picks[k]) = {}
  <2> SUFFICES ASSUME Keeps(chunks[k], m, Reports(k, m)) PROVE FALSE
    BY <1>12 DEF MadeBy, Reports
  <2>1. Reports(k, m) # None /\ PlaceOf(chunks[k], m, Reports(k, m)) # None
    BY DEF Keeps
  <2>2. Reports(k, m) \in Options(chunks[k], m) /\ Reports(k, m).at = at
    BY <1>1, <1>2, <2>1
  <2>3. Accepted(chunks[k], Reports(k, m).at)
    BY <1>1, <2>1, <2>2, PlacedAtQuote
  <2> QED
    BY <1>7, <1>14, <2>2, <2>3
<1>15. ToSet(issues) \subseteq {x}
  <2>1. \A y \in ToSet(issues) : \E k \in DOMAIN chunks : y \in MadeBy(chunks[k], picks[k])
    BY <1>1 DEF FindInv
  <2> HIDE DEF x
  <2> QED
    BY <1>13, <1>14, <2>1
<1>16. x \in ToSet(issues)
  <2>1. \E y \in ToSet(issues) : y \in MadeBy(chunks[j], picks[j])
    <3>1. \A z \in MadeBy(chunks[j], picks[j]) :
            \E y \in ToSet(issues) \cap MadeBy(chunks[j], picks[j]) : y.confidence >= z.confidence
      BY <1>1 DEF FindInv
    <3> QED
      BY <1>13, <3>1
  <2> HIDE DEF x
  <2> QED
    BY <1>13, <2>1
<1> QED
  BY <1>11, <1>15, <1>16

LEMMA ReportedOnceHolds ==
  ASSUME CutInv, FindInv
  PROVE  ReportedOnce
<1> SUFFICES ASSUME phase = "done",
         NEW m \in scenario.mistakes, Cardinality(scenario.mistakes) = 1,
         NEW i \in DOMAIN chunks, Reports(i, m) # None,
         InParagraph(Reports(i, m).at),
         Reports(i, m).at.end - Reports(i, m).at.start <= MaxOverlap,
         \A k \in DOMAIN chunks :
           (Covers(chunks[k], Reports(i, m).at) \/ Reports(k, m) # None)
              => Upholds(k, m, Reports(i, m).at)
    PROVE Cardinality({r \in ToSet(report) : Overlap(r, m)}) = 1
  BY DEF ReportedOnce
<1>1. PICK x : ToSet(issues) = {x} /\ Overlap(x, m)
  BY OnlyOwnerKeeps
<1>2. report \in Seq({x}) /\ Stands({x}, report, x)
  BY <1>1, ReportMerges
<1>3. ToSet(report) = {x}
  <2>1. ToSet(report) \subseteq {x}
    BY <1>2 DEF ToSet
  <2>2. DOMAIN report # {}
    BY <1>2 DEF Stands
  <2> QED
    BY <2>1, <2>2 DEF ToSet
<1>4. {r \in ToSet(report) : Overlap(r, m)} = {x}
  BY <1>1, <1>3
<1> QED
  BY <1>4, FS_Singleton

-----------------------------------------------------------------------------
(* The merge in any order of arrival                                       *)

Hits(f, g) == f[1] < g[2] /\ g[1] < f[2]

(* The findings kept for the problem of e, and those taken for it.         *)
Kept(list, e)    == {Finding(x) : x \in {y \in ToSet(list) : SameProblem(y, e)}}
Seen(list, n, e) == {Finding(list[j]) : j \in {k \in 1 .. n : SameProblem(list[k], e)}}

(* What one more finding of the problem does to those kept.                *)
Take(kept, g) ==
  LET hit == {f \in kept : Hits(f, g)}
  IN IF hit = {} THEN kept \cup {g}
     ELSE IF \E f \in hit : g[5] > f[5] THEN {f \in kept : ~Hits(f, g)} \cup {g} ELSE kept

Upheld(kept, g) == \E f \in kept : Hits(f, g) /\ f[5] >= g[5]

LEMMA Findings ==
  ASSUME NEW x, NEW y
  PROVE  /\ Finding(x)[1] = x.start /\ Finding(x)[2] = x.end /\ Finding(x)[3] = x.class
         /\ Finding(x)[4] = x.suggestion /\ Finding(x)[5] = x.confidence
         /\ Hits(Finding(x), Finding(y)) <=> Overlap(x, y)
  BY DEF Finding, Hits, Overlap

LEMMA Problems ==
  ASSUME NEW x, NEW y, NEW z
  PROVE  /\ SameProblem(x, x) /\ (SameProblem(x, y) <=> SameProblem(y, x))
         /\ SameProblem(x, y) /\ SameProblem(y, z) => SameProblem(x, z)
         /\ Finding(x) = Finding(y) => SameProblem(x, y)
<1>1. Finding(x) = Finding(y) => SameProblem(x, y)
  BY Findings DEF SameProblem
<1> QED
  BY <1>1 DEF SameProblem

(* An issue duplicates at most one of those kept before it.                *)
LEMMA OneDuplicate ==
  ASSUME NEW S, \A x \in S : Sortable(x),
         NEW merged \in Seq(S), NEW issue \in S, Apart(merged),
         \A i \in DOMAIN merged : merged[i].start <= issue.start,
         NEW i \in DOMAIN merged, NEW j \in DOMAIN merged,
         Duplicates(merged[i], issue), Duplicates(merged[j], issue)
  PROVE  i = j
<1> SUFFICES ASSUME i # j PROVE FALSE
  OBVIOUS
<1>1. ~Duplicates(merged[i], merged[j])
  BY DEF Apart
<1>2. SameProblem(merged[i], merged[j])
  BY DEF Duplicates, SameProblem
<1> DEFINE x == merged[i]
           y == merged[j]
<1>3. x \in S /\ y \in S
  OBVIOUS
<1>4. /\ x.start \in Int /\ x.end \in Int /\ y.start \in Int /\ y.end \in Int
      /\ issue.start \in Int /\ x.start <= issue.start /\ y.start <= issue.start
      /\ issue.start < x.end /\ issue.start < y.end
  BY <1>3 DEF Sortable, Duplicates, Overlap
<1> HIDE DEF x, y
<1>5. x.start < y.end /\ y.start < x.end
  BY <1>4
<1> QED
  BY <1>1, <1>2, <1>5 DEF Duplicates, Overlap, x, y

LEMMA MergeIssueTakes ==
  ASSUME NEW S, \A x \in S : Sortable(x),
         NEW merged \in Seq(S), NEW issue \in S, Apart(merged),
         \A i \in DOMAIN merged : merged[i].start <= issue.start, NEW e
  PROVE  LET next == MergeIssue(merged, issue)
         IN /\ ~SameProblem(issue, e) => Kept(next, e) = Kept(merged, e)
            /\ SameProblem(issue, e) =>
                 /\ Kept(next, e) = Take(Kept(merged, e), Finding(issue))
                 /\ Upheld(Kept(next, e), Finding(issue))
                 /\ Upheld(Kept(merged, e), Finding(issue)) => Kept(next, e) = Kept(merged, e)
<1> DEFINE same  == {i \in DOMAIN merged : Duplicates(merged[i], issue)}
           index == Min(same)
           next  == MergeIssue(merged, issue)
           g     == Finding(issue)
           kept  == Kept(merged, e)
           hit   == {f \in kept : Hits(f, g)}
<1>1. /\ Len(merged) \in Nat /\ DOMAIN merged = 1 .. Len(merged)
      /\ \A i \in DOMAIN merged : merged[i] \in S /\ Sortable(merged[i])
      /\ Sortable(issue)
  OBVIOUS
<1>2. \A f : f \in kept <=> \E i \in DOMAIN merged : SameProblem(merged[i], e) /\ f = Finding(merged[i])
  BY DEF Kept, ToSet
<1>3. ASSUME SameProblem(issue, e), NEW i \in DOMAIN merged, SameProblem(merged[i], e)
      PROVE  Hits(Finding(merged[i]), g) <=> i \in same
  <2>1. SameProblem(merged[i], issue)
    BY <1>3 DEF SameProblem
  <2> QED
    BY <2>1, Findings DEF Duplicates
<1>4. Hits(g, g)
  <2>1. Overlap(issue, issue)
    BY <1>1 DEF Overlap, Sortable
  <2> QED
    BY <2>1, Findings
<1>5. g[5] = issue.confidence /\ g[5] >= g[5]
  <2>1. g[5] = issue.confidence
    BY Findings
  <2>2. issue.confidence \in Int
    BY <1>1 DEF Sortable
  <2> HIDE DEF g
  <2> QED
    BY <2>1, <2>2
<1>6. CASE same = {}
  <2>1. next = Append(merged, issue)
    BY <1>6 DEF MergeIssue
  <2>2. ToSet(next) = ToSet(merged) \cup {issue}
    <3>1. /\ DOMAIN next = 1 .. Len(merged) + 1
          /\ next[Len(merged) + 1] = issue /\ \A i \in DOMAIN merged : next[i] = merged[i]
      BY <1>1, <2>1
    <3> HIDE DEF next
    <3>2. DOMAIN next = DOMAIN merged \cup {Len(merged) + 1}
      BY <1>1, <3>1
    <3> QED
      BY <3>1, <3>2 DEF ToSet
  <2> HIDE DEF next, g
  <2>3. CASE ~SameProblem(issue, e)
    <3>1. Kept(next, e) = kept
      BY <2>2, <2>3 DEF Kept
    <3> QED
      BY <2>3, <3>1 DEF next
  <2>4. CASE SameProblem(issue, e)
    <3>1. Kept(next, e) = kept \cup {g}
      BY <2>2, <2>4 DEF Kept, g
    <3>2. hit = {}
      BY <1>2, <1>3, <1>6, <2>4
    <3>3. Kept(next, e) = Take(kept, g)
      BY <3>1, <3>2 DEF Take
    <3>4. Upheld(Kept(next, e), g)
      BY <1>4, <1>5, <3>1 DEF Upheld
    <3>5. ~Upheld(kept, g)
      BY <3>2 DEF Upheld
    <3> QED
      BY <2>4, <3>3, <3>4, <3>5 DEF next, g
  <2> QED
    BY <2>3, <2>4
<1>7. CASE same # {}
  <2>1. index \in DOMAIN merged /\ index \in same
    <3>1. same \in SUBSET Nat
      BY <1>1
    <3>2. index \in same
      <4> HIDE DEF same
      <4> QED
        BY <1>7, <3>1, MinIsLeast
    <3> QED
      BY <3>2
  <2>2. \A i \in same : i = index
    BY <2>1, OneDuplicate
  <2>3. next = IF issue.confidence > merged[index].confidence
               THEN [merged EXCEPT ![index] = issue] ELSE merged
    BY <1>7 DEF MergeIssue
  <2>4. SameProblem(merged[index], issue)
    BY <2>1 DEF Duplicates
  <2> DEFINE old == Finding(merged[index])
  <2>5. old[5] = merged[index].confidence
    BY Findings
  <2> HIDE DEF next, index, same, g, old
  <2>6. SameProblem(issue, e) => SameProblem(merged[index], e)
    BY <2>4 DEF SameProblem
  <2>7. SameProblem(issue, e) => /\ old \in kept /\ Hits(old, g)
                                 /\ \A f \in kept : Hits(f, g) => f = old
    BY <1>2, <1>3, <2>1, <2>2, <2>6 DEF old
  <2>8. CASE issue.confidence > merged[index].confidence
    <3>1. /\ DOMAIN next = DOMAIN merged /\ next[index] = issue
          /\ \A i \in DOMAIN merged : i # index => next[i] = merged[i]
      BY <2>1, <2>3, <2>8
    <3>2. \A f : f \in Kept(next, e) <=>
                   \/ f = g /\ SameProblem(issue, e)
                   \/ \E i \in DOMAIN merged \ {index} : SameProblem(merged[i], e) /\ f = Finding(merged[i])
      <4>1. \A f : f \in Kept(next, e) <=>
                     \E i \in DOMAIN merged : SameProblem(next[i], e) /\ f = Finding(next[i])
        BY <3>1 DEF Kept, ToSet
      <4> QED
        BY <2>1, <3>1, <4>1 DEF g
    <3>3. CASE ~SameProblem(issue, e)
      <4>1. ~SameProblem(merged[index], e)
        BY <2>4, <3>3 DEF SameProblem
      <4>2. \A f : f \in Kept(next, e) <=> f \in kept
        BY <1>2, <3>2, <3>3, <4>1
      <4>3. Kept(next, e) = kept
        <5> HIDE DEF kept
        <5>1. \A A, B : (\A f : f \in A <=> f \in B) => A = B
          OBVIOUS
        <5> QED
          BY <4>2, <5>1
      <4> QED
        BY <3>3, <4>3 DEF next
    <3>4. CASE SameProblem(issue, e)
      <4>1. \A i \in DOMAIN merged : SameProblem(merged[i], e) =>
              (i # index <=> ~Hits(Finding(merged[i]), g))
        BY <1>3, <2>1, <2>2, <3>4
      <4>2. \A f : f \in Kept(next, e) <=> f \in {h \in kept : ~Hits(h, g)} \cup {g}
        BY <1>2, <3>2, <3>4, <4>1
      <4>3. Kept(next, e) = {h \in kept : ~Hits(h, g)} \cup {g}
        <5> HIDE DEF kept
        <5>1. \A A, B : (\A f : f \in A <=> f \in B) => A = B
          OBVIOUS
        <5> QED
          BY <4>2, <5>1
      <4>4. hit # {} /\ \E f \in hit : g[5] > f[5]
        BY <1>5, <2>5, <2>7, <2>8, <3>4
      <4>5. Kept(next, e) = Take(kept, g)
        BY <4>3, <4>4 DEF Take
      <4>6. Upheld(Kept(next, e), g)
        BY <1>4, <1>5, <4>3 DEF Upheld
      <4>7. ~Upheld(kept, g)
        <5>1. ~(old[5] >= g[5])
          <6>1. merged[index].confidence \in Int /\ issue.confidence \in Int
            BY <1>1, <2>1 DEF Sortable
          <6> QED
            BY <1>5, <2>5, <2>8, <6>1
        <5> QED
          BY <2>7, <3>4, <5>1 DEF Upheld
      <4> QED
        BY <3>4, <4>5, <4>6, <4>7 DEF next, g
    <3> QED
      BY <3>3, <3>4
  <2>9. CASE ~(issue.confidence > merged[index].confidence)
    <3>1. next = merged
      BY <2>3, <2>9
    <3>2. CASE ~SameProblem(issue, e)
      BY <3>1, <3>2 DEF next
    <3>3. CASE SameProblem(issue, e)
      <4>1. hit # {} /\ ~\E f \in hit : g[5] > f[5]
        BY <1>5, <2>5, <2>7, <2>9, <3>3
      <4>2. Take(kept, g) = kept
        BY <4>1 DEF Take
      <4>3. old[5] >= g[5]
        <5>1. merged[index].confidence \in Int /\ issue.confidence \in Int
          BY <1>1, <2>1 DEF Sortable
        <5> QED
          BY <1>5, <2>5, <2>9, <5>1
      <4>4. Upheld(kept, g)
        BY <2>7, <3>3, <4>3 DEF Upheld
      <4> QED
        BY <3>1, <3>3, <4>2, <4>4 DEF next, g
    <3> QED
      BY <3>2, <3>3
  <2> QED
    BY <2>8, <2>9
<1> QED
  BY <1>6, <1>7

(* A list in the order of the merge.                                       *)
Arranged(list) ==
  \A i, j \in DOMAIN list : i < j => ~SortedBefore(list[j], list[i])

LEMMA ArrangedStarts ==
  ASSUME NEW S, \A x \in S : Sortable(x), NEW list \in Seq(S), Arranged(list)
  PROVE  \A i, j \in DOMAIN list : i < j => list[i].start <= list[j].start
<1> SUFFICES ASSUME NEW i \in DOMAIN list, NEW j \in DOMAIN list, i < j
             PROVE  list[i].start <= list[j].start
  OBVIOUS
<1>1. ~(list[j].start < list[i].start)
  BY DEF Arranged, SortedBefore
<1>2. list[i] \in S /\ list[j] \in S
  OBVIOUS
<1>3. list[i].start \in Int /\ list[j].start \in Int
  BY <1>2 DEF Sortable
<1> QED
  BY <1>1, <1>3

(* For one problem the order of the merge is an order of the findings.     *)
LEMMA SameFinding ==
  ASSUME NEW x, NEW y, Sortable(x), Sortable(y), SameProblem(x, y),
         ~SortedBefore(x, y), ~SortedBefore(y, x)
  PROVE  Finding(x) = Finding(y)
<1>1. x.class = y.class /\ x.suggestion = y.suggestion
  BY DEF SameProblem
<1>2. x.start = y.start /\ x.end = y.end /\ x.confidence = y.confidence
  <2>1. /\ x.start \in Int /\ x.end \in Int /\ y.start \in Int /\ y.end \in Int
        /\ x.confidence \in Int /\ y.confidence \in Int
    BY DEF Sortable
  <2>2. ~(x.start < y.start) /\ ~(y.start < x.start)
    BY DEF SortedBefore
  <2>3. x.start = y.start => ~(x.end < y.end) /\ ~(y.end < x.end)
    BY DEF SortedBefore
  <2>4. x.start = y.start /\ x.end = y.end =>
          ~(x.confidence > y.confidence) /\ ~(y.confidence > x.confidence)
    BY <1>1 DEF SortedBefore
  <2> QED
    BY <2>1, <2>2, <2>3, <2>4
<1> QED
  BY <1>1, <1>2 DEF Finding

LEMMA FindingsSorted ==
  ASSUME NEW x, NEW y, NEW z, Finding(x) = Finding(y)
  PROVE  /\ SortedBefore(x, z) <=> SortedBefore(y, z)
         /\ SortedBefore(z, x) <=> SortedBefore(z, y)
<1>1. x.start = y.start /\ x.end = y.end /\ x.class = y.class /\ x.confidence = y.confidence
  BY Findings
<1> QED
  BY <1>1 DEF SortedBefore

(* One step of the merge of an arranged list.                              *)
LEMMA RunTakes ==
  ASSUME NEW S, \A x \in S : Sortable(x), NEW list \in Seq(S), Arranged(list),
         NEW upTo, Runs(upTo, list), NEW e, NEW n \in 1 .. Len(list)
  PROVE  /\ ~SameProblem(list[n], e) => /\ Kept(upTo[n], e) = Kept(upTo[n - 1], e)
                                        /\ Seen(list, n, e) = Seen(list, n - 1, e)
         /\ SameProblem(list[n], e) =>
              /\ Kept(upTo[n], e) = Take(Kept(upTo[n - 1], e), Finding(list[n]))
              /\ Upheld(Kept(upTo[n], e), Finding(list[n]))
              /\ Kept(upTo[n], e) = Kept(upTo[n - 1], e)
                   \/ ~Upheld(Kept(upTo[n - 1], e), Finding(list[n]))
              /\ Seen(list, n, e) = Seen(list, n - 1, e) \cup {Finding(list[n])}
<1>1. /\ Len(list) \in Nat /\ n \in Nat /\ n - 1 \in 0 .. Len(list) /\ DOMAIN list = 1 .. Len(list)
      /\ 1 .. n = (1 .. n - 1) \cup {n} /\ \A j \in 1 .. n - 1 : j < n /\ j \in DOMAIN list
      /\ list[n] \in S
  OBVIOUS
<1>2. \A i, j \in DOMAIN list : i < j => list[i].start <= list[j].start
  BY ArrangedStarts
<1> DEFINE merged == upTo[n - 1]
           issue  == list[n]
<1>3. /\ merged \in Seq(S) /\ Apart(merged)
      /\ \A i \in DOMAIN merged : \E j \in 1 .. n - 1 : merged[i] = list[j]
  BY <1>1, <1>2, RunKeeps
<1>4. upTo[n] = MergeIssue(merged, issue)
  BY DEF Runs
<1>5. Seen(list, n, e) = IF SameProblem(issue, e) THEN Seen(list, n - 1, e) \cup {Finding(issue)}
                                                  ELSE Seen(list, n - 1, e)
  BY <1>1 DEF Seen
<1> HIDE DEF merged
<1>6. \A i \in DOMAIN merged : merged[i].start <= issue.start
  BY <1>1, <1>2, <1>3
<1> HIDE DEF issue
<1>7. issue \in S
  BY <1>1 DEF issue
<1> DEFINE next == MergeIssue(merged, issue)
<1>8. /\ ~SameProblem(issue, e) => Kept(next, e) = Kept(merged, e)
      /\ SameProblem(issue, e) =>
                 /\ Kept(next, e) = Take(Kept(merged, e), Finding(issue))
                 /\ Upheld(Kept(next, e), Finding(issue))
                 /\ Upheld(Kept(merged, e), Finding(issue)) => Kept(next, e) = Kept(merged, e)
  BY <1>3, <1>6, <1>7, MergeIssueTakes
<1> HIDE DEF next
<1> QED
  BY <1>4, <1>5, <1>8 DEF merged, issue, next

(* The last finding of a problem stays upheld.                             *)
LEMMA RunUpholds ==
  ASSUME NEW S, \A x \in S : Sortable(x), NEW list \in Seq(S), Arranged(list),
         NEW upTo, Runs(upTo, list)
  PROVE  \A n \in 0 .. Len(list) : \A i \in 1 .. n :
           (\A j \in i .. n : SameProblem(list[j], list[i]) => Finding(list[j]) = Finding(list[i]))
             => Upheld(Kept(upTo[n], list[i]), Finding(list[i]))
<1> DEFINE Latest(n, i) ==
             \A j \in i .. n : SameProblem(list[j], list[i]) => Finding(list[j]) = Finding(list[i])
           Good(n) == \A i \in 1 .. n : Latest(n, i) => Upheld(Kept(upTo[n], list[i]), Finding(list[i]))
           Bad == {n \in 0 .. Len(list) : ~Good(n)}
<1>1. Len(list) \in Nat
  OBVIOUS
<1>2. ASSUME NEW n \in 1 .. Len(list), Good(n - 1) PROVE Good(n)
  <2> SUFFICES ASSUME NEW i \in 1 .. n, Latest(n, i)
               PROVE  Upheld(Kept(upTo[n], list[i]), Finding(list[i]))
    OBVIOUS
  <2>1. CASE SameProblem(list[n], list[i])
    <3>1. Finding(list[n]) = Finding(list[i])
      <4>1. n \in i .. n
        OBVIOUS
      <4> QED
        BY <2>1, <4>1
    <3>2. Upheld(Kept(upTo[n], list[i]), Finding(list[n]))
      BY <2>1, RunTakes
    <3> QED
      BY <3>1, <3>2
  <2>2. CASE ~SameProblem(list[n], list[i])
    <3>1. i # n
      BY <2>2, Problems
    <3>2. i \in 1 .. n - 1 /\ i .. n - 1 \subseteq i .. n
      BY <3>1
    <3>3. Latest(n - 1, i)
      BY <3>2
    <3>4. Upheld(Kept(upTo[n - 1], list[i]), Finding(list[i]))
      BY <1>2, <3>2, <3>3
    <3>5. Kept(upTo[n], list[i]) = Kept(upTo[n - 1], list[i])
      <4>1. \A e : ~SameProblem(list[n], e) => Kept(upTo[n], e) = Kept(upTo[n - 1], e)
        BY RunTakes
      <4> QED
        BY <2>2, <4>1
    <3> QED
      BY <3>4, <3>5
  <2> QED
    BY <2>1, <2>2
<1>3. Good(0)
  OBVIOUS
<1>4. Bad = {}
  <2> HIDE DEF Good
  <2> SUFFICES ASSUME Bad # {} PROVE FALSE
    OBVIOUS
  <2>1. Bad \in SUBSET Nat
    OBVIOUS
  <2>2. PICK m \in Bad : \A k \in Bad : m <= k
    <3> HIDE DEF Bad
    <3> QED
      BY <2>1, LeastNumber
  <2>3. m # 0 /\ m \in 1 .. Len(list) /\ m - 1 \in 0 .. Len(list) /\ ~(m <= m - 1)
    BY <1>1, <1>3
  <2>4. Good(m - 1)
    BY <2>2, <2>3
  <2> QED
    BY <1>2, <2>3, <2>4
<1>5. \A n \in 0 .. Len(list) : Good(n)
  <2> HIDE DEF Good
  <2> QED
    BY <1>4
<1> QED
  BY <1>5

(* A finding that the list had before, or of another problem, leaves the   *)
(* findings of the problem as they are.                                    *)
LEMMA RunSkips ==
  ASSUME NEW S, \A x \in S : Sortable(x), NEW list \in Seq(S), Arranged(list),
         NEW upTo, Runs(upTo, list), NEW e, NEW n \in 1 .. Len(list),
         SameProblem(list[n], e) => Finding(list[n]) \in Seen(list, n - 1, e)
  PROVE  Kept(upTo[n], e) = Kept(upTo[n - 1], e) /\ Seen(list, n, e) = Seen(list, n - 1, e)
<1>0. SameProblem(list[n], e) =>
        /\ Kept(upTo[n], e) = Kept(upTo[n - 1], e)
             \/ ~Upheld(Kept(upTo[n - 1], e), Finding(list[n]))
        /\ Seen(list, n, e) = Seen(list, n - 1, e) \cup {Finding(list[n])}
  BY RunTakes
<1>1. CASE ~SameProblem(list[n], e)
  BY <1>1, RunTakes
<1>2. CASE SameProblem(list[n], e)
  <2>1. PICK i \in 1 .. n - 1 : SameProblem(list[i], e) /\ Finding(list[i]) = Finding(list[n])
    BY <1>2 DEF Seen
  <2>2. /\ n - 1 \in 0 .. Len(list) /\ n \in DOMAIN list /\ i \in DOMAIN list
        /\ \A j \in i .. n - 1 : j \in DOMAIN list /\ i <= j /\ j < n
    OBVIOUS
  <2>3. ASSUME NEW j \in i .. n - 1, SameProblem(list[j], list[i])
        PROVE  Finding(list[j]) = Finding(list[i])
    <3>1. CASE j = i
      BY <3>1
    <3>2. CASE j # i
      <4>1. i < j /\ i \in Int /\ j \in Int
        BY <2>2, <3>2
      <4>2. ~SortedBefore(list[j], list[i]) /\ ~SortedBefore(list[n], list[j])
        BY <2>2, <4>1 DEF Arranged
      <4>3. ~SortedBefore(list[i], list[j])
        BY <2>1, <4>2, FindingsSorted
      <4>4. list[i] \in S /\ list[j] \in S
        BY <2>2
      <4> QED
        BY <2>3, <4>2, <4>3, <4>4, SameFinding
    <3> QED
      BY <3>1, <3>2
  <2>4. Upheld(Kept(upTo[n - 1], list[i]), Finding(list[i]))
    <3> DEFINE m == n - 1
    <3>1. m \in 0 .. Len(list) /\ i \in 1 .. m
          /\ \A j \in i .. m : SameProblem(list[j], list[i]) => Finding(list[j]) = Finding(list[i])
      BY <2>2, <2>3
    <3> HIDE DEF m
    <3>2. Upheld(Kept(upTo[m], list[i]), Finding(list[i]))
      BY <3>1, RunUpholds
    <3> QED
      BY <3>2 DEF m
  <2>5. Kept(upTo[n - 1], list[i]) = Kept(upTo[n - 1], e)
    <3>1. \A y : SameProblem(y, list[i]) <=> SameProblem(y, e)
      BY <2>1, Problems
    <3> QED
      BY <3>1 DEF Kept
  <2>6. Upheld(Kept(upTo[n - 1], e), Finding(list[n]))
    BY <2>1, <2>4, <2>5
  <2>7. Kept(upTo[n], e) = Kept(upTo[n - 1], e)
    BY <1>0, <1>2, <2>6
  <2>8. Seen(list, n, e) = Seen(list, n - 1, e) \cup {Finding(list[n])}
    BY <1>2, RunTakes
  <2> QED
    BY <1>2, <2>7, <2>8
<1> QED
  BY <1>1, <1>2

(* Of two arranged lists with the same findings for a problem the last     *)
(* ones are alike.                                                         *)
LEMMA LastAlike ==
  ASSUME NEW S, \A x \in S : Sortable(x), NEW s \in Seq(S), NEW t \in Seq(S),
         Arranged(s), Arranged(t), NEW e, NEW n \in 1 .. Len(s), NEW m \in 1 .. Len(t),
         SameProblem(s[n], e), SameProblem(t[m], e), Seen(s, n, e) = Seen(t, m, e)
  PROVE  Finding(s[n]) = Finding(t[m])
<1>1. n \in 1 .. n /\ m \in 1 .. m /\ n \in DOMAIN s /\ m \in DOMAIN t
  OBVIOUS
<1>2. Finding(s[n]) \in Seen(t, m, e) /\ Finding(t[m]) \in Seen(s, n, e)
  BY <1>1 DEF Seen
<1>3. PICK j \in 1 .. m : SameProblem(t[j], e) /\ Finding(s[n]) = Finding(t[j])
  BY <1>2 DEF Seen
<1>4. PICK i \in 1 .. n : SameProblem(s[i], e) /\ Finding(t[m]) = Finding(s[i])
  BY <1>2 DEF Seen
<1>5. CASE j = m \/ i = n
  BY <1>3, <1>4, <1>5
<1>6. CASE j # m /\ i # n
  <2>1. j < m /\ i < n /\ j \in DOMAIN t /\ i \in DOMAIN s
    BY <1>6
  <2>2. ~SortedBefore(t[m], t[j]) /\ ~SortedBefore(s[n], s[i])
    BY <1>1, <2>1 DEF Arranged
  <2>3. ~SortedBefore(t[m], s[n])
    BY <1>3, <2>2, FindingsSorted
  <2>4. ~SortedBefore(s[n], t[m])
    BY <1>4, <2>2, FindingsSorted
  <2>5. Sortable(s[n]) /\ Sortable(t[m])
    BY <1>1
  <2>6. SameProblem(s[n], t[m])
    BY Problems
  <2> QED
    BY <2>3, <2>4, <2>5, <2>6, SameFinding
<1> QED
  BY <1>5, <1>6

(* The findings that are kept for a problem depend on those taken only.    *)
LEMMA RunsAgree ==
  ASSUME NEW S, \A x \in S : Sortable(x), NEW s \in Seq(S), NEW t \in Seq(S),
         Arranged(s), Arranged(t), NEW u, NEW v, Runs(u, s), Runs(v, t), NEW e
  PROVE  \A n \in 0 .. Len(s), m \in 0 .. Len(t) :
           Seen(s, n, e) = Seen(t, m, e) => Kept(u[n], e) = Kept(v[m], e)
<1> DEFINE Wrong(n, m) == Seen(s, n, e) = Seen(t, m, e) /\ Kept(u[n], e) # Kept(v[m], e)
           Bad == {k \in Nat : \E n \in 0 .. Len(s), m \in 0 .. Len(t) : k = n + m /\ Wrong(n, m)}
<1>1. Len(s) \in Nat /\ Len(t) \in Nat
  OBVIOUS
<1>2. Kept(u[0], e) = {} /\ Kept(v[0], e) = {}
  <2>1. ToSet(<<>>) = {}
    BY DEF ToSet
  <2> QED
    BY <2>1 DEF Runs, Kept
<1>3. Seen(s, 0, e) = {} /\ Seen(t, 0, e) = {}
  BY DEF Seen
<1>4. ASSUME NEW n \in 1 .. Len(s), SameProblem(s[n], e) PROVE Seen(s, n, e) # {}
  <2>1. n \in 1 .. n
    OBVIOUS
  <2> QED
    BY <1>4, <2>1 DEF Seen
<1>5. ASSUME NEW m \in 1 .. Len(t), SameProblem(t[m], e) PROVE Seen(t, m, e) # {}
  <2>1. m \in 1 .. m
    OBVIOUS
  <2> QED
    BY <1>5, <2>1 DEF Seen
<1>6. ASSUME NEW n \in 0 .. Len(s), NEW m \in 0 .. Len(t), Wrong(n, m),
             \A i \in 0 .. Len(s), j \in 0 .. Len(t) : i + j < n + m => ~Wrong(i, j)
      PROVE  FALSE
  <2>1. /\ n \in Nat /\ m \in Nat
        /\ n # 0 => n \in 1 .. Len(s) /\ n - 1 \in 0 .. Len(s) /\ (n - 1) + m < n + m
        /\ m # 0 => m \in 1 .. Len(t) /\ m - 1 \in 0 .. Len(t) /\ n + (m - 1) < n + m
        /\ n # 0 /\ m # 0 => (n - 1) + (m - 1) < n + m
    BY <1>1
  <2>2. CASE n # 0 /\ (SameProblem(s[n], e) => Finding(s[n]) \in Seen(s, n - 1, e))
    <3>1. Kept(u[n], e) = Kept(u[n - 1], e) /\ Seen(s, n, e) = Seen(s, n - 1, e)
      BY <2>1, <2>2, RunSkips
    <3>2. ~Wrong(n - 1, m)
      BY <1>6, <2>1, <2>2
    <3> QED
      BY <1>6, <3>1, <3>2
  <2>3. CASE m # 0 /\ (SameProblem(t[m], e) => Finding(t[m]) \in Seen(t, m - 1, e))
    <3>1. Kept(v[m], e) = Kept(v[m - 1], e) /\ Seen(t, m, e) = Seen(t, m - 1, e)
      BY <2>1, <2>3, RunSkips
    <3>2. ~Wrong(n, m - 1)
      BY <1>6, <2>1, <2>3
    <3> QED
      BY <1>6, <3>1, <3>2
  <2>4. CASE n = 0 /\ m = 0
    BY <1>2, <1>6, <2>4
  <2>5. CASE n = 0 /\ m # 0 /\ SameProblem(t[m], e)
    BY <1>3, <1>5, <1>6, <2>1, <2>5
  <2>6. CASE m = 0 /\ n # 0 /\ SameProblem(s[n], e)
    BY <1>3, <1>4, <1>6, <2>1, <2>6
  <2>7. CASE /\ n # 0 /\ SameProblem(s[n], e) /\ Finding(s[n]) \notin Seen(s, n - 1, e)
             /\ m # 0 /\ SameProblem(t[m], e) /\ Finding(t[m]) \notin Seen(t, m - 1, e)
    <3>1. Finding(s[n]) = Finding(t[m])
      BY <1>6, <2>1, <2>7, LastAlike
    <3>2. /\ Seen(s, n, e) = Seen(s, n - 1, e) \cup {Finding(s[n])}
          /\ Kept(u[n], e) = Take(Kept(u[n - 1], e), Finding(s[n]))
      BY <2>1, <2>7, RunTakes
    <3>3. /\ Seen(t, m, e) = Seen(t, m - 1, e) \cup {Finding(t[m])}
          /\ Kept(v[m], e) = Take(Kept(v[m - 1], e), Finding(t[m]))
      BY <2>1, <2>7, RunTakes
    <3>4. Seen(s, n - 1, e) = Seen(t, m - 1, e)
      <4>1. \A A, f : f \notin A => A = (A \cup {f}) \ {f}
        OBVIOUS
      <4>2. Seen(s, n, e) = Seen(t, m, e)
        BY <1>6
      <4> QED
        <5>1. Seen(s, n - 1, e) = Seen(s, n, e) \ {Finding(s[n])}
          BY <2>7, <3>2, <4>1
        <5>2. Seen(t, m - 1, e) = Seen(t, m, e) \ {Finding(t[m])}
          BY <2>7, <3>3, <4>1
        <5> QED
          BY <3>1, <4>2, <5>1, <5>2
    <3>5. ~Wrong(n - 1, m - 1)
      BY <1>6, <2>1, <2>7
    <3>6. Kept(u[n - 1], e) = Kept(v[m - 1], e)
      BY <3>4, <3>5
    <3> QED
      BY <1>6, <3>1, <3>2, <3>3, <3>6
  <2> QED
    BY <2>2, <2>3, <2>4, <2>5, <2>6, <2>7
<1>7. Bad = {}
  <2> HIDE DEF Wrong
  <2> SUFFICES ASSUME Bad # {} PROVE FALSE
    OBVIOUS
  <2>1. Bad \in SUBSET Nat
    OBVIOUS
  <2>2. PICK k \in Bad : \A l \in Bad : k <= l
    <3> HIDE DEF Bad
    <3> QED
      BY <2>1, LeastNumber
  <2>3. PICK n \in 0 .. Len(s) : \E m \in 0 .. Len(t) : k = n + m /\ Wrong(n, m)
    OBVIOUS
  <2>4. PICK m \in 0 .. Len(t) : k = n + m /\ Wrong(n, m)
    BY <2>3
  <2>5. ASSUME NEW i \in 0 .. Len(s), NEW j \in 0 .. Len(t), i + j < n + m, Wrong(i, j)
        PROVE  FALSE
    <3>1. i + j \in Bad
      BY <1>1, <2>5
    <3>2. k <= i + j /\ k = n + m
      BY <2>2, <2>4, <3>1
    <3> QED
      BY <1>1, <2>5, <3>2
  <2> QED
    BY <1>6, <2>4, <2>5
<1> SUFFICES ASSUME NEW n \in 0 .. Len(s), NEW m \in 0 .. Len(t) PROVE ~Wrong(n, m)
  OBVIOUS
<1>8. n + m \in Nat
  BY <1>1
<1> HIDE DEF Wrong
<1> QED
  BY <1>7, <1>8

(* deduplicate_issues runs the merge over the list arranged, and sorts     *)
(* what is kept.                                                           *)
Worked(S, list, sorted, upTo) ==
  /\ sorted \in Seq(S) /\ Arranged(sorted) /\ ToSet(sorted) = ToSet(list)
  /\ Runs(upTo, sorted)
  /\ ToSet(Deduplicate(list)) = ToSet(upTo[Len(sorted)])

LEMMA DeduplicateRuns ==
  ASSUME NEW S, \A x \in S : Sortable(x), NEW list \in Seq(S)
  PROVE  \E sorted, upTo : Worked(S, list, sorted, upTo)
<1> DEFINE sorted == StableSort(list, ByProblem(list))
           merged == MergeAll(sorted)
           kept   == Deduplicate(list)
           size   == Len(list)
<1>1. /\ size \in Nat /\ DOMAIN list = 1 .. size
      /\ \A i \in DOMAIN list : list[i] \in S /\ Sortable(list[i])
  OBVIOUS
<1>2. PICK at \in [1 .. size -> 1 .. size] :
        /\ sorted = [m \in 1 .. size |-> list[at[m]]]
        /\ \A i \in 1 .. size : \E m \in 1 .. size : at[m] = i
        /\ \A i, j \in 1 .. size : i < j => <<at[j], at[i]>> \notin ByProblem(list)
  <2>1. Orders(ByProblem(list), size)
    BY <1>1, ProblemsOrder
  <2>2. \E at \in [1 .. size -> 1 .. size] :
          Permutes(StableSort(list, ByProblem(list)), list, ByProblem(list), size, at)
    BY <1>1, <2>1, StableSortSorts
  <2> QED
    BY <2>2 DEF Permutes
<1> HIDE DEF sorted, size
<1>3. /\ sorted \in Seq(S) /\ DOMAIN sorted = 1 .. size
      /\ \A m \in 1 .. size : sorted[m] = list[at[m]]
  <2>1. sorted \in [1 .. size -> S]
    BY <1>1, <1>2
  <2> QED
    BY <1>1, <1>2, <2>1
<1>4. Arranged(sorted)
  <2> SUFFICES ASSUME NEW i \in 1 .. size, NEW j \in 1 .. size, i < j
               PROVE  ~SortedBefore(sorted[j], sorted[i])
    BY <1>3 DEF Arranged
  <2>1. ~SortedBefore(list[at[j]], list[at[i]])
    BY <1>1, <1>2 DEF ByProblem
  <2> QED
    BY <1>3, <2>1
<1>5. ToSet(sorted) = ToSet(list)
  <2>1. \A m \in 1 .. size : at[m] \in 1 .. size
    BY <1>2
  <2> QED
    BY <1>1, <1>2, <1>3, <2>1 DEF ToSet
<1>6. PICK upTo : Runs(upTo, sorted) /\ merged = upTo[Len(sorted)]
  BY <1>3, MergeTakesEach
<1>7. merged \in Seq(S)
  <2>1. \A i, j \in DOMAIN sorted : i < j => sorted[i].start <= sorted[j].start
    BY <1>3, <1>4, ArrangedStarts
  <2> QED
    BY <1>3, <2>1, MergeAllKeeps
<1>8. kept = StableSort(merged, ByRange(merged))
  BY DEF Deduplicate, sorted
<1> HIDE DEF merged
<1> DEFINE left == Len(merged)
<1>9. /\ left \in Nat /\ DOMAIN merged = 1 .. left
      /\ \A i \in DOMAIN merged : merged[i] \in S /\ Sortable(merged[i])
  BY <1>7
<1> HIDE DEF left
<1>10. PICK to \in [1 .. left -> 1 .. left] :
        /\ kept = [m \in 1 .. left |-> merged[to[m]]]
        /\ \A i \in 1 .. left : \E m \in 1 .. left : to[m] = i
  <2>1. Orders(ByRange(merged), left)
    BY <1>9, RangesOrder
  <2>2. \E to \in [1 .. left -> 1 .. left] :
          Permutes(StableSort(merged, ByRange(merged)), merged, ByRange(merged), left, to)
    BY <1>9, <2>1, StableSortSorts
  <2> QED
    BY <2>2, <1>8 DEF Permutes
<1> HIDE DEF kept
<1>11. ToSet(kept) = ToSet(merged)
  <2>1. DOMAIN kept = 1 .. left /\ \A m \in 1 .. left : kept[m] = merged[to[m]] /\ to[m] \in 1 .. left
    BY <1>10
  <2> QED
    BY <1>9, <1>10, <2>1 DEF ToSet
<1>12. Worked(S, list, sorted, upTo)
  BY <1>3, <1>4, <1>5, <1>6, <1>11 DEF Worked, kept
<1> QED
  BY <1>12

(* deduplicate_issues finds the same in lists of the same issues.          *)
LEMMA DeduplicateAgrees ==
  ASSUME NEW S, \A x \in S : Sortable(x), NEW list \in Seq(S), NEW other \in Seq(S),
         ToSet(list) = ToSet(other)
  PROVE  \A x \in ToSet(Deduplicate(list)) :
           \E y \in ToSet(Deduplicate(other)) : Finding(x) = Finding(y)
<1>1. PICK s, u : Worked(S, list, s, u)
  BY DeduplicateRuns
<1>2. PICK t, v : Worked(S, other, t, v)
  BY DeduplicateRuns
<1> SUFFICES ASSUME NEW x \in ToSet(Deduplicate(list))
             PROVE  \E y \in ToSet(Deduplicate(other)) : Finding(x) = Finding(y)
  OBVIOUS
<1>3. /\ s \in Seq(S) /\ t \in Seq(S) /\ Arranged(s) /\ Arranged(t) /\ Runs(u, s) /\ Runs(v, t)
      /\ ToSet(s) = ToSet(t)
      /\ ToSet(Deduplicate(list)) = ToSet(u[Len(s)]) /\ ToSet(Deduplicate(other)) = ToSet(v[Len(t)])
  BY <1>1, <1>2 DEF Worked
<1>4. Seen(s, Len(s), x) = Seen(t, Len(t), x)
  <2>1. DOMAIN s = 1 .. Len(s) /\ DOMAIN t = 1 .. Len(t)
    BY <1>3
  <2>2. /\ Seen(s, Len(s), x) = {Finding(y) : y \in {z \in ToSet(s) : SameProblem(z, x)}}
        /\ Seen(t, Len(t), x) = {Finding(y) : y \in {z \in ToSet(t) : SameProblem(z, x)}}
    BY <2>1 DEF Seen, ToSet
  <2> QED
    BY <1>3, <2>2
<1>5. Kept(u[Len(s)], x) = Kept(v[Len(t)], x)
  <2>1. Len(s) \in 0 .. Len(s) /\ Len(t) \in 0 .. Len(t)
    BY <1>3
  <2> QED
    BY <1>3, <1>4, <2>1, RunsAgree
<1>6. Finding(x) \in Kept(u[Len(s)], x)
  BY <1>3, Problems DEF Kept
<1>7. PICK y \in ToSet(v[Len(t)]) : SameProblem(y, x) /\ Finding(x) = Finding(y)
  <2>1. Finding(x) \in Kept(v[Len(t)], x)
    BY <1>5, <1>6
  <2> QED
    BY <2>1 DEF Kept
<1>8. y \in ToSet(Deduplicate(other))
  BY <1>3, <1>7
<1> QED
  BY <1>7, <1>8

LEMMA ListOfSet ==
  ASSUME NEW T, IsFiniteSet(T)
  PROVE  SetToSeq(T) \in Seq(T) /\ ToSet(SetToSeq(T)) = T
<1> DEFINE order == SetToSeq(T)
           size  == Cardinality(T)
<1>1. size \in Nat /\ ExistsBijection(1 .. size, T)
  BY FS_CardinalityType
<1>2. \E f \in [1 .. size -> T] : IsInjective(f)
  BY <1>1 DEF ExistsBijection, Bijection, Injection
<1>3. order \in [1 .. size -> T] /\ IsInjective(order)
  BY <1>2 DEF SetToSeq
<1> HIDE DEF order
<1>4. order \in Injection(1 .. size, T)
  BY <1>3 DEF Injection
<1>5. Cardinality(1 .. size) = size
  <2>1. 1 \in Int /\ size \in Int /\ (1 > size => size = 0) /\ size - 1 + 1 = size
    BY <1>1
  <2> QED
    BY <2>1, FS_Interval
<1>6. order \in Surjection(1 .. size, T)
  BY <1>4, <1>5, FS_Injection
<1> HIDE DEF size
<1>7. \A x \in T : \E n \in 1 .. size : order[n] = x
  BY <1>6 DEF Surjection
<1>8. order \in Seq(T) /\ ToSet(order) = T
  BY <1>1, <1>3, <1>7 DEF ToSet
<1> QED
  BY <1>8 DEF order

LEMMA OrderFreeHolds ==
  ASSUME CutInv, FindInv
  PROVE  OrderFree
<1> SUFFICES ASSUME phase = "done"
             PROVE  {Finding(r) : r \in ToSet(report)}
                      = {Finding(r) : r \in ToSet(Deduplicate(SetToSeq(ToSet(issues))))}
  BY DEF OrderFree
<1> DEFINE all    == ToSet(issues)
           listed == SetToSeq(all)
<1>1. issues \in Seq(all) /\ report = Deduplicate(issues)
  BY DEF FindInv
<1>2. \A x \in all : Sortable(x)
  BY IssuesAreSortable
<1>3. IsFiniteSet(all)
  <2>1. DOMAIN issues = 1 .. Len(issues) /\ Len(issues) \in Nat
    BY <1>1
  <2>2. IsFiniteSet(1 .. Len(issues))
    BY <2>1, FS_Interval
  <2>3. issues \in [1 .. Len(issues) -> all] /\ \A x \in all : \E i \in 1 .. Len(issues) : issues[i] = x
    BY <1>1, <2>1 DEF ToSet
  <2>4. issues \in Surjection(1 .. Len(issues), all)
    BY <2>3 DEF Surjection
  <2> QED
    BY <2>2, <2>4, FS_Surjection
<1> HIDE DEF all
<1>4. listed \in Seq(all) /\ ToSet(listed) = all
  BY <1>3, ListOfSet
<1>5. ToSet(issues) = ToSet(listed)
  BY <1>4 DEF all
<1> HIDE DEF listed
<1>6. \A x \in ToSet(Deduplicate(issues)) :
        \E y \in ToSet(Deduplicate(listed)) : Finding(x) = Finding(y)
  BY <1>1, <1>2, <1>4, <1>5, DeduplicateAgrees
<1>7. \A x \in ToSet(Deduplicate(listed)) :
        \E y \in ToSet(Deduplicate(issues)) : Finding(x) = Finding(y)
  BY <1>1, <1>2, <1>4, <1>5, DeduplicateAgrees
<1>8. {Finding(r) : r \in ToSet(Deduplicate(issues))} = {Finding(r) : r \in ToSet(Deduplicate(listed))}
  BY <1>6, <1>7
<1> QED
  BY <1>1, <1>8 DEF listed, all

(* However the text is cut and whichever chunk returns first, a mistake    *)
(* that every chunk quotes alike is in the report once, and the findings   *)
(* of the report do not depend on the order.                               *)
THEOREM ReportIsOfTheText == Spec => []ReportOfTheText
<1>1. CutInv /\ FindInv => ReportOfTheText
  BY ReportedOnceHolds, OrderFreeHolds DEF ReportOfTheText
<1> QED
  BY <1>1, CutInvariant, FindInvariant, PTL

-----------------------------------------------------------------------------
(* The document is the one extracted from the file.                        *)
DocInv ==
  /\ scenario \in Scenarios
  /\ phase \in {"read", "cut", "analyze", "done", "failed"}
  /\ phase # "read" => doc = Extract(scenario.file)
  /\ phase \in {"cut", "analyze", "done"} => doc # None
  /\ phase = "read" \/ doc = None => chunks = <<>>

(* Every step of the analysis keeps it.                                    *)
THEOREM DocInvariant == Spec => []DocInv
<1>1. Init => DocInv
  BY DEF Init, DocInv
<1>2. DocInv /\ [Next]_vars => DocInv'
  <2> SUFFICES ASSUME DocInv, [Next]_vars PROVE DocInv'
    OBVIOUS
  <2>1. CASE Read
    BY <2>1 DEF Read, DocInv
  <2>2. CASE CutParagraph
    BY <2>2 DEF CutParagraph, DocInv
  <2>3. CASE CutWindow
    BY <2>3 DEF CutWindow, DocInv
  <2>4. CASE EndCut
    BY <2>4 DEF EndCut, DocInv
  <2>5. CASE Merge
    BY <2>5 DEF Merge, DocInv
  <2>6. ASSUME NEW i \in pending, Analyze(i) PROVE DocInv'
    <3>1. phase = "analyze" /\ phase' \in {"analyze", "failed"}
          /\ doc' = doc /\ scenario' = scenario
      BY <2>6 DEF Analyze
    <3> QED
      BY <3>1 DEF DocInv
  <2>7. CASE UNCHANGED vars
    BY <2>7 DEF vars, DocInv
  <2> QED
    BY <2>1, <2>2, <2>3, <2>4, <2>5, <2>6, <2>7 DEF Next
<1> QED
  BY <1>1, <1>2, PTL DEF Spec

(* A file is analysed in full or refused.                                  *)
THEOREM NothingLeftUnreadHolds == Spec => []NothingLeftUnread
<1>1. DocInv => NothingLeftUnread
  <2> DEFINE file == scenario.file
  <2> SUFFICES ASSUME DocInv, phase \in {"analyze", "done"},
                      file.format = "docx" => Flat(file.events),
                      file.format = "pdf" => \A n \in DOMAIN file.pages :
                         file.pages[n].hidden # <<>> => Readable(file.pages[n]) < SparsePage
               PROVE  /\ Readables(text) = Readables(Visible(file))
                      /\ file.format = "pdf" => Len(file.pages) = file.count
    BY DEF NothingLeftUnread
  <2>1. doc = Extract(file) /\ doc # None /\ Typed(file)
    BY FilesAre DEF DocInv
  <2> HIDE DEF file
  <2>2. /\ Readables(Extract(file).text) = Readables(Visible(file))
        /\ file.format = "pdf" => Len(file.pages) = file.count
    BY <2>1, ExtractedIsSeen
  <2> QED
    BY <2>1, <2>2 DEF text
<1> QED
  BY <1>1, DocInvariant, PTL

-----------------------------------------------------------------------------
(* Every issue has a location                                              *)

(* An issue is the quote or, if an edit is narrowed to it, the mistake.    *)
LEMMA IssueStands ==
  ASSUME text \in Seq(Int), scenario \in Scenarios, NEW c \in Records, Fits(text, c),
         NEW m \in scenario.mistakes, NEW pick \in Options(c, m), PlaceOf(c, m, pick) # None
  PROVE  LET x == IssueOf(c, m, pick)
         IN /\ x.location = Location(doc, x.start, x.end)
            /\ x.start \in Nat /\ x.end \in Nat /\ x.start < x.end /\ x.end <= Len(text)
            /\ \/ ~BlankIn(text, x.start, x.end)
               \/ m.literal /\ x.start = m.start /\ x.end = m.end
<1> DEFINE candidate == Candidate(m, pick)
           verdict == pick.opinion.verdict
           place   == PlaceOf(c, m, pick)
           x == IssueOf(c, m, pick)
           narrow == /\ candidate.literal # None /\ ~Reclassified(candidate, verdict)
                     /\ LiteralEdit(ClassOf(candidate, verdict).category, place, candidate.literal)
           a == pick.at.start
           b == pick.at.end
<1>1. /\ a \in Nat /\ b \in Nat /\ a < b /\ a <= m.start /\ m.end <= b /\ c.start <= a /\ b <= c.end
      /\ m.start \in Nat /\ m.end \in Nat /\ m.start < m.end
  BY OptionsHold
<1>2. place = [start |-> a, end |-> b] /\ ~Blank(Sub(text, a, b))
  BY PlacedAtQuote
<1>3. b <= Len(text)
  BY <1>1 DEF Fits, Records
<1>4. ~BlankIn(text, a, b)
  BY <1>1, <1>2, <1>3, BlankPart
<1>5. /\ x.start = (IF narrow THEN candidate.literal ELSE place).start
      /\ x.end = (IF narrow THEN candidate.literal ELSE place).end
      /\ x.location = Location(doc, (IF narrow THEN candidate.literal ELSE place).start,
                                    (IF narrow THEN candidate.literal ELSE place).end)
  BY DEF IssueOf, IssueAt
<1>6. narrow => m.literal /\ candidate.literal = [start |-> m.start, end |-> m.end]
  BY DEF Candidate
<1> HIDE DEF narrow, x, place
<1>7. \/ ~narrow /\ x.start = a /\ x.end = b
      \/ narrow /\ m.literal /\ x.start = m.start /\ x.end = m.end
  <2>1. CASE narrow
    BY <1>5, <1>6, <2>1
  <2>2. CASE ~narrow
    BY <1>2, <1>5, <2>2
  <2> QED
    BY <2>1, <2>2
<1>8. x.location = Location(doc, x.start, x.end)
  BY <1>5
<1> HIDE DEF a, b, candidate
<1>9. x.start \in Nat /\ x.end \in Nat /\ x.start < x.end /\ x.end <= Len(text)
  BY <1>1, <1>3, <1>7
<1>10. ~BlankIn(text, x.start, x.end) \/ (m.literal /\ x.start = m.start /\ x.end = m.end)
  BY <1>4, <1>7
<1> QED
  BY <1>8, <1>9, <1>10 DEF x

(* Only line breaks have no location.                                      *)
LEMMA BareBreaks ==
  ASSUME NEW file, Typed(file), Extract(file) # None,
         NEW start \in Nat, NEW end \in Nat, start < end, end <= Len(Extract(file).text),
         Location(Extract(file), start, end) = None
  PROVE  BlankIn(Extract(file).text, start, end)
<1> DEFINE d == Extract(file)
<1>1. PICK lines, at, par : Leading(file, d, lines, at, par)
  BY ExtractLeads
<1> HIDE DEF d
<1>2. lines \in Seq(SourceLines) /\ Laid(d, lines, at, par)
  BY <1>1 DEF Leading
<1>3. ~\E first, last : Located(d, lines, at, par, start, end, first, last)
  <2>1. \A p, q, f, l, n, k : [page |-> p, pageEnd |-> q, lineStart |-> f, lineEnd |-> l,
                              paragraph |-> n, sentence |-> k] # None
    BY DEF None
  <2>2. Location(d, start, end) = None
    BY DEF d
  <2> QED
    BY <2>1, <2>2, Zenon DEF Located
<1>4. \A n \in 1 .. Len(lines) : ~Touched(lines, at, n, start, end)
  <2>1. end <= Len(d.text)
    BY DEF d
  <2> QED
    BY <1>2, <1>3, <2>1, LocationIs
<1>5. \A p \in start .. end - 1 : d.text[p + 1] = LineBreak
  <2>1. end <= Len(d.text)
    BY DEF d
  <2> QED
    BY <1>2, <1>4, <2>1, BreaksOnly
<1> QED
  BY <1>5 DEF BlankIn, White, d

LEMMA UnlocatedIsBare ==
  ASSUME text \in Seq(Int), DocInv, doc = Extract(scenario.file), doc # None,
         NEW c \in Records, Fits(text, c),
         NEW m \in scenario.mistakes, NEW pick \in Options(c, m), PlaceOf(c, m, pick) # None,
         IssueOf(c, m, pick).location = None
  PROVE  m.literal /\ Blank(Sub(text, m.start, m.end))
<1> DEFINE x == IssueOf(c, m, pick)
<1>1. scenario \in Scenarios /\ Typed(scenario.file)
  BY FilesAre DEF DocInv
<1>2. /\ x.location = Location(doc, x.start, x.end)
      /\ x.start \in Nat /\ x.end \in Nat /\ x.start < x.end /\ x.end <= Len(text)
      /\ \/ ~BlankIn(text, x.start, x.end)
         \/ m.literal /\ x.start = m.start /\ x.end = m.end
  BY <1>1, IssueStands
<1> HIDE DEF x
<1>3. BlankIn(text, x.start, x.end)
  <2>1. Extract(scenario.file).text = text
    BY DEF text
  <2>2. Location(Extract(scenario.file), x.start, x.end) = None
    BY <1>2 DEF x
  <2> QED
    BY <1>1, <1>2, <2>1, <2>2, BareBreaks
<1> QED
  BY <1>2, <1>3, BlankPart

(* A job with chunks fails only if it finds an issue of line breaks alone. *)
PlaceInv ==
  /\ FailsForBareBreaks
  /\ \A x \in ToSet(issues) : x.location # None

LEMMA AnalyzePlaces ==
  ASSUME CutInv, FindInv, DocInv, PlaceInv, NEW i \in pending, Analyze(i)
  PROVE  PlaceInv'
<1> DEFINE c == chunks[i]
<1>1. /\ phase = "analyze" /\ scenario \in Scenarios /\ WhollyCut /\ i \in DOMAIN chunks
      /\ doc = Extract(scenario.file) /\ doc # None
  BY DEF FindInv, CutInv, DocInv, Analyze
<1>2. text \in Seq(Int) /\ c \in Records /\ Fits(text, c)
  BY <1>1 DEF WhollyCut, Divided
<1>3. PICK pick \in [scenario.mistakes ->
                     {None} \cup UNION {Options(c, m) : m \in scenario.mistakes}] :
        /\ \A m \in scenario.mistakes : pick[m] \in {None} \cup Options(c, m)
        /\ IF ChunkIssues(c, pick) = None THEN phase' = "failed" /\ UNCHANGED issues
           ELSE issues' = issues \o ChunkIssues(c, pick).issues /\ UNCHANGED phase
  BY DEF Analyze
<1>4. scenario' = scenario /\ text' = text /\ chunks' = chunks
  BY DEF Analyze, text
<1> HIDE DEF c
<1>5. \A m \in scenario.mistakes :
        (Keeps(c, m, pick[m]) /\ IssueOf(c, m, pick[m]).location = None) => m.literal /\ Blank(Sub(text, m.start, m.end))
  <2> SUFFICES ASSUME NEW m \in scenario.mistakes, Keeps(c, m, pick[m]),
                      IssueOf(c, m, pick[m]).location = None
               PROVE  m.literal /\ Blank(Sub(text, m.start, m.end))
    OBVIOUS
  <2>1. pick[m] \in Options(c, m) /\ PlaceOf(c, m, pick[m]) # None
    BY <1>3 DEF Keeps
  <2> QED
    BY <1>1, <1>2, <2>1, UnlocatedIsBare
<1> DEFINE Some == \E m \in {m \in scenario.mistakes : Keeps(c, m, pick[m])} :
                      IssueOf(c, m, pick[m]).location = None
<1>6. ChunkIssues(c, pick) = None <=> Some
  <2>1. \A list : [issues |-> list] # None
    BY DEF None
  <2> QED
    BY <2>1 DEF ChunkIssues
<1>7. CASE Some
  <2>1. PICK m \in scenario.mistakes : m.literal /\ Blank(Sub(text, m.start, m.end))
    BY <1>5, <1>7
  <2>2. FailsForBareBreaks'
    BY <1>4, <2>1 DEF FailsForBareBreaks
  <2>3. issues' = issues
    BY <1>3, <1>6, <1>7
  <2> QED
    BY <2>2, <2>3 DEF PlaceInv
<1>8. CASE ~Some
  <2> DEFINE found == ChunkIssues(c, pick).issues
             made  == MadeBy(c, pick)
  <2>1. phase' = phase /\ issues' = issues \o found /\ ChunkIssues(c, pick) # None
    BY <1>3, <1>6, <1>8
  <2>2. found \in Seq(made)
    BY <1>1, <1>2, <1>3, <2>1, ChunkMerges
  <2>3. \A x \in made : x.location # None
    BY <1>8 DEF MadeBy
  <2>4. issues \in Seq(ToSet(issues))
    BY DEF FindInv
  <2>5. \A x \in ToSet(issues) : x.location # None
    BY DEF PlaceInv
  <2> HIDE DEF found, made
  <2>6. ToSet(issues') \subseteq ToSet(issues) \cup made
    <3> DEFINE both == ToSet(issues) \cup made
    <3>1. issues \in Seq(both) /\ found \in Seq(both)
      BY <2>2, <2>4
    <3> HIDE DEF both
    <3>2. issues \o found \in Seq(both)
      BY <3>1, ConcatProperties
    <3>3. ToSet(issues \o found) \subseteq both
      BY <3>2 DEF ToSet
    <3> QED
      BY <2>1, <3>3 DEF both
  <2>7. \A x \in ToSet(issues') : x.location # None
    BY <2>3, <2>5, <2>6
  <2>8. FailsForBareBreaks'
    BY <1>1, <2>1 DEF FailsForBareBreaks
  <2> QED
    BY <2>7, <2>8 DEF PlaceInv
<1> HIDE DEF Some
<1> QED
  BY <1>7, <1>8

(* Any step of the analysis keeps it.                                      *)
THEOREM PlaceInvariant == Spec => []PlaceInv
<1>1. Init => PlaceInv
  <2> SUFFICES ASSUME Init PROVE PlaceInv
    OBVIOUS
  <2>1. phase = "read" /\ issues = <<>>
    BY DEF Init
  <2>2. ToSet(issues) = {}
    BY <2>1 DEF ToSet
  <2> QED
    BY <2>1, <2>2 DEF PlaceInv, FailsForBareBreaks
<1>2. CutInv /\ FindInv /\ DocInv /\ PlaceInv /\ [Next]_vars => PlaceInv'
  <2> SUFFICES ASSUME CutInv, FindInv, DocInv, PlaceInv, [Next]_vars PROVE PlaceInv'
    OBVIOUS
  <2>1. CASE Read \/ EndCut
    <3>1. issues' = issues /\ (phase' = "failed" => chunks' = <<>>)
      BY <2>1 DEF Read, EndCut, DocInv
    <3> QED
      BY <3>1 DEF PlaceInv, FailsForBareBreaks
  <2>2. CASE CutParagraph \/ CutWindow \/ Merge
    <3>1. issues' = issues /\ phase' # "failed"
      BY <2>2 DEF CutParagraph, CutWindow, Merge
    <3> QED
      BY <3>1 DEF PlaceInv, FailsForBareBreaks
  <2>3. CASE UNCHANGED vars
    <3>1. /\ issues' = issues /\ phase' = phase /\ chunks' = chunks /\ scenario' = scenario
          /\ text' = text
      BY <2>3 DEF vars, text
    <3> QED
      BY <3>1 DEF PlaceInv, FailsForBareBreaks
  <2>4. CASE \E i \in pending : Analyze(i)
    BY <2>4, AnalyzePlaces
  <2> QED
    BY <2>1, <2>2, <2>3, <2>4 DEF Next
<1> QED
  BY <1>1, <1>2, CutInvariant, FindInvariant, DocInvariant, PTL DEF Spec

-----------------------------------------------------------------------------
(* What the locations of the issues lead back to                           *)

LEMMA IssuePlaced ==
  ASSUME CutInv, FindInv, DocInv, PlaceInv, NEW x \in ToSet(issues)
  PROVE  /\ doc = Extract(scenario.file) /\ doc # None /\ Typed(scenario.file)
         /\ text \in Seq(Int)
         /\ x.start \in Nat /\ x.end \in Nat /\ x.start < x.end /\ x.end <= Len(text)
         /\ x.location = Location(doc, x.start, x.end) /\ x.location # None
<1>1. PICK i \in DOMAIN picks : \E m \in scenario.mistakes :
        /\ i \in DOMAIN chunks /\ x = IssueOf(chunks[i], m, picks[i][m])
        /\ Keeps(chunks[i], m, picks[i][m]) /\ picks[i][m] \in Options(chunks[i], m)
  BY IssuesAreSortable
<1>2. PICK m \in scenario.mistakes :
        /\ i \in DOMAIN chunks /\ x = IssueOf(chunks[i], m, picks[i][m])
        /\ Keeps(chunks[i], m, picks[i][m]) /\ picks[i][m] \in Options(chunks[i], m)
  BY <1>1
<1>3. WhollyCut /\ scenario \in Scenarios
  BY DEF FindInv, CutInv
<1>4. text \in Seq(Int) /\ chunks[i] \in Records /\ Fits(text, chunks[i])
  BY <1>2, <1>3 DEF WhollyCut, Divided
<1>5. PlaceOf(chunks[i], m, picks[i][m]) # None
  BY <1>2 DEF Keeps
<1>6. /\ x.location = Location(doc, x.start, x.end)
      /\ x.start \in Nat /\ x.end \in Nat /\ x.start < x.end /\ x.end <= Len(text)
  BY <1>2, <1>3, <1>4, <1>5, IssueStands
<1>7. doc # None /\ doc = Extract(scenario.file)
  <2>1. chunks # <<>>
    BY <1>2
  <2> QED
    BY <2>1 DEF DocInv
<1>8. x.location # None /\ Typed(scenario.file)
  BY <1>3, FilesAre DEF PlaceInv
<1> QED
  BY <1>4, <1>6, <1>7, <1>8

LEMMA BlankLinesAgree ==
  ASSUME text \in Seq(Int), NEW a, NEW b, a.start \in Nat, b.start \in Nat, b.start <= Len(text)
  PROVE  BlankLineBetween(a, b) <=> BlankLine(text, a.start, b.start)
<1>1. \A j, k \in a.start .. b.start - 1 : Blank(Sub(text, j, k)) <=> BlankIn(text, j, k)
  <2> TAKE j, k \in a.start .. b.start - 1
  <2>1. j \in Nat /\ k \in Nat /\ k <= Len(text)
    BY LenProperties
  <2> QED
    BY <2>1, BlankPart
<1> QED
  BY <1>1, Zenon DEF BlankLineBetween, BlankLine

LEMMA ParagraphsLead ==
  ASSUME CutInv, FindInv, DocInv, PlaceInv,
         NEW a \in ToSet(issues), NEW b \in ToSet(issues), a.start < b.start,
         text[a.start + 1] \notin White, text[b.start + 1] \notin White
  PROVE  ParagraphsLeadBack(a, b)
<1> DEFINE file == scenario.file
<1>1. /\ doc = Extract(file) /\ doc # None /\ Typed(file) /\ text \in Seq(Int)
      /\ a.start \in Nat /\ a.end \in Nat /\ a.start < a.end /\ a.end <= Len(text)
      /\ a.location = Location(doc, a.start, a.end) /\ a.location # None
  BY IssuePlaced
<1>2. /\ b.start \in Nat /\ b.end \in Nat /\ b.start < b.end /\ b.end <= Len(text)
      /\ b.location = Location(doc, b.start, b.end) /\ b.location # None
  BY IssuePlaced
<1> HIDE DEF file
<1>3. PICK lines, at, par : Leading(file, doc, lines, at, par)
  <2>1. Extract(file) # None
    BY <1>1
  <2> QED
    BY <1>1, <2>1, ExtractLeads
<1>4. /\ lines \in Seq(SourceLines) /\ Laid(doc, lines, at, par)
      /\ BlankLineInside(file) \/ BreaksBetween(lines) \/ WholeParagraphs(lines)
  BY <1>3 DEF Leading
<1>5. /\ a.location.paragraph <= b.location.paragraph
      /\ a.location.paragraph # b.location.paragraph => BlankLine(text, a.start, b.start)
      /\ (BreaksBetween(lines) \/ WholeParagraphs(lines)) /\ BlankLine(text, a.start, b.start)
           => a.location.paragraph # b.location.paragraph
      /\ a.location.paragraph = b.location.paragraph =>
           b.location.sentence - a.location.sentence
             = Cardinality({k \in a.start .. b.start - 1 : text[k + 1] = Stop})
  <2>1. /\ a.end <= Len(doc.text) /\ b.end <= Len(doc.text)
        /\ doc.text[a.start + 1] \notin White /\ doc.text[b.start + 1] \notin White
    BY <1>1, <1>2 DEF text
  <2>2. Location(doc, a.start, a.end) # None /\ Location(doc, b.start, b.end) # None
    BY <1>1, <1>2
  <2>3. Compared(lines, doc, a.start, a.end, b.start, b.end)
    BY <1>1, <1>2, <1>4, <2>1, <2>2, PlacesCompare
  <2> QED
    BY <1>1, <1>2, <2>3 DEF Compared, Stops, text
<1>6. b.start <= Len(text)
  BY <1>1, <1>2, LenProperties
<1>7. BlankLineBetween(a, b) <=> BlankLine(text, a.start, b.start)
  BY <1>1, <1>2, <1>6, BlankLinesAgree
<1> QED
  BY <1>4, <1>5, <1>7 DEF ParagraphsLeadBack, file

(* A part of a text occurs in it.                                          *)
LEMMA OccursWithin ==
  ASSUME NEW pre \in Seq(Int), NEW quote \in Seq(Int), NEW post \in Seq(Int)
  PROVE  Occurrences((pre \o quote) \o post, quote) # {}
<1> DEFINE whole == (pre \o quote) \o post
           k == Len(pre)
           n == Len(quote)
<1>1. k \in Nat /\ n \in Nat /\ Len(post) \in Nat
  BY LenProperties
<1>2. /\ pre \o quote \in Seq(Int) /\ Len(pre \o quote) = k + n
      /\ \A i \in 1 .. k + n : (pre \o quote)[i] = IF i <= k THEN pre[i] ELSE quote[i - k]
  BY ConcatProperties
<1> DEFINE both == pre \o quote
<1> HIDE DEF k, n
<1>3. /\ both \in Seq(Int) /\ Len(both) = k + n
      /\ \A i \in 1 .. n : both[k + i] = quote[i]
  <2>1. both \in Seq(Int) /\ Len(both) = k + n
    BY <1>2
  <2>2. ASSUME NEW i \in 1 .. n PROVE both[k + i] = quote[i]
    <3>1. k + i \in 1 .. k + n /\ ~(k + i <= k) /\ (k + i) - k = i
      BY <1>1
    <3> QED
      BY <1>2, <3>1
  <2> QED
    BY <2>1, <2>2
<1> HIDE DEF both
<1>4. /\ whole \in Seq(Int) /\ Len(whole) = (k + n) + Len(post)
      /\ \A i \in 1 .. k + n : whole[i] = both[i]
  <2>1. /\ both \o post \in Seq(Int) /\ Len(both \o post) = Len(both) + Len(post)
        /\ \A i \in 1 .. Len(both) + Len(post) :
             (both \o post)[i] = IF i <= Len(both) THEN both[i] ELSE post[i - Len(both)]
    BY <1>3, ConcatProperties
  <2>2. \A i \in 1 .. k + n : i \in 1 .. (k + n) + Len(post) /\ i <= k + n
    BY <1>1
  <2> QED
    BY <1>3, <2>1, <2>2 DEF both
<1> HIDE DEF whole
<1>5. k + n <= Len(whole) /\ k <= k + n /\ k + n \in Nat
  BY <1>1, <1>4
<1>6. /\ Sub(whole, k, k + n) \in Seq(Int) /\ Len(Sub(whole, k, k + n)) = n
      /\ \A i \in 1 .. n : Sub(whole, k, k + n)[i] = whole[k + i]
  <2> DEFINE top == k + n
  <2>1. top - k = n /\ top \in Nat /\ k <= top /\ top <= Len(whole)
    BY <1>1, <1>5
  <2> HIDE DEF top
  <2>2. /\ Sub(whole, k, top) \in Seq(Int) /\ Len(Sub(whole, k, top)) = top - k
        /\ \A i \in 1 .. top - k : Sub(whole, k, top)[i] = whole[k + i]
    <3>1. whole \in Seq(Int) /\ k \in Nat
      BY <1>1, <1>4
    <3> QED
      BY <2>1, <3>1, SubItems, Zenon
  <2>3. /\ Sub(whole, k, top) \in Seq(Int) /\ Len(Sub(whole, k, top)) = n
        /\ \A i \in 1 .. n : Sub(whole, k, top)[i] = whole[k + i]
    BY <2>1, <2>2
  <2> QED
    BY <2>3 DEF top
<1>7. \A i \in 1 .. n : Sub(whole, k, k + n)[i] = quote[i]
  <2> TAKE i \in 1 .. n
  <2>1. k + i \in 1 .. k + n
    BY <1>1
  <2> QED
    BY <1>3, <1>4, <1>6, <2>1
<1>8. Sub(whole, k, k + n) = quote
  <2> DEFINE part == Sub(whole, k, k + n)
  <2>1. part \in Seq(Int) /\ Len(part) = Len(quote) /\ \A i \in 1 .. Len(part) : part[i] = quote[i]
    BY <1>6, <1>7 DEF n
  <2> HIDE DEF part
  <2>2. part = quote
    BY <2>1, SeqEqual
  <2> QED
    BY <2>2 DEF part
<1>9. k \in 0 .. Len(whole) - n
  BY <1>1, <1>4
<1>10. k \in Occurrences(whole, quote)
  BY <1>8, <1>9 DEF Occurrences, n
<1> QED
  BY <1>10 DEF whole

(* Of one character that is shown only that is read.                       *)
LEMMA OneReads ==
  ASSUME NEW content \in Seq(Int), NEW k \in Nat, k < Len(content), content[k + 1] \notin Unseen
  PROVE  LET read == Readables(Sub(content, k, k + 1))
         IN /\ read \in Seq(Int) /\ Len(read) # 0
            /\ \A n \in 1 .. Len(read) : read[n] = content[k + 1]
<1> DEFINE s == Sub(content, k, k + 1)
<1>1. s \in Seq(Int) /\ Len(s) = 1 /\ \A i \in 1 .. 1 : s[i] = content[k + i]
  <2> DEFINE top == k + 1
  <2>1. k <= top /\ top <= Len(content) /\ top \in Nat /\ top - k = 1
    BY LenProperties
  <2> HIDE DEF top
  <2>2. /\ Sub(content, k, top) \in Seq(Int) /\ Len(Sub(content, k, top)) = top - k
        /\ \A i \in 1 .. top - k : Sub(content, k, top)[i] = content[k + i]
    BY <2>1, SubItems
  <2>3. /\ Sub(content, k, top) \in Seq(Int) /\ Len(Sub(content, k, top)) = 1
        /\ \A i \in 1 .. 1 : Sub(content, k, top)[i] = content[k + i]
    BY <2>1, <2>2
  <2> QED
    BY <2>3 DEF top
<1> HIDE DEF s
<1>2. s[1] = content[k + 1] /\ DOMAIN s = 1 .. 1
  <2>1. 1 \in 1 .. 1
    OBVIOUS
  <2> QED
    BY <1>1, <2>1, LenProperties
<1>3. 1 \in Shown(s) /\ \A i \in Shown(s) : i = 1
  BY <1>2 DEF Shown
<1>4. /\ Readables(s) \in Seq(Int)
      /\ \A n \in 1 .. Len(Readables(s)) : \E i \in Shown(s) : Readables(s)[n] = s[i]
      /\ \A i \in Shown(s) : \E n \in 1 .. Len(Readables(s)) : Readables(s)[n] = s[i]
  BY <1>1, ReadablesAre
<1>5. Len(Readables(s)) # 0
  BY <1>3, <1>4
<1>6. \A n \in 1 .. Len(Readables(s)) : Readables(s)[n] = content[k + 1]
  BY <1>2, <1>3, <1>4, Zenon
<1> QED
  BY <1>4, <1>5, <1>6 DEF s

(* Outside the lines that a range is located in, it has only line breaks.  *)
LEMMA OutsideAreBreaks ==
  ASSUME NEW lines \in Seq(SourceLines), NEW d, NEW at, NEW par, Laid(d, lines, at, par),
         NEW start \in Nat, NEW end \in Nat, start < end, end <= Len(d.text),
         NEW first, NEW last, Located(d, lines, at, par, start, end, first, last)
  PROVE  /\ first \in 1 .. Len(lines) /\ last \in 1 .. Len(lines) /\ first <= last
         /\ at[first] \in Nat /\ at[last + 1] \in Nat /\ at[first] <= at[last + 1]
         /\ at[first] < end /\ start < at[last + 1] /\ at[last + 1] <= Len(d.text)
         /\ \A p \in start .. at[first] - 1 : d.text[p + 1] = LineBreak
         /\ \A p \in at[last + 1] .. end - 1 : d.text[p + 1] = LineBreak
<1> DEFINE lo == at[first]
           hi == at[last + 1]
<1>1. /\ first \in 1 .. Len(lines) /\ last \in 1 .. Len(lines)
      /\ Touched(lines, at, first, start, end) /\ Touched(lines, at, last, start, end)
      /\ \A n \in 1 .. Len(lines) : Touched(lines, at, n, start, end) => first <= n /\ n <= last
  BY DEF Located
<1>2. first <= last
  BY <1>1
<1>3. Starts(at, lines) /\ Len(d.text) = at[Len(lines) + 1] /\ d.text \in Seq(Int)
  BY DEF Laid, Documents
<1>4. \A n \in 1 .. Len(lines) :
        /\ at[n] \in Nat /\ Top(lines, at, n) \in Nat /\ at[n + 1] \in Nat
        /\ at[n] <= Top(lines, at, n) /\ Top(lines, at, n) <= at[n + 1]
        /\ at[n + 1] <= at[Len(lines) + 1]
  BY <1>3, LinesFollow
<1>5. \A n \in 1 .. Len(lines) + 1 : \A m \in 1 .. n : at[m] <= at[n]
  BY <1>3, StartsGrow
<1>6. lo \in Nat /\ hi \in Nat /\ lo < end /\ start < hi /\ hi <= Len(d.text)
  <2>1. lo < end /\ start < Top(lines, at, last)
    BY <1>1 DEF Touched
  <2> QED
    BY <1>1, <1>3, <1>4, <2>1
<1>7. lo <= hi
  <2>1. last + 1 \in 1 .. Len(lines) + 1 /\ first \in 1 .. last + 1
    BY <1>1, <1>2
  <2> QED
    BY <1>5, <2>1
<1>8. ASSUME NEW p \in start .. lo - 1 PROVE d.text[p + 1] = LineBreak
  <2>1. \A n \in 1 .. Len(lines) : ~Touched(lines, at, n, start, lo)
    <3> SUFFICES ASSUME NEW n \in 1 .. Len(lines), Touched(lines, at, n, start, lo)
                 PROVE  FALSE
      OBVIOUS
    <3>1. at[n] < lo /\ at[n] \in Nat
      BY <1>4 DEF Touched
    <3>2. Touched(lines, at, n, start, end)
      <4>1. at[n] < end
        BY <1>6, <3>1
      <4> QED
        BY <4>1 DEF Touched
    <3>3. first <= n
      BY <1>1, <3>2
    <3>4. lo <= at[n]
      <4>1. n \in 1 .. Len(lines) + 1 /\ first \in 1 .. n
        BY <1>1, <3>3
      <4> QED
        BY <1>5, <4>1
    <3> HIDE DEF lo
    <3> QED
      BY <1>6, <3>1, <3>4
  <2> HIDE DEF lo
  <2>2. lo <= Len(d.text)
    BY <1>6, <1>7
  <2> QED
    BY <1>6, <2>1, <2>2, BreaksOnly
<1>9. ASSUME NEW p \in hi .. end - 1 PROVE d.text[p + 1] = LineBreak
  <2>1. \A n \in 1 .. Len(lines) : ~Touched(lines, at, n, hi, end)
    <3> SUFFICES ASSUME NEW n \in 1 .. Len(lines), Touched(lines, at, n, hi, end)
                 PROVE  FALSE
      OBVIOUS
    <3>1. Top(lines, at, n) > hi /\ Top(lines, at, n) \in Nat
      BY <1>4 DEF Touched
    <3>2. Touched(lines, at, n, start, end)
      <4>1. Top(lines, at, n) > start
        BY <1>6, <3>1
      <4> QED
        BY <4>1 DEF Touched
    <3>3. n <= last
      BY <1>1, <3>2
    <3>4. at[n + 1] <= hi
      <4>1. last + 1 \in 1 .. Len(lines) + 1 /\ n + 1 \in 1 .. last + 1
        BY <1>1, <3>3
      <4> QED
        BY <1>5, <4>1
    <3>5. Top(lines, at, n) <= at[n + 1] /\ at[n + 1] \in Nat
      BY <1>4
    <3> HIDE DEF hi
    <3> QED
      BY <1>6, <3>1, <3>4, <3>5
  <2> HIDE DEF hi
  <2> QED
    BY <1>6, <2>1, BreaksOnly
<1> QED
  BY <1>1, <1>2, <1>6, <1>7, <1>8, <1>9

(* What is read of it occurs in what is read of these lines.               *)
LEMMA LinesHoldQuote ==
  ASSUME NEW lines \in Seq(SourceLines), NEW d, NEW at, NEW par, Laid(d, lines, at, par),
         NEW start \in Nat, NEW end \in Nat, start < end, end <= Len(d.text),
         NEW first, NEW last, Located(d, lines, at, par, start, end, first, last)
  PROVE  Occurrences(FlattenSeq(ReadingsFrom(lines, first, last)),
                     Readables(Sub(d.text, start, end))) # {}
<1> DEFINE lo == at[first]
           hi == at[last + 1]
           content == d.text
           x == IF start < lo THEN lo ELSE start
           y == IF hi < end THEN hi ELSE end
           R(i, j) == Readables(Sub(content, i, j))
<1>1. /\ first \in 1 .. Len(lines) /\ last \in 1 .. Len(lines) /\ first <= last
      /\ lo \in Nat /\ hi \in Nat /\ lo <= hi /\ lo < end /\ start < hi /\ hi <= Len(content)
      /\ \A p \in start .. lo - 1 : content[p + 1] = LineBreak
      /\ \A p \in hi .. end - 1 : content[p + 1] = LineBreak
  BY OutsideAreBreaks
<1>2. content \in Seq(Int) /\ Len(content) = at[Len(lines) + 1] /\ Starts(at, lines)
      /\ \A n \in 1 .. Len(lines) : Carries(content, lines, at, n)
  BY DEF Laid, Documents
<1>3. R(lo, hi) = FlattenSeq(ReadingsFrom(lines, first, last))
  <2>1. first \in 1 .. Len(lines) + 1 /\ last \in 0 .. Len(lines) /\ first <= last + 1
    BY <1>1
  <2> HIDE DEF content
  <2> QED
    BY <1>2, <2>1, LinesRead
<1> HIDE DEF lo, hi
<1>4. end <= Len(content)
  OBVIOUS
<1>5. Len(content) \in Nat
  BY <1>2, LenProperties
<1> HIDE DEF content
<1>6. /\ x \in Nat /\ y \in Nat /\ start <= x /\ lo <= x /\ x <= y /\ y <= end /\ y <= hi
      /\ x = start \/ x = lo
      /\ y = end \/ y = hi
  BY <1>1
<1>7. /\ \A p \in start .. x - 1 : content[p + 1] = LineBreak
      /\ \A p \in y .. end - 1 : content[p + 1] = LineBreak
  <2>1. start .. start - 1 = {} /\ end .. end - 1 = {}
    OBVIOUS
  <2> HIDE DEF x, y
  <2> QED
    BY <1>1, <1>6, <2>1
<1> HIDE DEF x, y
<1>8. x <= Len(content) /\ y <= Len(content)
  BY <1>1, <1>4, <1>5, <1>6
<1>20. content \in Seq(Int)
  BY <1>2
<1>21. \A a, b, c \in Nat : (a <= b /\ b <= c /\ c <= Len(content)) =>
         R(a, c) = R(a, b) \o R(b, c)
  BY <1>20, PartReads
<1>9. R(start, x) = <<>> /\ R(y, end) = <<>>
  <2>1. R(start, x) = <<>>
    BY <1>20, <1>6, <1>7, <1>8, BreaksRead
  <2>2. R(y, end) = <<>>
    BY <1>20, <1>4, <1>6, <1>7, BreaksRead
  <2> QED
    BY <2>1, <2>2
<1>22. /\ start <= x /\ x <= end /\ x <= y /\ y <= end /\ lo <= x /\ x <= hi /\ y <= hi
       /\ end <= Len(content) /\ hi <= Len(content)
       /\ x \in Nat /\ y \in Nat /\ lo \in Nat /\ hi \in Nat /\ start \in Nat /\ end \in Nat
  BY <1>1, <1>4, <1>6
<1>10. R(start, end) = R(start, x) \o R(x, end)
  <2>1. start <= x /\ x <= end /\ end <= Len(content) /\ start \in Nat /\ x \in Nat /\ end \in Nat
    BY <1>22
  <2> HIDE DEF R
  <2> QED
    BY <1>21, <2>1, Zenon
<1>11. R(x, end) = R(x, y) \o R(y, end)
  <2>1. x <= y /\ y <= end /\ end <= Len(content) /\ x \in Nat /\ y \in Nat /\ end \in Nat
    BY <1>22
  <2> HIDE DEF R
  <2> QED
    BY <1>21, <2>1, Zenon
<1>12. R(lo, hi) = R(lo, x) \o R(x, hi)
  <2>1. lo <= x /\ x <= hi /\ hi <= Len(content) /\ x \in Nat /\ lo \in Nat /\ hi \in Nat
    BY <1>22
  <2> HIDE DEF R
  <2> QED
    BY <1>21, <2>1, ZenonT(40)
<1>13. R(x, hi) = R(x, y) \o R(y, hi)
  <2>1. x <= y /\ y <= hi /\ hi <= Len(content) /\ x \in Nat /\ y \in Nat /\ hi \in Nat
    BY <1>22
  <2> HIDE DEF R
  <2> QED
    BY <1>21, <2>1, ZenonT(40)
<1>14. R(lo, x) \in Seq(Int) /\ R(x, y) \in Seq(Int) /\ R(y, hi) \in Seq(Int)
  <2>1. Sub(content, lo, x) \in Seq(Int) /\ Sub(content, x, y) \in Seq(Int)
        /\ Sub(content, y, hi) \in Seq(Int)
    BY <1>1, <1>2, <1>6, <1>8, SubItems
  <2> QED
    BY <2>1, ReadablesAre
<1> DEFINE pre == R(lo, x)
           quote == R(x, y)
           post == R(y, hi)
<1> HIDE DEF pre, quote, post
<1>15. pre \in Seq(Int) /\ quote \in Seq(Int) /\ post \in Seq(Int)
  BY <1>14 DEF pre, quote, post
<1>16. R(start, end) = quote
  <2>1. R(start, end) = <<>> \o (quote \o <<>>)
    BY <1>9, <1>10, <1>11 DEF quote
  <2>2. quote \o <<>> = quote /\ <<>> \o quote = quote
    BY <1>15, ConcatEmptySeq
  <2> QED
    BY <2>1, <2>2
<1>17. R(lo, hi) = (pre \o quote) \o post
  <2>1. R(lo, hi) = pre \o (quote \o post)
    BY <1>12, <1>13 DEF pre, quote, post
  <2>2. Associates(Int)
    BY PartsAssociate, Zenon
  <2> HIDE DEF R, pre, quote, post
  <2>3. (pre \o quote) \o post = pre \o (quote \o post)
    BY <1>15, <2>2, Zenon DEF Associates
  <2> QED
    BY <2>1, <2>3
<1>18. Occurrences((pre \o quote) \o post, quote) # {}
  BY <1>15, OccursWithin
<1> QED
  BY <1>3, <1>16, <1>17, <1>18 DEF content

(* A character of a line that is shown is read in it.                      *)
LEMMA LineReads ==
  ASSUME NEW lines \in Seq(SourceLines), NEW d, NEW at, NEW par, Laid(d, lines, at, par),
         NEW n \in 1 .. Len(lines), NEW p \in Nat, at[n] <= p, p < Top(lines, at, n),
         d.text[p + 1] \notin Unseen
  PROVE  d.text[p + 1] \in ToSet(Readables(lines[n].content))
<1> DEFINE s == lines[n].content
           k == (p - at[n]) + 1
<1>1. s \in Seq(Int) /\ Starts(at, lines)
  BY LineSizes DEF Laid
<1>2. p < at[n + 1]
  <2>1. Top(lines, at, n) <= at[n + 1] /\ Top(lines, at, n) \in Nat /\ at[n + 1] \in Nat
    BY <1>1, LinesFollow
  <2> HIDE DEF s, k
  <2> QED
    BY <2>1
<1>3. k \in 1 .. Len(s) /\ d.text[p + 1] = s[k]
  BY <1>2, TextAt
<1> HIDE DEF s, k
<1>4. k \in Shown(s)
  <2>1. DOMAIN s = 1 .. Len(s)
    BY <1>1, LenProperties
  <2> QED
    BY <1>3, <2>1 DEF Shown
<1>5. PICK i \in 1 .. Len(Readables(s)) : Readables(s)[i] = s[k]
  BY <1>1, <1>4, ReadablesAre
<1>6. DOMAIN Readables(s) = 1 .. Len(Readables(s))
  BY <1>1, ReadablesAre, LenProperties
<1> QED
  BY <1>3, <1>5, <1>6 DEF ToSet, s

(* What is read of two parts begins with what is read of the first, and    *)
(* ends with what is read of the second.                                   *)
LEMMA EndsOfBoth ==
  ASSUME NEW s \in Seq(Int), NEW t \in Seq(Int)
  PROVE  /\ Len(s) # 0 => (s \o t)[1] = s[1]
         /\ Len(t) # 0 => (s \o t)[Len(s \o t)] = t[Len(t)]
<1>1. Len(s) \in Nat /\ Len(t) \in Nat
  BY LenProperties
<1>2. /\ Len(s \o t) = Len(s) + Len(t)
      /\ \A i \in 1 .. Len(s) + Len(t) :
           (s \o t)[i] = IF i <= Len(s) THEN s[i] ELSE t[i - Len(s)]
  BY ConcatProperties
<1> DEFINE both == s \o t
           m == Len(s)
           n == Len(t)
<1>3. \A i \in 1 .. m + n : both[i] = IF i <= m THEN s[i] ELSE t[i - m]
  BY <1>2
<1> HIDE DEF both, m, n
<1>4. m \in Nat /\ n \in Nat
  BY <1>1 DEF m, n
<1>5. m # 0 => both[1] = s[1]
  <2>1. m # 0 => 1 \in 1 .. m + n /\ 1 <= m
    BY <1>4
  <2> QED
    BY <1>3, <2>1
<1>6. n # 0 => both[m + n] = t[n]
  <2>1. n # 0 => m + n \in 1 .. m + n /\ ~(m + n <= m) /\ (m + n) - m = n
    BY <1>4
  <2> QED
    BY <1>3, <2>1
<1> QED
  BY <1>2, <1>5, <1>6 DEF both, m, n

LEMMA FirstIsRead ==
  ASSUME NEW content \in Seq(Int), NEW start \in Nat, NEW end \in Nat, start < end,
         end <= Len(content), content[start + 1] \notin Unseen
  PROVE  Readables(Sub(content, start, end))[1] = content[start + 1]
<1> DEFINE next == start + 1
           one  == Readables(Sub(content, start, next))
           rest == Readables(Sub(content, next, end))
<1>1. one \in Seq(Int) /\ Len(one) # 0 /\ \A n \in 1 .. Len(one) : one[n] = content[start + 1]
  <2>1. start < Len(content)
    BY LenProperties
  <2> QED
    BY <2>1, OneReads
<1>2. start <= next /\ next <= end /\ next \in Nat
  OBVIOUS
<1> HIDE DEF next
<1>3. Readables(Sub(content, start, end)) = one \o rest
  BY <1>2, PartReads
<1>4. rest \in Seq(Int)
  <2>1. Sub(content, next, end) \in Seq(Int)
    BY <1>2, SubItems
  <2> QED
    BY <2>1, ReadablesAre
<1> HIDE DEF one, rest
<1>5. (one \o rest)[1] = one[1]
  BY <1>1, <1>4, EndsOfBoth
<1>6. 1 \in 1 .. Len(one)
  BY <1>1, LenProperties
<1> QED
  BY <1>1, <1>3, <1>5, <1>6

LEMMA LastIsRead ==
  ASSUME NEW content \in Seq(Int), NEW start \in Nat, NEW end \in Nat, start < end,
         end <= Len(content), content[end] \notin Unseen
  PROVE  LET quote == Readables(Sub(content, start, end)) IN quote[Len(quote)] = content[end]
<1> DEFINE front == end - 1
           one  == Readables(Sub(content, front, end))
           rest == Readables(Sub(content, start, front))
<1>1. front \in Nat /\ start <= front /\ front <= end /\ front < Len(content) /\ front + 1 = end
  BY LenProperties
<1> HIDE DEF front
<1>2. one \in Seq(Int) /\ Len(one) # 0 /\ \A n \in 1 .. Len(one) : one[n] = content[end]
  <2>1. content[front + 1] \notin Unseen
    BY <1>1
  <2>2. LET read == Readables(Sub(content, front, front + 1))
        IN /\ read \in Seq(Int) /\ Len(read) # 0
           /\ \A n \in 1 .. Len(read) : read[n] = content[front + 1]
    BY <1>1, <2>1, OneReads
  <2> QED
    BY <1>1, <2>2
<1>3. Readables(Sub(content, start, end)) = rest \o one
  BY <1>1, PartReads, ZenonT(40)
<1>4. rest \in Seq(Int)
  <2>1. Sub(content, start, front) \in Seq(Int)
    <3>1. front <= Len(content)
      BY <1>1, LenProperties
    <3> QED
      BY <1>1, <3>1, SubItems
  <2> QED
    BY <2>1, ReadablesAre
<1> HIDE DEF one, rest
<1>5. (rest \o one)[Len(rest \o one)] = one[Len(one)]
  BY <1>2, <1>4, EndsOfBoth
<1>6. Len(one) \in 1 .. Len(one)
  BY <1>2, LenProperties
<1> QED
  BY <1>2, <1>3, <1>5, <1>6

(* Pages are numbered from one; a TXT has none.                            *)
Paged(rows) ==
  \/ \A i \in DOMAIN rows : rows[i].page = 0
  \/ \A i \in DOMAIN rows : rows[i].page # 0

LEMMA PageRowsAre ==
  ASSUME NEW page \in PdfPages, NEW n \in Nat, n # 0
  PROVE  PageRows(page, n) \in Seq({r \in Rows : r.page # 0})
<1> DEFINE all  == Lines(page.content)
           e(k) == [page |-> n, line |-> k, content |-> Readables(all[k])]
           S    == {r \in Rows : r.page # 0}
<1>1. all \in Seq(Seq(Int))
  <2>1. page.content \in Seq(Int)
    BY DEF PdfPages
  <2> QED
    BY <2>1, LinesAre
<1> HIDE DEF all
<1>2. DOMAIN all = 1 .. Len(all) /\ Len(all) \in Nat
  BY <1>1, LenProperties
<1>3. \A k \in 1 .. Len(all) : e(k) \in S
  <2> TAKE k \in 1 .. Len(all)
  <2>1. all[k] \in Seq(Int)
    BY <1>1, ElementOfSeq
  <2>2. Readables(all[k]) \in Seq(Int) /\ k \in Nat
    BY <2>1, ReadablesAre
  <2>3. \A c \in Seq(Int) : \A l \in Nat : [page |-> n, line |-> l, content |-> c] \in S
    BY DEF Rows
  <2> QED
    BY <2>2, <2>3
<1>4. PageRows(page, n) = [k \in 1 .. Len(all) |-> e(k)]
  BY <1>2 DEF PageRows, all
<1> HIDE DEF e, S
<1>5. [k \in 1 .. Len(all) |-> e(k)] \in Seq(S)
  BY <1>2, <1>3, IsASeq
<1> QED
  BY <1>4, <1>5 DEF S

LEMMA FileLinesArePaged ==
  ASSUME NEW file, TxtFile(file) \/ PdfFile(file)
  PROVE  Paged(FileLines(file))
<1>1. CASE TxtFile(file)
  <2> DEFINE lines == Lines(Normalized(Decoded(file)))
  <2>1. FileLines(file) = [k \in DOMAIN lines |->
                             [page |-> 0, line |-> k, content |-> Readables(lines[k])]]
    BY <1>1 DEF FileLines, TxtFile
  <2> HIDE DEF lines
  <2> QED
    BY <2>1 DEF Paged
<1>2. CASE PdfFile(file)
  <2> DEFINE N == Len(file.pages)
             S == {r \in Rows : r.page # 0}
             e(n) == PageRows(file.pages[n], n)
             parts == [n \in 1 .. N |-> e(n)]
  <2>1. file.pages \in Seq(PdfPages) /\ file.format = "pdf"
    BY <1>2 DEF PdfFile
  <2>2. N \in Nat /\ DOMAIN file.pages = 1 .. N /\ \A n \in 1 .. N : file.pages[n] \in PdfPages
    BY <2>1, LenProperties, ElementOfSeq
  <2>3. FileLines(file) = FlattenSeq(parts)
    BY <2>1, <2>2 DEF FileLines, PageRows
  <2>4. \A n \in 1 .. N : e(n) \in Seq(S)
    <3> TAKE n \in 1 .. N
    <3>1. n \in Nat /\ n # 0
      BY <2>2
    <3> QED
      BY <2>2, <3>1, PageRowsAre
  <2> HIDE DEF e, N, S
  <2>5. parts \in Seq(Seq(S))
    BY <2>2, <2>4, IsASeq
  <2> HIDE DEF parts
  <2>6. PICK joined : Joins(joined, parts, S)
    BY <2>5, JoinsExist
  <2>7. FlattenSeq(parts) \in Seq(S)
    BY <2>5, <2>6, FlattenJoins
  <2>8. \A i \in DOMAIN FileLines(file) : FileLines(file)[i] \in S
    <3> DEFINE rows == FlattenSeq(parts)
    <3>1. DOMAIN rows = 1 .. Len(rows)
      BY <2>7, LenProperties
    <3> HIDE DEF rows
    <3>2. \A i \in 1 .. Len(rows) : rows[i] \in S
      BY <2>7, ElementOfSeq DEF rows
    <3> QED
      BY <2>3, <3>1, <3>2 DEF rows
  <2> QED
    BY <2>8 DEF Paged, S
<1> QED
  BY <1>1, <1>2

(* The first and the last line of the file that an issue is located in.    *)
LEMMA LinesLead ==
  ASSUME CutInv, FindInv, DocInv, PlaceInv, NEW x \in ToSet(issues),
         scenario.file.format # "docx"
  PROVE  LinesLeadBack(x)
<1> DEFINE file  == scenario.file
           rows  == FileLines(file)
           start == x.start
           end   == x.end
           quote == Readables(Sub(text, start, end))
           place == x.location
<1>1. /\ doc = Extract(file) /\ doc # None /\ Typed(file) /\ text \in Seq(Int)
      /\ start \in Nat /\ end \in Nat /\ start < end /\ end <= Len(text)
      /\ place = Location(doc, start, end) /\ place # None
  BY IssuePlaced
<1>2. Paged(rows) /\ file.format # "docx"
  BY <1>1, FileLinesArePaged DEF Typed, DocxFile
<1> HIDE DEF file, rows, start, end, place
<1>3. PICK lines, at, par : Leading(file, doc, lines, at, par)
  <2>1. Extract(file) # None
    BY <1>1
  <2> QED
    BY <1>1, <2>1, ExtractLeads
<1>4. lines \in Seq(SourceLines) /\ Laid(doc, lines, at, par) /\ Mirrors(rows, lines)
  BY <1>2, <1>3 DEF Leading, rows
<1>5. end <= Len(doc.text)
  BY <1>1 DEF text
<1>6. PICK first, last : Located(doc, lines, at, par, start, end, first, last)
  <2>1. Location(doc, start, end) # None
    BY <1>1
  <2> QED
    BY <1>1, <1>4, <1>5, <2>1, LocationIs
<1>7. first \in 1 .. Len(lines) /\ last \in 1 .. Len(lines) /\ first <= last
  BY <1>1, <1>4, <1>5, <1>6, OutsideAreBreaks
<1>8. /\ place.page = lines[first].page /\ place.lineStart = lines[first].line
      /\ place.pageEnd = (IF lines[last].page # lines[first].page THEN lines[last].page ELSE 0)
      /\ place.lineEnd = lines[last].line
  <2>1. Location(doc, start, end) =
          [page |-> lines[first].page,
           pageEnd |-> IF lines[last].page # lines[first].page THEN lines[last].page ELSE 0,
           lineStart |-> lines[first].line, lineEnd |-> lines[last].line,
           paragraph |-> par[first], sentence |-> Marks(doc, par[first], start)]
    BY <1>6 DEF Located
  <2> QED
    BY <1>1, <2>1
<1>9. /\ rows \in Seq(Rows) /\ Len(lines) <= Len(rows)
      /\ \A i \in 1 .. Len(lines) : /\ rows[i].page = lines[i].page
                                    /\ rows[i].line = lines[i].line
                                    /\ rows[i].content = Readables(lines[i].content)
  BY <1>4 DEF Mirrors
<1>10. \A i \in 1 .. Len(lines) : i \in DOMAIN rows
  <2>1. DOMAIN rows = 1 .. Len(rows) /\ Len(rows) \in Nat /\ Len(lines) \in Nat
    BY <1>4, <1>9, LenProperties
  <2> QED
    BY <1>9, <2>1
<1>11. /\ rows[first].page = place.page /\ rows[first].line = place.lineStart
       /\ rows[last].page = (IF place.pageEnd = 0 THEN place.page ELSE place.pageEnd)
       /\ rows[last].line = place.lineEnd
  <2>1. rows[first].page = 0 <=> rows[last].page = 0
    BY <1>2, <1>7, <1>10 DEF Paged
  <2>2. /\ rows[first].page = lines[first].page /\ rows[first].line = lines[first].line
        /\ rows[last].page = lines[last].page /\ rows[last].line = lines[last].line
    BY <1>7, <1>9
  <2> QED
    BY <1>8, <2>1, <2>2
<1>12. [k \in 1 .. last - first + 1 |-> rows[first + k - 1].content]
         = ReadingsFrom(lines, first, last)
  <2>1. \A k \in 1 .. last - first + 1 :
          rows[first + k - 1].content = Readables(lines[first + k - 1].content)
    <3> TAKE k \in 1 .. last - first + 1
    <3>1. first + k - 1 \in 1 .. Len(lines)
      <4>1. Len(lines) \in Nat
        BY <1>4, LenProperties
      <4> QED
        BY <1>7, <4>1
    <3> QED
      BY <1>9, <3>1
  <2> QED
    BY <2>1, Zenon DEF ReadingsFrom
<1>13. Occurrences(FlattenSeq([k \in 1 .. last - first + 1 |-> rows[first + k - 1].content]),
                   quote) # {}
  <2>1. Occurrences(FlattenSeq(ReadingsFrom(lines, first, last)),
                    Readables(Sub(doc.text, start, end))) # {}
    BY <1>1, <1>4, <1>5, <1>6, LinesHoldQuote
  <2> QED
    BY <1>12, <2>1 DEF text
<1>14. text[start + 1] \notin Unseen => quote[1] \in ToSet(rows[first].content)
  <2> SUFFICES ASSUME text[start + 1] \notin Unseen PROVE quote[1] \in ToSet(rows[first].content)
    OBVIOUS
  <2>1. doc.text[start + 1] \notin Unseen /\ doc.text[start + 1] \notin White
    BY DEF text, Unseen
  <2>2. at[first] <= start /\ start < Top(lines, at, first)
    BY <1>1, <1>4, <1>5, <1>6, <2>1, FirstHolds
  <2>3. doc.text[start + 1] \in ToSet(Readables(lines[first].content))
    BY <1>1, <1>4, <1>7, <2>1, <2>2, LineReads
  <2>4. quote[1] = text[start + 1]
    BY <1>1, FirstIsRead
  <2>5. rows[first].content = Readables(lines[first].content)
    BY <1>7, <1>9
  <2> HIDE DEF quote
  <2> QED
    BY <2>3, <2>4, <2>5 DEF text
<1>15. text[end] \notin Unseen => quote[Len(quote)] \in ToSet(rows[last].content)
  <2> SUFFICES ASSUME text[end] \notin Unseen
               PROVE  quote[Len(quote)] \in ToSet(rows[last].content)
    OBVIOUS
  <2>1. doc.text[end] \notin White
    BY DEF text, Unseen
  <2>2. at[last] <= end - 1 /\ end - 1 < Top(lines, at, last)
    BY <1>1, <1>4, <1>5, <1>6, <2>1, LastHolds
  <2> DEFINE p == end - 1
  <2>3. p \in Nat /\ p + 1 = end
    BY <1>1
  <2> HIDE DEF p
  <2>4. at[last] <= p /\ p < Top(lines, at, last) /\ doc.text[p + 1] \notin Unseen
    BY <2>2, <2>3 DEF p, text
  <2>5. doc.text[p + 1] \in ToSet(Readables(lines[last].content))
    BY <1>4, <1>7, <2>3, <2>4, LineReads
  <2>6. quote[Len(quote)] = text[end]
    BY <1>1, LastIsRead
  <2>7. rows[last].content = Readables(lines[last].content)
    BY <1>7, <1>9
  <2> HIDE DEF quote
  <2> QED
    BY <2>3, <2>5, <2>6, <2>7 DEF text
<1>16. first \in DOMAIN rows /\ last \in DOMAIN rows
  BY <1>7, <1>10
<1> QED
  BY <1>7, <1>11, <1>13, <1>14, <1>15, <1>16 DEF LinesLeadBack, rows, file, start, end, place

(* Every issue stands where the model read it, and its position leads back *)
(* to the lines, or the paragraph and sentence, of the file.               *)
THEOREM IssuesAreLocated == Spec => []LocatedWhereQuoted
<1>1. QuotesHold /\ CutInv /\ FindInv /\ DocInv /\ PlaceInv => LocatedWhereQuoted
  <2> SUFFICES ASSUME QuotesHold, CutInv, FindInv, DocInv, PlaceInv PROVE LocatedWhereQuoted
    OBVIOUS
  <2>1. \A n \in DOMAIN issues : issues[n] \in ToSet(issues)
    BY DEF ToSet
  <2>2. \A n \in DOMAIN issues :
          /\ WithinItsQuote(issues[n])
          /\ scenario.file.format # "docx" => LinesLeadBack(issues[n])
    BY <2>1, LinesLead DEF QuotesHold
  <2>3. \A n, k \in DOMAIN issues :
          (/\ issues[n].start < issues[k].start
           /\ text[issues[n].start + 1] \notin White /\ text[issues[k].start + 1] \notin White)
          => ParagraphsLeadBack(issues[n], issues[k])
    BY <2>1, ParagraphsLead
  <2>4. FailsForBareBreaks
    BY DEF PlaceInv
  <2> QED
    BY <2>2, <2>3, <2>4, Zenon DEF LocatedWhereQuoted
<1> QED
  BY <1>1, CutInvariant, FindInvariant, DocInvariant, PlaceInvariant, IssuesWithinQuotes, PTL
=============================================================================

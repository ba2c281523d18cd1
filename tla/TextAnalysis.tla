---------------------------- MODULE TextAnalysis ----------------------------
(***************************************************************************)
(* The pure algorithms of textcomb-core::analysis: cutting a text into     *)
(* chunks with a core each, locating a quoted mistake, grading it and      *)
(* merging duplicates.                                                     *)
(* Texts, characters and positions are those of SourceText.                *)
(***************************************************************************)
EXTENDS SourceText

CONSTANTS
  TargetChunk,    \* TARGET_CHUNK_CHARS
  HardChunk,      \* HARD_CHUNK_CHARS
  MaxOverlap,     \* MAX_OVERLAP_CHARS
  MinShared,      \* characters a literal edit must leave alone
  MaxEdit,        \* characters a literal edit may change
  Confirm,        \* confirmed_threshold
  Suspect         \* suspected_threshold

ASSUME SizesAssumption ==
  /\ {TargetChunk, HardChunk, MaxOverlap} \subseteq Nat \ {0}
  /\ TargetChunk <= HardChunk /\ 2 * MaxOverlap <= HardChunk

Overlap(a, b) == a.start < b.end /\ b.start < a.end
Covers(a, b)  == a.start <= b.start /\ b.end <= a.end
Most(a, b)    == IF a >= b THEN a ELSE b
Clamp(n, lo, hi) == Most(lo, Least(n, hi))
-----------------------------------------------------------------------------
(* Paragraphs                                                              *)

(* Two or more line breaks in a row separate paragraphs.                   *)
Separates(text, k) ==
  /\ text[k + 1] = LineBreak
  /\ \/ k + 1 < Len(text) /\ text[k + 2] = LineBreak
     \/ k > 0 /\ text[k] = LineBreak

ParagraphAt(text, start) ==
  [start |-> start,
   end |-> Min({Len(text)} \cup {k \in start .. Len(text) - 1 : Separates(text, k)})]

ParagraphSet(text) ==
  {ParagraphAt(text, k) : k \in
     {k \in 0 .. Len(text) - 1 : ~Separates(text, k) /\ (k > 0 => Separates(text, k - 1))}}

(* paragraph_ranges; a text of separators only is one range.               *)
Paragraphs(text) ==
  IF text # <<>> /\ ParagraphSet(text) = {} THEN {[start |-> 0, end |-> Len(text)]}
                                            ELSE ParagraphSet(text)

(* The first of the paragraphs from a position on, or None.                *)
NextParagraph(text, position) ==
  LET left == {p \in Paragraphs(text) : p.start >= position}
  IN IF left = {} THEN None ELSE CHOOSE p \in left : \A q \in left : p.start <= q.start
-----------------------------------------------------------------------------
(* Chunks                                                                  *)

(* push_chunk: blank chunks are dropped, the core lies inside the chunk.   *)
PushChunk(text, chunks, start, end, coreStart, coreEnd) ==
  LET first == Clamp(coreStart, start, end)
  IN IF Blank(Sub(text, start, end)) THEN chunks
     ELSE Append(chunks, [start |-> start, end |-> end, coreStart |-> first,
                          coreEnd |-> Clamp(coreEnd, first, end)])

(* split_long_paragraph: after the last mark of the overlap, or hard.      *)
SplitLong(text, start, end) ==
  LET hard  == start + HardChunk
      marks == {k \in hard - MaxOverlap .. hard - 1 : text[k + 1] \in {Stop, Semicolon}}
  IN IF hard >= end THEN end
     ELSE IF marks = {} THEN hard ELSE Max(marks) + 1

(* The next window starts in the overlap; the core ends in its middle.     *)
NextWindow(text, cursor, end, paragraphEnd) ==
  LET next == Most(end - MaxOverlap, cursor + 1)
  IN IF end >= paragraphEnd THEN [next |-> end, coreEnd |-> end]
     ELSE [next |-> next, coreEnd |-> next + (end - next) \div 2]

(* Variant for ChunksCoverText: the context ignores the hard limit.        *)
OverlapStartUnbounded(previous, p) ==
  IF previous # None /\ previous.end - previous.start <= MaxOverlap THEN previous.start ELSE p.start

(* A short previous paragraph is repeated as context of the next chunk.    *)
OverlapStart(previous, p) ==
  IF /\ previous # None
     /\ previous.end - previous.start <= MaxOverlap
     /\ p.end - previous.start <= HardChunk
  THEN previous.start ELSE p.start
-----------------------------------------------------------------------------
(* Locating a quote                                                        *)

Occurrences(content, quote) ==
  {k \in 0 .. Len(content) - Len(quote) : Sub(content, k, k + Len(quote)) = quote}

(* Variant for LocatedWhereQuoted: the first occurrence is taken.          *)
LocateFirst(content, quote, before, after) ==
  IF Blank(quote) \/ Occurrences(content, quote) = {} THEN None
  ELSE [at |-> Min(Occurrences(content, quote))]

(* locate_unique: a quote that occurs more than once needs its contexts.   *)
Locate(content, quote, before, after) ==
  LET places == Occurrences(content, quote)
      fitting == {k \in places :
        /\ before = None \/ IsSuffix(before.text, Sub(content, 0, k))
        /\ after = None  \/ IsPrefix(after.text, Sub(content, k + Len(quote), Len(content)))}
  IN IF Blank(quote) \/ places = {} THEN None
     ELSE IF Cardinality(places) = 1 THEN [at |-> CHOOSE k \in places : TRUE]
     ELSE IF Cardinality(fitting) = 1 THEN [at |-> CHOOSE k \in fitting : TRUE]
     ELSE None

(* A chunk keeps a quote if its midpoint is in the core.                   *)
Accepted(chunk, range) ==
  LET midpoint == range.start + (range.end - range.start) \div 2
  IN chunk.coreStart <= midpoint /\ midpoint < chunk.coreEnd

(* Variant for ReportOfTheText: the midpoint is taken in chunk positions.  *)
ResolveLocal(text, chunk, candidate) ==
  LET found == Locate(Sub(text, chunk.start, chunk.end), candidate.quote,
                      candidate.before, candidate.after)
      Placed(from) == [start |-> from, end |-> from + Len(candidate.quote)]
  IN IF found # None /\ Accepted(chunk, Placed(found.at))
     THEN Placed(chunk.start + found.at) ELSE None

(* resolve_candidates: the located range, or None if another chunk owns it. *)
ResolveAt(text, chunk, candidate) ==
  LET content == Sub(text, chunk.start, chunk.end)
      found   == Locate(content, candidate.quote, candidate.before, candidate.after)
  IN IF found = None THEN None
     ELSE LET start == chunk.start + found.at
              range == [start |-> start, end |-> start + Len(candidate.quote)]
          IN IF Accepted(chunk, range) THEN range ELSE None
-----------------------------------------------------------------------------
(* Protected spans: what the patterns of overlaps_protected_span match,    *)
(* with one character for each mark they look for and one alternative of   *)
(* each shape.                                                             *)

Backtick     == -4
Dollar       == -5
Opening      == -6    \* of a formula, as \begin{equation}
Closing      == -7
Scheme       == -8    \* what a link starts with
Digit        == -9
Unit         == -10
LeftBracket  == -11
RightBracket == -12

(* A profile has patterns of its own beside those of every text.           *)
Patterns(profile) == {"base", profile} \ {"general"}

(* Quoted code or a formula ends at the next mark of its kind, a link      *)
(* before the next blank; a citation has digits only, and so has an amount *)
(* before its unit.                                                        *)
Matches(content, m, pattern) ==
  LET first  == content[m.start + 1]
      last   == content[m.end]
      inside == {content[k] : k \in m.start + 2 .. m.end - 1}
  IN \/ /\ pattern = "base" /\ first \in {Backtick, Dollar} /\ last = first
        /\ inside # {} /\ first \notin inside
     \/ pattern = "base" /\ first = Opening /\ last = Closing /\ Closing \notin inside
     \/ /\ pattern = "base" /\ first = Scheme /\ m.start + 1 < m.end
        /\ White \cap (inside \cup {last}) = {}
        /\ m.end < Len(content) => content[m.end + 1] \in White
     \/ pattern = "academic" /\ first = LeftBracket /\ last = RightBracket /\ inside = {Digit}
     \/ pattern = "financial" /\ first = Digit /\ last = Unit /\ inside \subseteq {Digit}

AllMatches(content, pattern) ==
  {m \in [start : 0 .. Len(content) - 1, end : 1 .. Len(content)] :
     m.start < m.end /\ Matches(content, m, pattern)}

Straddles(m, k) == m.start < k /\ k < m.end

(* find_iter goes on where a match ends: found are the matches that start  *)
(* inside no match found before them.                                      *)
FindIter(content, pattern) ==
  LET all       == AllMatches(content, pattern)
      Before(m) == {n \in all : n.start < m.start}
      Open(found, n) == ~\E f \in found : Straddles(f, n.start)
  IN {m \in all : \E found \in SUBSET Before(m) :
        Open(found, m) /\ \A n \in Before(m) : n \in found <=> Open(found, n)}

(* Variant for ConfirmedOutsideProtected: the range of the text is looked  *)
(* up among the spans of the chunk.                                        *)
InProtectedAtSource(content, chunk, range, profile, category) ==
  \E pattern \in Patterns(profile) :
    \E span \in FindIter(Sub(content, chunk.start, chunk.end), pattern) :
      IF category = "grammar" THEN Covers(span, range) ELSE Overlap(span, range)

(* The spans are those of the chunk's text.  A grammar issue must be       *)
(* covered by one, any other issue only touch it.                          *)
InProtected(content, chunk, range, profile, category) ==
  LET local == [start |-> range.start - chunk.start, end |-> range.end - chunk.start]
  IN \E pattern \in Patterns(profile) :
       \E span \in FindIter(Sub(content, chunk.start, chunk.end), pattern) :
         IF category = "grammar" THEN Covers(span, local) ELSE Overlap(span, local)
-----------------------------------------------------------------------------
(* Grading a verified candidate                                            *)

ContextualSubtypes == {"ambiguity", "illogical", "word_misuse"}

(***************************************************************************)
(* localize_literal_edit: a typo or punctuation edit that keeps most of    *)
(* the quote is narrowed to the characters it changes.  edit is the range  *)
(* in which the suggestion differs from the quote.                         *)
(***************************************************************************)
LiteralEdit(category, range, edit) ==
  LET shared == (range.end - range.start) - (edit.end - edit.start)
  IN /\ category \in {"typo", "punctuation"}
     /\ shared >= MinShared
     /\ 4 * shared >= 3 * (range.end - range.start)
     /\ edit.start < edit.end
     /\ edit.end - edit.start <= MaxEdit

(* The verifier classifies on its own; None keeps the candidate's class.   *)
ClassOf(candidate, verdict) ==
  IF verdict.class = None THEN candidate.class ELSE verdict.class

Reclassified(candidate, verdict) ==
  LET new == ClassOf(candidate, verdict)
  IN \/ new.category # candidate.class.category
     \/ new.category = "grammar" /\ new.subtype # candidate.class.subtype

(* The level of an issue: confirmed by both passes, and never for a        *)
(* paragraph, a protected, a reclassified or a context-dependent issue.    *)
Level(candidate, verdict, protected) ==
  LET class == ClassOf(candidate, verdict)
  IN IF /\ candidate.confidence >= Confirm /\ verdict.confidence >= Confirm
        /\ verdict.verdict = "confirmed"
        /\ ~Reclassified(candidate, verdict)
        /\ class.category # "paragraph" /\ ~protected
        /\ ~(class.category = "grammar" /\ class.subtype \in ContextualSubtypes)
     THEN "confirmed" ELSE "suspected"

Dropped(verdict) == verdict.verdict = "rejected" \/ verdict.confidence < Suspect

(* The suggestion: free advice, the quote with the edit applied, or, for a *)
(* narrowed edit, only the replacement.                                    *)
Suggestion(candidate, range, narrow) ==
  LET edit == candidate.literal
  IN IF edit = None \/ narrow THEN <<candidate.advice>>
     ELSE Sub(candidate.quote, 0, edit.start - range.start)
            \o <<candidate.advice>>
            \o Sub(candidate.quote, edit.end - range.start, Len(candidate.quote))

(* The issue finalize_issues makes of a located, accepted candidate.       *)
IssueAt(doc, profile, chunk, candidate, verdict, range) ==
  LET class  == ClassOf(candidate, verdict)
      narrow == /\ candidate.literal # None /\ ~Reclassified(candidate, verdict)
                /\ LiteralEdit(class.category, range, candidate.literal)
      place  == IF narrow THEN candidate.literal ELSE range
  IN [start |-> place.start, end |-> place.end, class |-> class,
      location |-> Location(doc, place.start, place.end),
      suggestion |-> Suggestion(candidate, range, narrow),
      level |-> Level(candidate, verdict,
                      InProtected(doc.text, chunk, range, profile, candidate.class.category)),
      confidence |-> verdict.confidence]
-----------------------------------------------------------------------------
(* Merging                                                                 *)

SameProblem(a, b) ==
  a.class = b.class /\ a.suggestion = b.suggestion

Duplicates(a, b) == SameProblem(a, b) /\ Overlap(a, b)

CategoryRank == [grammar |-> 1, paragraph |-> 2, punctuation |-> 3, typo |-> 4]

SortedBefore(a, b) ==
  \/ a.start < b.start
  \/ a.start = b.start /\ a.end < b.end
  \/ a.start = b.start /\ a.end = b.end
       /\ CategoryRank[a.class.category] < CategoryRank[b.class.category]
  \/ a.start = b.start /\ a.end = b.end
       /\ a.class.category = b.class.category
       /\ a.confidence > b.confidence

(* The order of the merge, and that of the report.                         *)
ByProblem(issues) ==
  {p \in (DOMAIN issues) \X (DOMAIN issues) : SortedBefore(issues[p[1]], issues[p[2]])}

ByRange(issues) ==
  {p \in (DOMAIN issues) \X (DOMAIN issues) :
     LET a == issues[p[1]]
         b == issues[p[2]]
     IN a.start < b.start \/ (a.start = b.start /\ a.end < b.end)}

(* A stable sort, as in the code: the n-th issue is the one with n - 1     *)
(* issues before it in the order or, among equals, in the list.            *)
Precedes(before, k, i) == <<k, i>> \in before \/ (k < i /\ <<i, k>> \notin before)

StableSort(issues, before) ==
  LET Place(i) == 1 + Cardinality({k \in DOMAIN issues : Precedes(before, k, i)})
  IN [n \in DOMAIN issues |-> issues[CHOOSE i \in DOMAIN issues : Place(i) = n]]

(* Variant for MergeKeepsTheBest: only equal ranges are merged.            *)
MergeEqual(merged, issue) ==
  IF \E i \in DOMAIN merged : SameProblem(merged[i], issue) /\ merged[i].start = issue.start
  THEN merged ELSE Append(merged, issue)

(* An issue joins the first kept issue it duplicates; the better one stays. *)
MergeIssue(merged, issue) ==
  LET same  == {i \in DOMAIN merged : Duplicates(merged[i], issue)}
      index == Min(same)
  IN IF same = {} THEN Append(merged, issue)
     ELSE IF issue.confidence > merged[index].confidence
            THEN [merged EXCEPT ![index] = issue] ELSE merged

MergeAll(issues) ==
  LET upTo[n \in 0 .. Len(issues)] ==
        IF n = 0 THEN <<>> ELSE MergeIssue(upTo[n - 1], issues[n])
  IN upTo[Len(issues)]

(* deduplicate_issues *)
Deduplicate(issues) ==
  LET merged == MergeAll(StableSort(issues, ByProblem(issues)))
  IN StableSort(merged, ByRange(merged))
=============================================================================

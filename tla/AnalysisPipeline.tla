-------------------------- MODULE AnalysisPipeline --------------------------
(***************************************************************************)
(* One analysis from the file to the list of issues: process_job extracts  *)
(* the text, chunk_text cuts it paragraph by paragraph, at most PerJob     *)
(* chunks are with the models at a time, each returns its issues in any    *)
(* order, and the merge makes the report.                                  *)
(*                                                                         *)
(* The models are the environment: for every planted mistake a chunk shows *)
(* in full, they report it or not, quote it with more or less context and  *)
(* hold some opinion.  A scenario fixes the file and these freedoms.       *)
(***************************************************************************)
EXTENDS TextAnalysis

CONSTANTS
  PerJob,
  Scenarios   \* [file, profile, mistakes, slack, contexts, opinions]

(* The files there are.                                                    *)
ASSUME FilesAssumption ==
  \A first \in Scenarios :
    LET file == first.file
    IN \/ file.format = "txt" /\ file.content \in Seq(Int)
       \/ /\ file.format = "docx"
          /\ file.events \in Seq([kind : STRING, tag : STRING, content : Seq(Int)])
          /\ file.intact => WellFormed(file.events)
       \/ /\ file.format = "pdf"
          /\ file.pages \in Seq([content : Seq(Int), hidden : Seq(Int), images : BOOLEAN,
                                 drawing : Seq(STRING)])
          /\ \A n \in DOMAIN file.pages : Painted(file.pages[n])

(* A mistake is a range of the text; what is said of it has the types that *)
(* the answers of a model are parsed to.                                   *)
ASSUME ScenariosAssumption ==
  \A first \in Scenarios :
    /\ first.profile \in {"general", "academic", "financial"}
    /\ first.slack \in Nat /\ IsFiniteSet(first.mistakes)
    /\ \A m \in first.mistakes :
         /\ m.start \in Nat /\ m.end \in Nat /\ m.start < m.end
         /\ m.class.category \in DOMAIN CategoryRank
    /\ \A o \in first.opinions :
         /\ o.verdict.confidence \in Nat
         /\ o.verdict.class = None \/ o.verdict.class.category \in DOMAIN CategoryRank

VARIABLES
  scenario,
  phase,      \* "read", "cut", "analyze", "done" or "failed"
  doc,        \* the extracted document
  chunks,
  open,       \* the chunk that paragraphs still join, or None
  previous,   \* the paragraph before this one, or None
  position,   \* the end of the paragraphs taken
  window,     \* where the long paragraph is cut next, or None
  pending,    \* the chunks whose future has not returned
  picks,      \* what the models reported of each mistake, by chunk
  issues,     \* all_issues, in order of arrival
  report

cutting == <<open, previous, position, window>>
vars    == <<scenario, phase, doc, chunks, cutting, pending, picks, issues, report>>

text == doc.text

Init ==
  /\ scenario \in Scenarios
  /\ phase = "read" /\ doc = None
  /\ chunks = <<>> /\ open = None /\ previous = None /\ position = 0 /\ window = None
  /\ pending = {} /\ picks = <<>>
  /\ issues = <<>> /\ report = <<>>

(* extract                                                                 *)
Read ==
  /\ phase = "read"
  /\ doc' = Extract(scenario.file)
  /\ phase' = IF doc' = None THEN "failed" ELSE "cut"
  /\ UNCHANGED <<scenario, chunks, cutting, pending, picks, issues, report>>
-----------------------------------------------------------------------------
(* chunk_text: the body of its loop, and the loop over one long paragraph. *)

(* The chunks with the open one, which ends its own core.                  *)
Flushed ==
  IF open = None THEN chunks
  ELSE PushChunk(text, chunks, open.start, open.end, open.coreStart, open.end)

Opened(start, p) == [start |-> start, end |-> p.end, coreStart |-> p.start]

CutParagraph ==
  LET p      == NextParagraph(text, position)
      long   == p.end - p.start > HardChunk
      filled == open # None /\ p.end - open.start > TargetChunk
  IN /\ phase = "cut" /\ window = None /\ p # None
     /\ previous' = p /\ position' = p.end
     /\ chunks' = IF long \/ filled THEN Flushed ELSE chunks
     /\ open'   = IF long THEN None
                  ELSE IF filled THEN Opened(OverlapStart(previous, p), p)
                  ELSE IF open = None THEN Opened(p.start, p) ELSE [open EXCEPT !.end = p.end]
     /\ window' = IF long THEN [cursor |-> p.start, core |-> p.start, end |-> p.end] ELSE None
     /\ UNCHANGED <<scenario, phase, doc, pending, picks, issues, report>>

CutWindow ==
  /\ phase = "cut" /\ window # None
  /\ LET end   == SplitLong(text, window.cursor, window.end)
         after == NextWindow(text, window.cursor, end, window.end)
     IN /\ chunks' = PushChunk(text, chunks, window.cursor, end, window.core, after.coreEnd)
        /\ window' = IF end >= window.end THEN None
                     ELSE [window EXCEPT !.cursor = after.next, !.core = after.coreEnd]
  /\ UNCHANGED <<scenario, phase, doc, open, previous, position, pending, picks, issues, report>>

(* The last chunk, and require_non_empty_chunks.                           *)
EndCut ==
  /\ phase = "cut" /\ window = None /\ NextParagraph(text, position) = None
  /\ chunks' = Flushed
  /\ pending' = DOMAIN chunks'
  /\ phase' = IF chunks' = <<>> THEN "failed" ELSE "analyze"
  /\ UNCHANGED <<scenario, doc, cutting, picks, issues, report>>
-----------------------------------------------------------------------------
(* The context a model quotes beside a range: nothing, or one character.   *)
Context(chunk, range, wanted) ==
  IF ~wanted THEN [before |-> None, after |-> None]
  ELSE [before |-> [text |-> Sub(text, Most(chunk.start, range.start - 1), range.start)],
        after  |-> [text |-> Sub(text, range.end, Least(chunk.end, range.end + 1))]]

(* The ways to quote a mistake from a chunk that shows it in full.         *)
Quotes(chunk, mistake) ==
  {range \in [start : Most(0, mistake.start - scenario.slack) .. mistake.start,
              end : mistake.end .. Least(Len(text), mistake.end + scenario.slack)] :
     Covers(chunk, range)}

Options(chunk, mistake) ==
  {[at |-> range, opinion |-> opinion, context |-> Context(chunk, range, wanted)] :
     range \in Quotes(chunk, mistake), opinion \in scenario.opinions,
     wanted \in scenario.contexts}

Candidate(mistake, pick) ==
  [quote |-> Sub(text, pick.at.start, pick.at.end),
   before |-> pick.context.before, after |-> pick.context.after,
   class |-> mistake.class, confidence |-> pick.opinion.candidate,
   advice |-> mistake.advice,
   literal |-> IF mistake.literal THEN [start |-> mistake.start, end |-> mistake.end]
                                  ELSE None]

(* Where resolve_candidates locates what is reported of a mistake, whether *)
(* the verdict keeps it, and the issue finalize_issues makes of it.        *)
PlaceOf(chunk, m, pick) == ResolveAt(text, chunk, Candidate(m, pick))

Keeps(chunk, m, pick) ==
  pick # None /\ PlaceOf(chunk, m, pick) # None /\ ~Dropped(pick.opinion.verdict)

IssueOf(chunk, m, pick) ==
  IssueAt(doc, scenario.profile, chunk, Candidate(m, pick), pick.opinion.verdict,
          PlaceOf(chunk, m, pick))

(* The issues of one chunk; one without a location fails the chunk.        *)
ChunkIssues(chunk, pick) ==
  LET kept  == {m \in scenario.mistakes : Keeps(chunk, m, pick[m])}
      order == SetToSeq(kept)
      found == [n \in 1 .. Cardinality(kept) |-> IssueOf(chunk, order[n], pick[order[n]])]
  IN IF \E m \in kept : IssueOf(chunk, m, pick[m]).location = None THEN None
     ELSE [issues |-> Deduplicate(found)]

(* buffer_unordered starts the futures in order, PerJob at a time.         *)
InFlight == {i \in pending : Cardinality({k \in pending : k < i}) < PerJob}

Analyze(i) ==
  /\ phase = "analyze" /\ i \in InFlight
  /\ \E pick \in [scenario.mistakes ->
                   {None} \cup UNION {Options(chunks[i], m) : m \in scenario.mistakes}] :
       /\ \A m \in scenario.mistakes : pick[m] \in {None} \cup Options(chunks[i], m)
       /\ picks' = [k \in DOMAIN picks \cup {i} |-> IF k = i THEN pick ELSE picks[k]]
       /\ LET found == ChunkIssues(chunks[i], pick)
          IN IF found = None THEN phase' = "failed" /\ UNCHANGED issues
             ELSE issues' = issues \o found.issues /\ UNCHANGED phase
  /\ pending' = pending \ {i}
  /\ UNCHANGED <<scenario, doc, chunks, cutting, report>>

Merge ==
  /\ phase = "analyze" /\ pending = {}
  /\ report' = Deduplicate(issues)
  /\ phase' = "done"
  /\ UNCHANGED <<scenario, doc, chunks, cutting, pending, picks, issues>>

Next == Read \/ CutParagraph \/ CutWindow \/ EndCut \/ Merge \/ \E i \in pending : Analyze(i)

Spec == Init /\ [][Next]_vars
-----------------------------------------------------------------------------
JustCut == phase = "analyze" /\ picks = <<>>

Owners(k) == {i \in DOMAIN chunks : chunks[i].coreStart <= k /\ k < chunks[i].coreEnd}

InParagraph(range) == \E p \in Paragraphs(text) : Covers(p, range)

(* Every chunk is a part of the text within the hard limit of a model      *)
(* call, its core lies inside it, and the chunks follow each other.        *)
ChunksFit ==
  JustCut => \A i \in DOMAIN chunks :
    LET c == chunks[i]
    IN /\ 0 <= c.start /\ c.end <= Len(text) /\ c.end - c.start <= HardChunk
       /\ c.start <= c.coreStart /\ c.coreStart < c.coreEnd /\ c.coreEnd <= c.end
       /\ i > 1 => chunks[i - 1].coreEnd <= c.coreStart

(* A file is analysed in full or refused: no line, run of text or page of  *)
(* it is left out (docs/PROJECT.md:47), provided that a PDF page that hides *)
(* text is sparse, a page with SparsePage characters is not inspected, and *)
(* that a DOCX has no text boxes.                                          *)
NothingLeftUnread ==
  LET file == scenario.file
  IN (/\ phase \in {"analyze", "done"}
      /\ file.format = "docx" => Flat(file.events)
      /\ file.format = "pdf" => \A n \in DOMAIN file.pages :
            file.pages[n].hidden # <<>> => Readable(file.pages[n]) < SparsePage)
       => /\ Readables(text) = Readables(Visible(file))
          /\ file.format = "pdf" => Len(file.pages) = file.count

(* Every character a paragraph has is owned by exactly one chunk, wherever *)
(* long paragraphs are split and short ones are joined; only blank windows *)
(* are dropped.                                                            *)
EveryCharacterOwned ==
  JustCut => \A p \in Paragraphs(text) : \A k \in p.start .. p.end - 1 :
       IF Blank(Sub(text, k, k + 1)) THEN Cardinality(Owners(k)) <= 1
                                     ELSE Cardinality(Owners(k)) = 1

(* A quote no longer than the overlap, anywhere in a paragraph, is seen in *)
(* full by the one chunk that may report it.                               *)
ShortQuotesSeen ==
  JustCut => \A p \in Paragraphs(text) :
    \A range \in {[start |-> s, end |-> s + n] : s \in p.start .. p.end - 1, n \in 1 .. MaxOverlap} :
      (Covers(p, range) /\ ~Blank(Sub(text, range.start, range.end)))
        => /\ Cardinality({i \in DOMAIN chunks : Accepted(chunks[i], range)}) = 1
           /\ \A i \in DOMAIN chunks :
                 Accepted(chunks[i], range) => Covers(chunks[i], range)

(* The chunks carry the whole text: within the limit of a model call, each *)
(* character and each short quote of a paragraph in exactly one core.      *)
ChunksCoverText == ChunksFit /\ EveryCharacterOwned /\ ShortQuotesSeen

Reports(i, m) == picks[i][m]

(* The chunk shows the quote and reports it so that it is located and the  *)
(* second pass upholds it.                                                 *)
Upholds(k, m, at) ==
  /\ Reports(k, m) # None /\ Reports(k, m).at = at
  /\ ~Dropped(Reports(k, m).opinion.verdict)
  /\ Locate(Sub(text, chunks[k].start, chunks[k].end), Candidate(m, Reports(k, m)).quote,
            Reports(k, m).context.before, Reports(k, m).context.after) # None

(* A mistake that every chunk quotes alike, wherever the quote is shown in *)
(* full, is in the report exactly once: not twice because two chunks share *)
(* the text, and not lost because each leaves it to the other.             *)
ReportedOnce ==
  phase = "done" => \A m \in scenario.mistakes : \A i \in DOMAIN chunks :
    LET at == Reports(i, m).at
    IN (/\ Cardinality(scenario.mistakes) = 1
        /\ Reports(i, m) # None
        /\ InParagraph(at) /\ at.end - at.start <= MaxOverlap
        /\ \A k \in DOMAIN chunks :
             (Covers(chunks[k], at) \/ Reports(k, m) # None) => Upholds(k, m, at))
       => Cardinality({r \in ToSet(report) : Overlap(r, m)}) = 1

(* An issue stands where the model read the quote: an ambiguous quote is   *)
(* dropped, never attached to another occurrence.                          *)
WithinItsQuote(issue) ==
  \E i \in DOMAIN picks, m \in scenario.mistakes :
     Reports(i, m) # None /\ Covers(Reports(i, m).at, issue)

(* From its first page and line to its last ones the file reads the issue. *)
LinesLeadBack(issue) ==
  LET at    == issue.location
      lines == FileLines(scenario.file)
      quote == Readables(Sub(text, issue.start, issue.end))
  IN \E from, to \in DOMAIN lines :
     /\ from <= to
     /\ lines[from].page = at.page /\ lines[from].line = at.lineStart
     /\ lines[to].page = (IF at.pageEnd = 0 THEN at.page ELSE at.pageEnd)
     /\ lines[to].line = at.lineEnd
     /\ Occurrences(FlattenSeq([k \in 1 .. to - from + 1 |-> lines[from + k - 1].content]),
                    quote) # {}
     /\ text[issue.start + 1] \notin Unseen => quote[1] \in ToSet(lines[from].content)
     /\ text[issue.end] \notin Unseen => quote[Len(quote)] \in ToSet(lines[to].content)

BlankLineBetween(a, b) ==
  \E j, k \in a.start .. b.start - 1 :
     /\ j < k /\ text[j + 1] = LineBreak /\ text[k + 1] = LineBreak
     /\ Blank(Sub(text, j, k))

(* The paragraph changes at blank lines, only there and at each that lies  *)
(* in no paragraph, and within one paragraph the sentence grows with the   *)
(* marks that end a sentence.                                              *)
ParagraphsLeadBack(a, b) ==
  /\ a.location.paragraph <= b.location.paragraph
  /\ a.location.paragraph # b.location.paragraph => BlankLineBetween(a, b)
  /\ BlankLineBetween(a, b) =>
       a.location.paragraph # b.location.paragraph \/ BlankLineInside(scenario.file)
  /\ a.location.paragraph = b.location.paragraph =>
       b.location.sentence - a.location.sentence
         = Cardinality({k \in a.start .. b.start - 1 : text[k + 1] = Stop})

(* A job fails over a location only for an edit of line breaks alone.      *)
FailsForBareBreaks ==
  (phase = "failed" /\ chunks # <<>>) =>
     \E m \in scenario.mistakes : m.literal /\ Blank(Sub(text, m.start, m.end))

(* Every issue stands where the model read it, and its position leads back *)
(* to the pages and lines, or the paragraph and sentence, of the file      *)
(* (docs/PROJECT.md:24).                                                   *)
LocatedWhereQuoted ==
  /\ \A n \in DOMAIN issues :
       /\ WithinItsQuote(issues[n])
       /\ scenario.file.format # "docx" => LinesLeadBack(issues[n])
  /\ \A n, k \in DOMAIN issues :
       /\ issues[n].start < issues[k].start
       /\ text[issues[n].start + 1] \notin White /\ text[issues[k].start + 1] \notin White
       => ParagraphsLeadBack(issues[n], issues[k])
  /\ FailsForBareBreaks

(* The chunk shows the span, or half the overlap holds the span and half   *)
(* the quote, but for a character they share and one inside the core.      *)
ShownBeside(chunk, at, span) ==
  \/ Covers(chunk, span)
  \/ /\ InParagraph(span)
     /\ (span.end - span.start) + (at.end - at.start + 1) \div 2 <= MaxOverlap \div 2 + 2

(* A confirmed typo or punctuation issue touches no protected span of the  *)
(* text: not where a window ends beside it either, unless a window starts  *)
(* inside a span, whose end it takes for a beginning.                      *)
ConfirmedOutsideProtected ==
  \A i \in DOMAIN picks, m \in scenario.mistakes :
     LET at == Reports(i, m).at
         r  == IssueOf(chunks[i], m, Reports(i, m))
     IN (/\ Keeps(chunks[i], m, Reports(i, m))
         /\ r \in ToSet(report) /\ r.level = "confirmed"
         /\ r.class.category \in {"typo", "punctuation"})
        => \A pattern \in Patterns(scenario.profile) :
             LET found == FindIter(text, pattern)
             IN \A span \in found :
                  (ShownBeside(chunks[i], at, span) /\ ~\E f \in found : Straddles(f, chunks[i].start))
                    => ~Overlap(r, span)

(* Two issues of the report never propose the same edit for overlapping    *)
(* text, and the report is in text order.                                  *)
ReportDisjoint ==
  \A a, b \in DOMAIN report : a < b =>
     /\ ~Duplicates(report[a], report[b])
     /\ report[a].start <= report[b].start

(* Overlaps of the same problem lead from a to r: every set of issues with *)
(* a and without r has an issue that duplicates one outside.               *)
Leads(all, a, r) ==
  \A within \in SUBSET (all \ {r}) :
     a \in within => \E x \in within, y \in all \ within : Duplicates(x, y)

(* For every issue a chunk returned, the report keeps one at least as sure *)
(* that overlaps of the same problem lead to.                              *)
BestKept ==
  phase = "done" => \A a \in ToSet(issues) :
     \E r \in ToSet(report) : r.confidence >= a.confidence /\ Leads(ToSet(issues), a, r)

(* Merging leaves no two issues for one problem, and loses none for which  *)
(* the report has nothing as sure.                                         *)
MergeKeepsTheBest == ReportDisjoint /\ BestKept

(* The findings of the report do not depend on the order in which the      *)
(* chunks returned.  The level may: of two equally sure issues for one     *)
(* edit the first stays, and their candidates may be graded differently.   *)
Finding(issue) ==
  <<issue.start, issue.end, issue.class, issue.suggestion, issue.confidence>>

OrderFree ==
  LET sorted == Deduplicate(SetToSeq(ToSet(issues)))
  IN phase = "done" => {Finding(r) : r \in ToSet(report)} = {Finding(r) : r \in ToSet(sorted)}

(* The report is one of the text, however it is cut and whichever chunk    *)
(* returns first: no mistake twice or lost, no finding by order.           *)
ReportOfTheText == ReportedOnce /\ OrderFree
=============================================================================

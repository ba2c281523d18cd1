------------------------------ MODULE SourceText ------------------------------
(***************************************************************************)
(* textcomb-core::documents: a TXT, DOCX or PDF file becomes one immutable *)
(* text with a map from positions back to pages, lines and paragraphs.     *)
(*                                                                         *)
(* A text is a sequence of characters; positions count from 0 and a range  *)
(* [start, end) is a record, as in the code.  The character classes the    *)
(* code tells apart are named below; every greater number is a letter, and *)
(* the smaller ones are the marks that TextAnalysis looks for.             *)
(*                                                                         *)
(* A file is one of                                                        *)
(*   [format |-> "txt", encoding, content]                                 *)
(*   [format |-> "docx", intact, events]   the XML events                  *)
(*   [format |-> "pdf", usable, encrypted, count, pages]                   *)
(* where intact says that archive and XML parse within the limits, usable  *)
(* that the Poppler tools answer within theirs,                            *)
(* count is what pdfinfo reports and a page of pdftotext has its content,  *)
(* whether it paints images, what it draws (each a "glyph" with ink, a     *)
(* "space" without, or "other") and the characters hidden from pdftotext.  *)
(***************************************************************************)
EXTENDS Integers, Sequences, FiniteSets, SequencesExt, FiniteSetsExt

CONSTANTS
  MaxText,        \* MAX_TEXT_CHARS
  SparsePage      \* characters below which a PDF page is inspected

ByteOrderMark == -3
Return        == -2
Semicolon     == -1
LineBreak     == 0
Stop          == 1    \* the marks that end a sentence
Space         == 2

None == [none |-> TRUE]

White == {Return, LineBreak, Space}

Least(a, b) == IF a <= b THEN a ELSE b

Sub(text, start, end) == SubSeq(text, start + 1, end)
Blank(text) == \A k \in DOMAIN text : text[k] \in White

Ascending(positions) ==
  LET below[n \in 0 .. Max(positions \cup {0}) + 1] ==
        IF n = 0 THEN <<>>
        ELSE IF n - 1 \in positions THEN Append(below[n - 1], n - 1) ELSE below[n - 1]
  IN below[Max(positions \cup {0}) + 1]

(* The pieces of a text between the characters c, without them.            *)
Pieces(text, c) ==
  LET cuts == Ascending({0, Len(text) + 1} \cup {k \in DOMAIN text : text[k] = c})
  IN [n \in 1 .. Len(cuts) - 1 |-> SubSeq(text, cuts[n] + 1, cuts[n + 1] - 1)]

(* str::lines: no empty line after the last line break.                    *)
Lines(text) ==
  LET pieces == Pieces(text, LineBreak)
  IN IF Last(pieces) = <<>> THEN Front(pieces) ELSE pieces

SourceLine(content, page, line, breakAfter) ==
  [content |-> content, page |-> page, line |-> line, breakAfter |-> breakAfter]

(* Variant for NothingLeftUnread: the last line that is not blank is lost. *)
DropTrailing(pieces) ==
  LET kept == {k \in DOMAIN pieces : ~Blank(pieces[k])}
  IN SubSeq(pieces, 1, Max({0} \cup kept) - 1)

(* Lines after the last one that is not blank are left out; of blank lines *)
(* only, the first stays.                                                  *)
WithoutTrailingBlank(pieces) ==
  LET kept == {k \in DOMAIN pieces : ~Blank(pieces[k])}
  IN SubSeq(pieces, 1, Least(Len(pieces), Max({1} \cup kept)))
-----------------------------------------------------------------------------
(* The text and its map.  Page and line 0 stand for None.                  *)

AddLine(lines, doc, i) ==
  LET line  == lines[i]
      start == Len(doc.text)
      ends  == i < Len(lines) /\ line.breakAfter
      segment == [start |-> start, end |-> start + Len(line.content), page |-> line.page,
                  line |-> line.line, paragraph |-> doc.paragraph]
  IN [text |-> doc.text \o line.content
                 \o (IF i = Len(lines) THEN <<>> ELSE IF ends THEN <<LineBreak, LineBreak>>
                     ELSE <<LineBreak>>),
      segments |-> IF line.content = <<>> THEN doc.segments
                                          ELSE Append(doc.segments, segment),
      paragraph |-> doc.paragraph + (IF ends THEN 1 ELSE 0)
                                  + (IF Blank(line.content) THEN 1 ELSE 0)]

(* build_document *)
BuildDocument(lines) ==
  LET upTo[n \in 0 .. Len(lines)] ==
        IF n = 0 THEN [text |-> <<>>, segments |-> <<>>, paragraph |-> 0]
                 ELSE AddLine(lines, upTo[n - 1], n)
  IN upTo[Len(lines)]

(* ExtractedDocument::location: None if the range meets no segment.        *)
Location(doc, start, end) ==
  LET meeting == {i \in DOMAIN doc.segments :
                    doc.segments[i].start < end /\ doc.segments[i].end > start}
      from    == doc.segments[Min(meeting)]
      to      == doc.segments[Max(meeting)]
      begins  == Min({s.start : s \in {s \in ToSet(doc.segments) :
                                         s.paragraph = from.paragraph}})
  IN IF start >= end \/ end > Len(doc.text) \/ meeting = {} THEN None
     ELSE [page |-> from.page, pageEnd |-> IF to.page # from.page THEN to.page ELSE 0,
           lineStart |-> from.line, lineEnd |-> to.line, paragraph |-> from.paragraph,
           sentence |-> Cardinality({k \in begins .. start - 1 : doc.text[k + 1] = Stop})]
-----------------------------------------------------------------------------
(* TXT                                                                     *)

(* UTF-8 loses its byte order marks, anything else must be GB18030.        *)
Decoded(file) ==
  IF file.encoding = "utf8"
  THEN Sub(file.content, Min({Len(file.content)} \cup
             {k \in 0 .. Len(file.content) - 1 : file.content[k + 1] # ByteOrderMark}),
           Len(file.content))
  ELSE file.content

(* Return and line break, or either alone, are one line break.             *)
Normalized(text) ==
  LET kept == Ascending({k \in DOMAIN text :
        ~(text[k] = LineBreak /\ k > 1 /\ text[k - 1] = Return)})
  IN [n \in DOMAIN kept |->
        IF text[kept[n]] = Return THEN LineBreak ELSE text[kept[n]]]

ReadTxt(file) ==
  LET pieces == WithoutTrailingBlank(Lines(Normalized(Decoded(file))))
  IN IF file.encoding \notin {"utf8", "gb18030"} THEN None
     ELSE BuildDocument([k \in DOMAIN pieces |-> SourceLine(pieces[k], 0, k, FALSE)])
-----------------------------------------------------------------------------
(* DOCX: the XML events [kind, tag, content] are read in order.  Kinds are *)
(* "open", "close", "empty" and "chars", entities as decoded characters.   *)

ReadEvent(acc, event) ==
  LET Is(kind, tag) == event.kind = kind /\ event.tag = tag
      counted == acc.inParagraph /\ acc.deleted = 0
      Adding(content) == [acc EXCEPT !.paragraph = @ \o content]
  IN CASE Is("open", "del")  -> [acc EXCEPT !.deleted = @ + 1]
       [] Is("close", "del") -> [acc EXCEPT !.deleted = Max({0, @ - 1})]
       [] Is("open", "p")    -> [acc EXCEPT !.inParagraph = TRUE, !.paragraph = <<>>]
       [] Is("close", "p") /\ acc.inParagraph ->
            [acc EXCEPT !.paragraphs = Append(@, acc.paragraph),
                        !.paragraph = <<>>, !.inParagraph = FALSE]
       [] Is("open", "t")    -> [acc EXCEPT !.inText = TRUE]
       [] Is("close", "t")   -> [acc EXCEPT !.inText = FALSE]
       [] Is("empty", "tab") /\ counted -> Adding(<<Space>>)
       [] Is("empty", "br") /\ counted  -> Adding(<<LineBreak>>)
       [] event.kind = "chars" /\ counted /\ acc.inText -> Adding(event.content)
       [] OTHER -> acc

ReadEvents(events) ==
  LET upTo[n \in 0 .. Len(events)] ==
        IF n = 0 THEN [paragraphs |-> <<>>, paragraph |-> <<>>, inParagraph |-> FALSE,
                       inText |-> FALSE, deleted |-> 0]
                 ELSE ReadEvent(upTo[n - 1], events[n])
  IN upTo[Len(events)]

ReadDocx(file) ==
  LET pieces == WithoutTrailingBlank(ReadEvents(file.events).paragraphs)
  IN IF ~file.intact THEN None
     ELSE BuildDocument([k \in DOMAIN pieces |->
                           SourceLine(pieces[k], 0, 0, k < Len(pieces))])
-----------------------------------------------------------------------------
(* PDF                                                                     *)

Readable(page) == Cardinality({k \in DOMAIN page.content : page.content[k] \notin White})

(* inspect_metadata: pdfinfo names one page count and no encryption.       *)
MetadataConfirmed(file) == file.usable /\ ~file.encrypted /\ file.count > 0

(* confirms_sparse_text: as many inked glyphs as characters, and no more.  *)
DrawsOnly(drawing, characters) ==
  /\ "other" \notin ToSet(drawing)
  /\ Cardinality({k \in DOMAIN drawing : drawing[k] = "glyph"}) = characters

(* inspect_sparse_page: a page with little text must paint nothing else.   *)
SparseConfirmed(page) == ~page.images /\ DrawsOnly(page.drawing, Readable(page))

TrimEnd(line) ==
  SubSeq(line, 1, Max({0} \cup {k \in DOMAIN line : line[k] \notin White}))

PageLines(page, number) ==
  LET lines == Lines(page.content)
  IN [k \in DOMAIN lines |-> SourceLine(TrimEnd(lines[k]), number, k, Blank(lines[k]))]

ReadPdf(file) ==
  LET lines == FlattenSeq([n \in DOMAIN file.pages |-> PageLines(file.pages[n], n)])
      last  == Max({0} \cup {k \in DOMAIN lines : ~Blank(lines[k].content)})
  IN IF /\ MetadataConfirmed(file)
        /\ file.count = Len(file.pages)
        /\ \E n \in DOMAIN file.pages : ~Blank(file.pages[n].content)
        /\ \A n \in DOMAIN file.pages :
              Readable(file.pages[n]) < SparsePage => SparseConfirmed(file.pages[n])
     THEN BuildDocument(SubSeq(lines, 1, last)) ELSE None
-----------------------------------------------------------------------------
(* extract: too long or blank texts are refused.                           *)
Extract(file) ==
  LET doc == CASE file.format = "txt"  -> ReadTxt(file)
               [] file.format = "docx" -> ReadDocx(file)
               [] file.format = "pdf"  -> ReadPdf(file)
  IN IF doc = None THEN None
     ELSE IF Len(doc.text) > MaxText \/ Blank(doc.text) THEN None ELSE doc
-----------------------------------------------------------------------------
(* What a file holds, for the properties                                   *)

(* Of these characters a reader sees nothing.                              *)
Unseen == White \cup {ByteOrderMark}

Readables(content) ==
  LET kept == Ascending({k \in DOMAIN content : content[k] \notin Unseen})
  IN [n \in DOMAIN kept |-> content[kept[n]]]

(* How many elements with this tag are open after the first i events.      *)
Depth(events, tag, i) ==
  Cardinality({k \in 1 .. i : events[k].kind = "open" /\ events[k].tag = tag})
    - Cardinality({k \in 1 .. i : events[k].kind = "close" /\ events[k].tag = tag})

Within(events, tag, i) == Depth(events, tag, i) > 0

(* XML closes what it opened, and nothing else.  parse_document_xml does   *)
(* not ask at the end: it would drop a paragraph that is never closed.     *)
WellFormed(events) ==
  \A tag \in {"p", "t", "del"} :
    /\ \A i \in DOMAIN events : Depth(events, tag, i) >= 0
    /\ Depth(events, tag, Len(events)) = 0

(* No paragraph lies in another, as one in a text box does: it takes the   *)
(* place of the paragraph around it.  Nor does a run of text.              *)
Flat(events) == \A i \in DOMAIN events, tag \in {"p", "t"} : Depth(events, tag, i) <= 1

(* What a reader sees of the file.  Of a DOCX: the runs of text inside a   *)
(* paragraph that are not marked as deleted.                               *)
Visible(file) ==
  CASE file.format = "txt" -> file.content
    [] file.format = "docx" ->
         LET Shown(i) == /\ file.events[i].kind = "chars"
                         /\ Within(file.events, "p", i) /\ Within(file.events, "t", i)
                         /\ ~Within(file.events, "del", i)
         IN FlattenSeq([i \in DOMAIN file.events |->
              IF Shown(i) THEN file.events[i].content ELSE <<>>])
    [] file.format = "pdf" ->
         FlattenSeq([n \in DOMAIN file.pages |-> file.pages[n].content \o file.pages[n].hidden])

(* What pdftotext hides of a page is painted: by an image, by what is not  *)
(* a glyph, or by a glyph for each character, reported or hidden.          *)
Painted(page) ==
  \/ page.hidden = <<>> \/ page.images \/ "other" \in ToSet(page.drawing)
  \/ Cardinality({k \in DOMAIN page.drawing : page.drawing[k] = "glyph"})
       >= Readable(page) + Cardinality({k \in DOMAIN page.hidden : page.hidden[k] \notin White})

(* The lines of a TXT or PDF file as [page, line, content].                *)
FileLines(file) ==
  IF file.format = "pdf"
  THEN FlattenSeq([n \in DOMAIN file.pages |->
         LET lines == Lines(file.pages[n].content)
         IN [k \in DOMAIN lines |-> [page |-> n, line |-> k, content |-> Readables(lines[k])]]])
  ELSE LET lines == Lines(Normalized(Decoded(file)))
       IN [k \in DOMAIN lines |-> [page |-> 0, line |-> k, content |-> Readables(lines[k])]]

(* A paragraph of a DOCX may have blank lines of its own.                  *)
BlankLineInside(file) ==
  /\ file.format = "docx"
  /\ \E p \in ToSet(ReadEvents(file.events).paragraphs) : \E j, k \in DOMAIN p :
       j < k /\ p[j] = LineBreak /\ p[k] = LineBreak /\ Blank(Sub(p, j, k))
=============================================================================

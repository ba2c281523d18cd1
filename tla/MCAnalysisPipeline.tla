------------------------- MODULE MCAnalysisPipeline -------------------------
(***************************************************************************)
(* Instances of AnalysisPipeline for TLC.  Sizes are scaled: chunks of 6   *)
(* to 8 characters that share 4, in place of 3000 to 4000 that share 500.  *)
(***************************************************************************)
EXTENDS AnalysisPipeline

(* A paragraph of n characters with sentence marks at the given places.    *)
Paragraph(n, marks, letter(_)) ==
  [k \in 1 .. n |-> IF k \in marks THEN Stop ELSE letter(k)]

Join(paragraphs) ==
  FoldLeft(LAMBDA all, p : IF all = <<>> THEN p ELSE all \o <<LineBreak, LineBreak>> \o p,
           <<>>, paragraphs)

Shapes == {<<1, {}>>, <<4, {4}>>, <<7, {}>>, <<9, {}>>, <<12, {6}>>, <<17, {7, 8, 16}>>}

(* Every letter occurs once in a paragraph.                                *)
Distinct(shape) == Paragraph(shape[1], shape[2], LAMBDA k : k + 2)

Txt(encoding, content) == [format |-> "txt", encoding |-> encoding, content |-> content]

Of(file) == [file |-> file, profile |-> "general", mistakes |-> {}, slack |-> 0,
             contexts |-> {FALSE}, opinions |-> {}]

Plain(content) == Of(Txt("utf8", content))

OddTexts ==
  {<<>>, <<LineBreak, LineBreak, LineBreak>>, <<LineBreak, 3, LineBreak, LineBreak>>,
   [k \in 1 .. 20 |-> IF k \in 3 .. 16 THEN Space ELSE k + 2],
   [k \in 1 .. 12 |-> Space],
   <<3, LineBreak, 4, LineBreak, LineBreak, LineBreak, 5, 6, LineBreak>>}

(* Texts of up to three paragraphs: only how they are cut.                 *)
Cutting ==
  {Plain(t) : t \in OddTexts}
  \cup {Plain(Join([i \in 1 .. n |-> Distinct(f[i])])) :
          <<n, f>> \in UNION {{n} \X [1 .. n -> Shapes] : n \in 1 .. 3}}

Sure    == [candidate |-> 90, verdict |-> [verdict |-> "confirmed", confidence |-> 90, class |-> None]]
Unsure  == [candidate |-> 90, verdict |-> [verdict |-> "suspected", confidence |-> 60, class |-> None]]
Refused == [candidate |-> 90, verdict |-> [verdict |-> "rejected", confidence |-> 90, class |-> None]]
Weak    == [candidate |-> 60, verdict |-> [verdict |-> "confirmed", confidence |-> 90, class |-> None]]
Typo    == [category |-> "typo", subtype |-> None]
Grammar == [category |-> "grammar", subtype |-> "word_order"]
Moved   == [candidate |-> 90, verdict |-> [verdict |-> "confirmed", confidence |-> 95, class |-> Grammar]]

Mistake(start, n, class, literal) ==
  [start |-> start, end |-> start + n, class |-> class, advice |-> 99, literal |-> literal]

(* One mistake anywhere in a text whose chunks overlap, quoted with up to  *)
(* one character more on either side.                                      *)
LongText == Distinct(<<12, {6}>>)
TwoTexts == Join(<<Distinct(<<4, {4}>>), Distinct(<<5, {}>>)>>)

Quoting ==
  {[Plain(t) EXCEPT !.mistakes = {Mistake(s, n, Typo, FALSE)}, !.slack = 1,
                    !.opinions = {Sure, Refused}] :
     t \in {LongText, TwoTexts}, s \in 0 .. 10, n \in 1 .. 2}
  \cup
  {[Plain(LongText) EXCEPT !.mistakes = {Mistake(s, 1, Typo, TRUE)}, !.slack = 3,
                           !.opinions = {Sure, Weak}] : s \in {4, 5, 6}}

(* The same words occur again and again.                                   *)
Repeating ==
  {[Plain(Paragraph(12, {}, LAMBDA k : 3 + (k % 3))) EXCEPT
      !.mistakes = {Mistake(s, 1, Typo, FALSE)}, !.slack = 1,
      !.contexts = BOOLEAN, !.opinions = {Sure}] : s \in 0 .. 11}

(* Three mistakes near the border of two chunks, overlapping or not.       *)
Ranges == {<<1, 3>>, <<3, 3>>, <<4, 2>>, <<5, 3>>, <<7, 2>>}

Merging ==
  {[Plain(LongText) EXCEPT
      !.mistakes = {Mistake(r[1], r[2], Typo, FALSE) : r \in three},
      !.opinions = {Sure, Unsure, Moved}] : three \in kSubset(3, Ranges)}

(* Marks of protected spans anywhere in a text of 12 characters, which is  *)
(* cut at its sentence mark unless they take its place.                    *)
Marked(marks, at) ==
  [k \in 1 .. 12 |-> IF k - at \in DOMAIN marks THEN marks[k - at] ELSE LongText[k]]

Spans ==
  {<<"general", marks>> : marks \in
     {<<Dollar, 40, Dollar, 41, Dollar, 42, Dollar>>, <<Opening, Closing>>, <<Scheme, 40>>, <<Scheme, 40, Space>>,
      <<Backtick, 40, Backtick, Backtick, 41, Backtick>>, <<Dollar, 40, Opening, Dollar, Closing>>}}
  \cup {<<"academic", <<LeftBracket, Digit, RightBracket>>>>, <<"financial", <<Digit, Unit>>>>}

Protecting ==
  {[Plain(Marked(span[2], at)) EXCEPT
      !.profile = span[1], !.mistakes = {Mistake(s, as[1], as[2], FALSE)},
      !.opinions = {Sure, Moved}] :
     span \in Spans, at \in 0 .. 8, s \in 2 .. 9,
     as \in {<<1, Typo>>, <<2, Typo>>, <<2, Grammar>>}}

(* Files of the three formats, with two mistakes, or with one edit that    *)
(* may cover nothing but a line break.                                     *)
BrokenLines == <<3, 4, 5, Stop, LineBreak, 6, 7, LineBreak, LineBreak, 8, Semicolon, 9, 10, Stop>>
LongLines   == [k \in 1 .. MaxText + 1 |-> IF k = 9 THEN Stop ELSE k + 2]
AllReturns  == <<ByteOrderMark, 3, 4, Return, LineBreak, 5, Stop, 6, Return, Return, 7, Stop, 8,
                 LineBreak, Space, LineBreak, LineBreak>>

TxtFiles ==
  {Txt(e, c) : e \in {"utf8", "gb18030", "other"}, c \in {BrokenLines, LongLines}}
  \cup {Txt("utf8", AllReturns), Txt("utf8", <<3, 4, LineBreak, Space, LineBreak, 5, Stop, 6, 7>>)}

Tag(kind, tag) == [kind |-> kind, tag |-> tag, content |-> <<>>]
Chars(content) == [kind |-> "chars", tag |-> "", content |-> content]
Run(inside)    == <<Tag("open", "t")>> \o inside \o <<Tag("close", "t")>>
InTag(tag, inside) == <<Tag("open", tag)>> \o inside \o <<Tag("close", tag)>>
Docx(formed, paragraphs) ==
  [format |-> "docx", intact |-> formed,
   events |-> FlattenSeq([n \in DOMAIN paragraphs |-> InTag("p", paragraphs[n]) \o <<Chars(<<Space>>)>>])]

DocxFiles ==
  LET plain   == Run(<<Chars(<<3, 4>>), Chars(<<5, Stop>>), Chars(<<6>>)>>)
      deleted == Run(<<Chars(<<7, Stop>>)>>) \o InTag("del", Run(<<Chars(<<8, 9>>)>>))
                   \o <<Tag("empty", "br"), Chars(<<Space>>)>> \o Run(<<Chars(<<10, 11>>)>>)
      empty   == <<Tag("empty", "tab")>>
      broken  == Run(<<Chars(<<3, 4>>)>>) \o [n \in 1 .. 2 |-> Tag("empty", "br")]
                   \o Run(<<Chars(<<5, 6, 7>>)>>)
      boxed   == Run(<<Chars(<<8, 9>>)>>) \o InTag("p", plain) \o Run(<<Chars(<<10>>)>>)
  IN {Docx(TRUE, <<plain>>), Docx(TRUE, <<plain, deleted, empty>>), Docx(TRUE, <<deleted, empty, plain>>),
      Docx(TRUE, <<empty, plain, <<>>, <<>>, deleted>>), Docx(TRUE, <<broken>>),
      Docx(TRUE, <<boxed, deleted>>), Docx(FALSE, <<plain>>), Docx(TRUE, <<empty>>)}

Page(content, hidden) ==
  [content |-> content, hidden |-> hidden, images |-> hidden # <<>>,
   drawing |-> [k \in DOMAIN content |-> IF content[k] \in White THEN "space" ELSE "glyph"]]
Outlined(content) ==
  [Page(content, <<50>>) EXCEPT !.images = FALSE, !.drawing = Append(@, "other")]
Drawn(content) ==
  [Page(content, <<50>>) EXCEPT !.images = FALSE, !.drawing = Append(@, "glyph")]

Pdf(pages) == [format |-> "pdf", usable |-> TRUE, encrypted |-> FALSE, count |-> Len(pages),
               pages |-> pages]

PdfFiles ==
  LET one   == Page(<<3, 4, Space, LineBreak, Space, 5, Stop, 6, LineBreak>>, <<>>)
      two   == Page(<<LineBreak, 7, 8, LineBreak, Space, LineBreak, 9, Stop, 10, LineBreak, 11>>, <<>>)
      small == {Page(<<>>, <<>>), Page(<<12, LineBreak, Space>>, <<>>), Page(<<12>>, <<50>>), Outlined(<<12>>),
                Drawn(<<12>>)}
  IN {Pdf(<<one, two>>), Pdf(<<two, one>>), Pdf(<<Page(<<Space>>, <<>>)>>),
      [Pdf(<<one>>) EXCEPT !.count = 2], [Pdf(<<one>>) EXCEPT !.encrypted = TRUE],
      [Pdf(<<one>>) EXCEPT !.usable = FALSE]}
     \cup {Pdf(<<one, p, two>>) : p \in small} \cup {Pdf(<<p, one, p>>) : p \in small}

Reading ==
  {[Of(f) EXCEPT !.mistakes = {Mistake(s, 3, Typo, FALSE), Mistake(s + n, 1, Typo, FALSE)},
                 !.opinions = {Sure}] :
     f \in TxtFiles \cup DocxFiles \cup PdfFiles, s \in 0 .. 13, n \in {3, 5}}
  \cup
  {[Of(Txt("utf8", BrokenLines)) EXCEPT !.mistakes = {Mistake(s, n, Typo, TRUE)}, !.slack = 3,
                 !.opinions = {Sure}] : s \in 2 .. 8, n \in 1 .. 2}

AllScenarios == Cutting \cup Quoting \cup Repeating \cup Merging \cup Protecting \cup Reading
=============================================================================

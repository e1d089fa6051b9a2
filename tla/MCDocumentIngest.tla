-------------------------- MODULE MCDocumentIngest --------------------------
(***************************************************************************)
(* Documents for DocumentIngest: archives with every defect, sections with *)
(* tables in paragraphs and in cells, PDF files of up to two pages and one *)
(* too many, and paragraphs of every wording up to a length.               *)
(***************************************************************************)
EXTENDS DocumentIngest, SequencesExt

(* Elements, as trees, and the sequence of a tree whose root is the n-th.  *)

El(tag, text, pair, kids) ==
  [tag |-> tag, text |-> text, pair |-> pair, kids |-> kids]

RECURSIVE Size(_), Flat(_, _, _)
Size(e) == 1 + FoldLeft(LAMBDA sum, kid : sum + Size(kid), 0, e.kids)

Flat(e, n, above) ==
  LET before(i) == FoldLeft(LAMBDA sum, kid : sum + Size(kid), 0, SubSeq(e.kids, 1, i - 1))
  IN <<[tag |-> e.tag, text |-> e.text, pair |-> e.pair, above |-> above]>> \o
     FlattenSeq([i \in DOMAIN e.kids |->
       Flat(e.kids[i], n + 1 + before(i), above \cup {n})])

Para(text, kids) ==
  El("p", <<>>, <<>>, <<El("run", <<>>, <<>>, <<El("t", text, <<>>, <<>>)>> \o kids)>>)

Cell(pair, content, first) ==
  LET address == El("cellAddr", <<>>, pair, <<>>)
  IN El("tc", <<>>, <<>>,
        IF first THEN <<address>> \o content ELSE content \o <<address>>)

(* A row with the cells, behind a caption, which no block holds.           *)
Table(cells) ==
  El("tbl", <<>>, <<>>, <<Para(<<"caption">>, <<>>), El("tr", <<>>, <<>>, cells)>>)

InnerTable == Table(<<Cell(<<0, 0>>, <<Para(<<"inner">>, <<>>)>>, TRUE)>>)

Pairs == {<<0, 0>>, <<0, 1>>, <<0, -1>>, <<>>}

OneCell(word) ==
  {Cell(pair, <<Para(<<word>>, nested)>>, first) :
     pair \in Pairs, nested \in {<<>>, <<InnerTable>>}, first \in BOOLEAN}

ATable ==
  {Table(<<c>>) : c \in OneCell("left")} \cup
  {Table(<<c, d>>) : c \in OneCell("left"), d \in OneCell("right")}

Simple == Para(<<"first">>, <<>>)

(* A text box, a table in a row, a cell in a cell.                         *)
Unusual ==
  {Para(<<"around">>, <<El("rect", <<>>, <<>>, <<Para(<<"boxed">>, <<InnerTable>>)>>)>>),
   Table(<<InnerTable, Cell(<<0, 0>>, <<Simple>>, TRUE)>>),
   Table(<<Cell(<<0, 0>>, <<Cell(<<0, 1>>, <<Simple>>, TRUE)>>, TRUE)>>)}

Units1 ==
  {Simple, Para(<<>>, <<>>)} \cup Unusual \cup ATable \cup
  {Para(<<"around">>, <<t>>) : t \in ATable}

LastTable == Table(<<Cell(<<0, 1>>, <<Simple>>, TRUE)>>)

Root(units) == Flat(El("sec", <<>>, <<>>, units), 1, {})

(* Archives.                                                               *)

Member(name, section, xml) ==
  [forms |-> <<name>>, localName |-> TRUE, regular |-> TRUE, size |-> 1,
   ratio |-> TRUE, marker |-> FALSE, section |-> section, data |-> "sound",
   syntax |-> "sound", xml |-> xml]

Marker == [Member("mimetype", -1, Root(<<>>)) EXCEPT !.marker = TRUE]

Archive(members) == [directory |-> TRUE, members |-> members]

File(format, document, provider) ==
  [format |-> format, large |-> FALSE, document |-> document, provider |-> provider]

Hwpx(archive) == File("hwpx", archive, FALSE)

(* Two sections, the second before the first in the archive.               *)
Structured ==
  {Hwpx(Archive(<<Marker, Member("b", 1, Root(<<Simple, LastTable>>)),
                  Member("a", 0, Root(<<u, Simple, LastTable>>))>>)) : u \in Units1}

Section0 == Member("a", 0, Root(<<Simple>>))

Members ==
  {Section0, Marker, Member("b", 0, Root(<<Simple>>)),
   Member("b", 1, Root(<<LastTable>>)), Member("b", -1, Root(<<>>)),
   [Member("b", 1, <<>>) EXCEPT !.syntax = "malformed"],
   [Member("b", 1, <<>>) EXCEPT !.syntax = "raises"]} \cup
  {[Section0 EXCEPT !.forms = f] :
     f \in {<<"%a", "a">>, <<"%%a", "undecodable">>, <<"%%%a", "unsafe">>,
            <<"%%%a", "%%a", "%a", "unsafe">>}} \cup
  {[Section0 EXCEPT !.localName = FALSE],
   [Section0 EXCEPT !.regular = FALSE], [Section0 EXCEPT !.ratio = FALSE],
   [Section0 EXCEPT !.size = 2], [Section0 EXCEPT !.size = 3],
   [Section0 EXCEPT !.data = "checksum"], [Section0 EXCEPT !.data = "broken"],
   [Section0 EXCEPT !.syntax = "malformed"], [Section0 EXCEPT !.syntax = "raises"],
   [Marker EXCEPT !.data = "broken"]}

(* Those that go together in three, one more than MaxEntries allows.       *)
Sound == {m \in Members : SafePath(m) /\ m.localName /\ m.regular /\ m.ratio}

Archives ==
  {Hwpx([directory |-> d, members |-> <<Marker>> \o s]) :
     d \in BOOLEAN, s \in UNION {[1..n -> Members] : n \in 0..2}}
  \cup {Hwpx(Archive(<<Marker>> \o s)) : s \in [1..3 -> Sound]}
  \cup {Hwpx(Archive(<<m>>)) : m \in Members}

(* PDF files.                                                              *)

Line(text) == [text |-> text]

Native == {<<>>, <<Line(<<"short">>)>>, <<Line(<<"long", "long">>)>>}

Found(text, native) == [text |-> text, native |-> native]

Answers ==
  {[kind |-> k, blocks |-> <<>>] : k \in {"timeout", "failure", "raises"}} \cup
  {[kind |-> "blocks", blocks |-> <<>>]} \cup
  {[kind |-> "blocks", blocks |-> <<[text |-> <<"ocr">>, valid |-> v]>>] :
     v \in BOOLEAN}

Page(native, cells, small, ocr) ==
  [native |-> native, cells |-> cells, small |-> small, loads |-> TRUE, ocr |-> ocr]

FirstPages ==
  {Page(n, c, s, o) :
     n \in Native, s \in BOOLEAN, o \in Answers,
     c \in {<<>>, <<Found(<<>>, FALSE), Found(<<"cell">>, FALSE)>>,
            <<Found(<<"short">>, TRUE)>>}}

LaterPages ==
  UNION {{p, [p EXCEPT !.loads = FALSE]} :
           p \in {Page(n, <<>>, TRUE, o) : n \in Native, o \in Answers}}

ThreePages == {<<p, p, p>> : p \in LaterPages}

Pdf(pages) ==
  [signature |-> TRUE, opens |-> "answers", encrypted |-> FALSE,
   tables |-> "answers", pages |-> pages]

PdfFiles ==
  {Pdf(pages) : pages \in [1..1 -> FirstPages] \cup ThreePages \cup
                  {<<p, q>> : p \in FirstPages, q \in LaterPages}} \cup
  {[Pdf(<<p>>) EXCEPT !.signature = s, !.opens = o, !.encrypted = e, !.tables = t] :
     p \in LaterPages, s, e \in BOOLEAN, o, t \in DOMAIN LibraryCode}

Pdfs ==
  {File("pdf", f, v) : f \in PdfFiles, v \in BOOLEAN}

(* Wordings: a condition, up to three words behind it, another condition.  *)

Conditions ==
  {<<"age", "bound">>, <<"rep">>, <<"region", "located">>, <<"industry">>,
   <<"generic">>}

Vocabulary ==
  {"particle", "comma", "stop", "tilde", "support", "reject", "exclude",
   "bound", "word"}

Joining ==
  UNION {[1..n -> Vocabulary] : n \in 0..2} \cup
  [1..3 -> {"particle", "comma", "support", "reject", "exclude"}]

Wordings ==
  {c \o w \o d : c \in Conditions, d \in Conditions \cup {<<>>}, w \in Joining}

Worded ==
  {Hwpx(Archive(<<Marker, Member("a", 0, Root(<<Para(text, <<>>)>>))>>)) :
     text \in Wordings}

Other == File("other", Archive(<<>>), FALSE)

Unfit ==
  {Other} \cup {[f EXCEPT !.large = TRUE] : f \in {Other, Hwpx(Archive(<<Marker>>))}}

MCInputs == Unfit \cup Structured \cup Archives \cup Pdfs \cup Worded
===============================================================================

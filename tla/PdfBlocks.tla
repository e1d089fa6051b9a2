------------------------------ MODULE PdfBlocks -------------------------------
(***************************************************************************)
(* PdfParser: the text blocks of each page, OCR of the pages with too      *)
(* little text, and the cells of the tables.                               *)
(*                                                                         *)
(* A page holds its native blocks, the cells pdfplumber finds (their text, *)
(* and whether a text block says the same there), whether its picture is   *)
(* small enough, and what the OCR provider answers for it.  The length     *)
(* of a text counts its characters.  Blocks have an address each; in which *)
(* order they are numbered is left out.                                    *)
(*                                                                         *)
(* The libraries answer, refuse the file by an exception that the parser   *)
(* translates (RuntimeError of fitz.open; PDFSyntaxError and ValueError of *)
(* the tables), or raise another one, which leaves the parser: "escaped".  *)
(***************************************************************************)
EXTENDS Naturals, Sequences

CONSTANTS
  MaxPages,     \* MAX_PAGES
  MinTextChars  \* min_text_chars_per_page

(* With a limit of 0, which no caller asks for, a blank page is no scan.   *)
ASSUME PdfAssumption == MaxPages \in Nat /\ MinTextChars \in Nat \ {0}

Texts == Seq(STRING)

PdfPage ==
  [native : Seq([text : Texts]),
   cells  : Seq([text : Texts, native : BOOLEAN]),
   small  : BOOLEAN,
   loads  : BOOLEAN,
   ocr    : [kind : {"blocks", "timeout", "failure", "raises"},
             blocks : Seq([text : Texts, valid : BOOLEAN])]]

Chars(blocks) ==
  LET upTo[i \in 0..Len(blocks)] ==
        IF i = 0 THEN 0 ELSE upTo[i - 1] + Len(blocks[i].text)
  IN upTo[Len(blocks)]

IsDeficient(page) == Chars(page.native) < MinTextChars

(* Seeded fault: an answer without blocks is taken for an empty page.      *)
FaultEmptyAnswer(answer) ==
  answer.kind = "blocks" /\ \A i \in DOMAIN answer.blocks : answer.blocks[i].valid

(* validate_ocr_output: at least one block, and every block has text, a    *)
(* confidence from 0 to 1 and a box inside the picture.                    *)
IsEvidence(answer) ==
  /\ answer.kind = "blocks"
  /\ answer.blocks # <<>>
  /\ \A i \in DOMAIN answer.blocks : answer.blocks[i].valid

(* _ocr_page: the warning of a page, or "none" if OCR replaces its text.   *)
OcrWarning(page, provider) ==
  IF ~provider THEN "ocr_required"
  ELSE IF ~page.small THEN "ocr_failed:pixel_limit"
  ELSE IF page.ocr.kind = "timeout" THEN "ocr_failed:timeout"
  ELSE IF ~IsEvidence(page.ocr) THEN "ocr_failed:output"
  ELSE "none"

PageWarning(page, provider) ==
  IF IsDeficient(page) THEN OcrWarning(page, provider) ELSE "none"

(* A deficient page with usable OCR has the OCR blocks only, any other     *)
(* page keeps its native ones.  OCR adds no block without text.            *)
Kind(page, provider) ==
  IF IsDeficient(page) /\ PageWarning(page, provider) = "none" THEN "ocr" ELSE "text"

(* What is on a page by kind; of cells, with text of their own alone count *)
(* in extract_table_blocks.                                                *)
OnPage(page) ==
  [ocr |-> page.ocr.blocks, text |-> page.native, cell |-> page.cells]

OwnCells(page) ==
  {i \in DOMAIN page.cells : page.cells[i].text # <<>> /\ ~page.cells[i].native}

(* The addresses of the blocks of the n-th page.                           *)
PageBlocks(page, n, provider) ==
  ({n} \X {Kind(page, provider)} \X DOMAIN OnPage(page)[Kind(page, provider)])
  \cup ({n} \X {"cell"} \X OwnCells(page))

(* The warning of the first page that has one; only that one is kept.      *)
FirstWarning(pages, provider) ==
  LET warned == {n \in DOMAIN pages : PageWarning(pages[n], provider) # "none"}
  IN IF warned = {} THEN "none"
     ELSE PageWarning(pages[CHOOSE n \in warned : \A m \in warned : n <= m], provider)

(* No exception of loading a page, taking its text, rendering it or asking *)
(* the OCR provider is translated but the time-out.                        *)
PageRaises(page, provider) ==
  \/ ~page.loads
  \/ IsDeficient(page) /\ provider /\ page.small /\ page.ocr.kind = "raises"

LibraryCode ==
  [answers |-> "ok", refuses |-> "invalid_pdf", raises |-> "escaped"]

(* All pages are read before the tables are.                               *)
PdfCode(pdf, provider) ==
  IF ~pdf.signature THEN "invalid_pdf"
  ELSE IF pdf.opens # "answers" THEN LibraryCode[pdf.opens]
  ELSE IF pdf.encrypted THEN "encrypted_pdf"
  ELSE IF Len(pdf.pages) > MaxPages THEN "pdf_page_limit"
  ELSE IF \E n \in DOMAIN pdf.pages : PageRaises(pdf.pages[n], provider)
       THEN "escaped"
  ELSE LibraryCode[pdf.tables]

Addresses(pdf, provider) ==
  UNION {PageBlocks(pdf.pages[n], n, provider) : n \in DOMAIN pdf.pages}

BlockAt(pdf, id) ==
  [id |-> id, page |-> id[1], text |-> OnPage(pdf.pages[id[1]])[id[2]][id[3]].text]

ParsePdf(pdf, provider) ==
  LET ok == PdfCode(pdf, provider) = "ok" IN
  [code    |-> PdfCode(pdf, provider),
   warning |-> IF ok THEN FirstWarning(pdf.pages, provider) ELSE "none",
   blocks  |-> [id \in IF ok THEN Addresses(pdf, provider) ELSE {} |->
                  BlockAt(pdf, id)]]
===============================================================================

--------------------------- MODULE DocumentIngest ----------------------------
(***************************************************************************)
(* DocumentIngestor on one attachment: the bytes are parsed, rules are     *)
(* extracted from the blocks and checked against them, and all of it is    *)
(* stored with the state of the attachment, or nothing is.                 *)
(*                                                                         *)
(* Attachments says what happens when collectors meet on attachments; here *)
(* there is one, and the documents differ.                                 *)
(*                                                                         *)
(* A file is its format by its name, "hwpx", "pdf" or "other", whether it  *)
(* is larger than max_bytes, its document, and whether the parser was      *)
(* given an OCR provider.  A parser answers a code, its first warning, and *)
(* its blocks, a function.  The database is taken to answer.               *)
(***************************************************************************)
EXTENDS RuleCandidates, PdfBlocks, HwpxBlocks

CONSTANT Inputs  \* the files that are offered

ASSUME InputAssumption == \A f \in Inputs :
  /\ f.format \in {"hwpx", "pdf", "other"} /\ f.large \in BOOLEAN
  /\ f.format = "hwpx" => f.document.members \in Seq(ArchiveMember)
  /\ f.format = "pdf" =>
       /\ f.document.pages \in Seq(PdfPage) /\ f.provider \in BOOLEAN
       /\ {f.document.opens, f.document.tables} \subseteq DOMAIN LibraryCode

Parsed(file) ==
  IF file.format = "hwpx" THEN ParseHwpx(file.document)
  ELSE ParsePdf(file.document, file.provider)

VARIABLES
  input,       \* the file
  attachment,  \* its row: parse_status, parse_error_code, requires_review
  stored,      \* blocks and rules of the document row; no blocks if there is none
  raised       \* what left ingest as an exception, or "none"

ingestVars == <<input, attachment, stored, raised>>

NoDocument == [exists |-> FALSE, blocks |-> <<>>, rules |-> {}]

IngestInit ==
  /\ input \in Inputs
  /\ attachment = [status |-> "pending", error |-> "none", review |-> FALSE]
  /\ stored = NoDocument
  /\ raised = "none"

-----------------------------------------------------------------------------
(* extract: the rules of every block, with the block as their evidence.    *)
Rules(blocks) ==
  UNION {{[block |-> blocks[i].id, rule |-> c] : c \in Chosen(blocks[i].text)} :
           i \in DOMAIN blocks}

(* validate_candidates: the addresses of the blocks are distinct.  What    *)
(* else it checks of the evidence holds of evidence made from a block.     *)
HasDuplicates(blocks) ==
  \E i, j \in DOMAIN blocks : i # j /\ blocks[i].id = blocks[j].id

StatusOf(warning) == IF warning = "none" THEN "parsed" ELSE "requires_review"

(* The warning, or that nothing was found; a rule found asks for           *)
(* review as well, so that every ingested attachment does.                 *)
ParsedRow(parsed) ==
  [status |-> StatusOf(parsed.warning),
   error |-> IF parsed.warning # "none" THEN parsed.warning
             ELSE IF Rules(parsed.blocks) = {} THEN "no_rule_candidates"
             ELSE "none",
   review |-> TRUE]

(* What the failure inventory lists of an attachment: pages to be read by  *)
(* OCR are shown to the operator, any other code is hidden in the mirror.  *)
AttachmentFailures(r) ==
  IF ~r.review \/ r.error = "none" THEN {}
  ELSE IF r.error = "ocr_required" THEN {"scan_pdf_ocr_required"}
  ELSE {"attachment_parse"}

FailedRow(status, code) == [status |-> status, error |-> code, review |-> TRUE]

Ingestible ==
  attachment.status \in {"pending", "failed", "missing"} /\ raised = "none"

(* Too large, or no parser for the name: DocumentIngestError.              *)
RefuseFile ==
  /\ Ingestible
  /\ \/ input.large /\ raised' = "attachment_too_large"
     \/ /\ ~input.large /\ input.format = "other"
        /\ raised' = "invalid_attachment_type"
  /\ UNCHANGED <<input, attachment, stored>>

Accepted == Ingestible /\ ~input.large /\ input.format # "other"

(* A DocumentParseError becomes a failed row without a document.           *)
StoreParseFailure ==
  /\ Accepted
  /\ Parsed(input).code \notin {"ok", "escaped"}
  /\ attachment' = FailedRow("failed", Parsed(input).code)
  /\ stored' = NoDocument
  /\ UNCHANGED <<input, raised>>

StoreDocument ==
  /\ Accepted
  /\ Parsed(input).code = "ok"
  /\ ~HasDuplicates(Parsed(input).blocks)
  /\ attachment' = ParsedRow(Parsed(input))
  /\ stored' = [exists |-> TRUE, blocks |-> Parsed(input).blocks,
                rules |-> Rules(Parsed(input).blocks)]
  /\ UNCHANGED <<input, raised>>

(* Any other exception leaves ingest, and the transaction rolls back.      *)
RaiseOther ==
  /\ Accepted
  /\ \/ /\ Parsed(input).code = "escaped"
        /\ raised' = "untranslated"
     \/ /\ Parsed(input).code = "ok"
        /\ HasDuplicates(Parsed(input).blocks)
        /\ raised' = "duplicate_block_id"
  /\ UNCHANGED <<input, attachment, stored>>

(* mark_missing and mark_failed: the download had no bytes to ingest.      *)
MarkUnavailable ==
  /\ Ingestible
  /\ \E status \in {"missing", "failed"} : attachment' = FailedRow(status, "download")
  /\ stored' = NoDocument
  /\ UNCHANGED <<input, raised>>

IngestNext ==
  RefuseFile \/ StoreParseFailure \/ StoreDocument \/ RaiseOther \/ MarkUnavailable

IngestSpec == IngestInit /\ [][IngestNext]_ingestVars

-----------------------------------------------------------------------------
(* Reference definitions: what an HWPX document holds.                     *)

TablesAbove(xml, n) == {k \in xml[n].above : xml[k].tag = "tbl"}

(* What a text belongs to: in no table the outermost paragraph around it,  *)
(* in one table the outermost cell around it in that table.  In tables     *)
(* within tables it belongs to nothing.                                    *)
Holders(xml, n) ==
  {k \in xml[n].above :
     \/ TablesAbove(xml, n) = {} /\ xml[k].tag = "p"
     \/ \E t \in Tagged(xml, "tbl") :
          TablesAbove(xml, n) = {t} /\ xml[k].tag = "tc" /\ k > t}

Home(xml, n) == CHOOSE k \in Holders(xml, n) : \A j \in Holders(xml, n) : k <= j

(* The texts an HWPX reader shows for a paragraph or a cell.               *)
Readable(xml) == {n \in Tagged(xml, "t") : Holders(xml, n) # {}}

(* The addresses a cell gives itself, whatever tables are in it.           *)
OwnAddresses(xml, cell) == Reached(xml, cell, {"tbl"}) \cap Tagged(xml, "cellAddr")

OwnAddress(xml, cell) ==
  LET own == OwnAddresses(xml, cell)
  IN IF own = {} THEN <<>> ELSE xml[CHOOSE n \in own : \A m \in own : n <= m].pair

(* Tables whose cells have different addresses, which no nested table      *)
(* comes before.                                                           *)
IsWellAddressed(xml, table) ==
  /\ \A c \in Cells(xml, table) :
       LET nested == Reached(xml, c, {}) \cap Tagged(xml, "tbl")
       IN nested = {} \/ \E n \in OwnAddresses(xml, c) : \A m \in nested : n < m
  /\ \A c, d \in Cells(xml, table) :
       c # d => OwnAddress(xml, c) # OwnAddress(xml, d)

-----------------------------------------------------------------------------
(* Properties.                                                             *)

(* The limits on number and sizes that an archive is held to.              *)
IsBounded(members) ==
  /\ Len(members) <= MaxEntries
  /\ \A i \in DOMAIN members :
       members[i].size <= MaxEntrySize /\ TotalSize(members, i) <= MaxTotalSize

HwpxRaises(members) ==
  \/ \E i \in DOMAIN members : members[i].data = "broken"
  \/ \E i \in Sections(members) : members[i].syntax = "raises"

PdfRaises(pdf, provider) ==
  \/ "raises" \in {pdf.opens, pdf.tables}
  \/ \E n \in DOMAIN pdf.pages : PageRaises(pdf.pages[n], provider)

(***************************************************************************)
(* What leaves the ingest as an exception, without a failed state: one     *)
(* that decompressing, XML, PDF or OCR code raises and nobody translates,  *)
(* and with an HWPX file not before its archive was held to the limits; or *)
(* that two blocks get one address, which takes a badly addressed table of *)
(* an HWPX file, whatever the sections, paragraphs and numbering.  PDF     *)
(* pages, OCR and PDF tables never clash, and a provider that raises does  *)
(* no harm to pages with text of their own.                                *)
(***************************************************************************)
EscapesAreKnown ==
  /\ raised = "untranslated" =>
       \/ /\ input.format = "hwpx"
          /\ IsBounded(input.document.members) /\ HwpxRaises(input.document.members)
       \/ input.format = "pdf" /\ PdfRaises(input.document, input.provider)
  /\ raised = "duplicate_block_id" =>
       /\ input.format = "hwpx"
       /\ \E i \in Sections(input.document.members) :
            LET xml == input.document.members[i].xml
            IN \E table \in Tables(xml) : ~IsWellAddressed(xml, table)

(***************************************************************************)
(* Nothing of an HWPX document is left out or stored twice: a block has    *)
(* the texts that belong to its paragraph or cell, in their order and no   *)
(* others, and a text that belongs to one is in its block.                 *)
(***************************************************************************)
WordsAreInOneBlock ==
  stored.exists /\ input.format = "hwpx" =>
    \A i \in Sections(input.document.members) :
      LET xml == input.document.members[i].xml IN
      /\ \A n \in DOMAIN xml : <<i, n>> \in DOMAIN stored.blocks =>
           stored.blocks[<<i, n>>].text =
             Words(xml, {t \in Readable(xml) : Home(xml, t) = n})
      /\ \A t \in Readable(xml) : xml[t].text # <<>> =>
           <<i, Home(xml, t)>> \in DOMAIN stored.blocks

(***************************************************************************)
(* No page of a PDF file is left unread without a trace: an attachment     *)
(* with a page that has no block asks for review and is in the failure     *)
(* inventory, as a scan when there was no OCR to read it, whatever the     *)
(* other pages are like.                                                   *)
(***************************************************************************)
PagesAreAccountedFor ==
  stored.exists /\ input.format = "pdf" =>
    \A n \in DOMAIN input.document.pages :
      \/ \E i \in DOMAIN stored.blocks : stored.blocks[i].page = n
      \/ /\ attachment.status = "requires_review"
         /\ AttachmentFailures(attachment) =
              {IF input.provider THEN "attachment_parse" ELSE "scan_pdf_ocr_required"}

(***************************************************************************)
(* No rule turns a condition that is refused at once into a requirement,   *)
(* but in two known ways: of overlapping passages the excluding one is     *)
(* chosen, and an age that is refused yields no rule.  A refusal further   *)
(* on in the sentence no pattern sees.                                     *)
(***************************************************************************)
MissedRefusalsAreKnown ==
  \A i \in DOMAIN stored.blocks : \A r \in stored.rules :
    LET text == stored.blocks[i].text IN
    (/\ r.block = stored.blocks[i].id
     /\ r.rule.operator # "not_in"
     /\ Refused(text, r.rule)) => IsKnownMiss(text, r.rule)

(***************************************************************************)
(* What the properties above rest on: what is stored is what was extracted *)
(* from the blocks of the file, no two blocks have one address, and the    *)
(* row says how it was parsed.                                             *)
(***************************************************************************)
StoredIsExtracted ==
  /\ input \in Inputs
  /\ \/ stored = NoDocument
     \/ /\ input.format # "other"
        /\ Parsed(input).code = "ok"
        /\ stored.blocks = Parsed(input).blocks
        /\ stored.rules = Rules(stored.blocks)
        /\ ~HasDuplicates(stored.blocks)
        /\ attachment = ParsedRow(Parsed(input))

(* An exception was raised for what the parser answered.                   *)
ExceptionsAreReal ==
  raised \in {"untranslated", "duplicate_block_id"} =>
    /\ input \in Inputs /\ input.format # "other"
    /\ raised = "untranslated" => Parsed(input).code = "escaped"
    /\ raised = "duplicate_block_id" =>
         Parsed(input).code = "ok" /\ HasDuplicates(Parsed(input).blocks)
=============================================================================

------------------------------ MODULE HwpxBlocks ------------------------------
(***************************************************************************)
(* HwpxParser: what is accepted as an HWPX archive, and the blocks its     *)
(* sections become.                                                        *)
(*                                                                         *)
(* The XML of a section is the sequence of its elements in document order. *)
(* An element has a tag, the text of a "t", the numbers of a cellAddr      *)
(* <<row, column>> or cellSpan <<rows, columns>> (the empty sequence if    *)
(* one is missing or no integer), and the places of the elements above it. *)
(* An archive member is what the checks of a member see of it.  A check is *)
(* the code it fails with, "escaped" for an exception that nobody          *)
(* translates, or "ok"; checks come in the order of the code, and the      *)
(* first that fails decides.                                               *)
(***************************************************************************)
EXTENDS Integers, Sequences, FiniteSets

CONSTANTS
  MaxEntries,   \* MAX_ARCHIVE_ENTRIES
  MaxEntrySize, \* MAX_ENTRY_SIZE
  MaxTotalSize, \* MAX_TOTAL_SIZE
  MaxDecodeRounds \* MAX_DECODE_ROUNDS

Element ==
  [tag : STRING, text : Seq(STRING), pair : Seq(Int), above : SUBSET Nat]

(* What is above an element is a path, and comes before it.  All that is   *)
(* inside a "t" is its text (_inline_text).                                *)
IsTree(xml) ==
  \A n \in DOMAIN xml :
    /\ xml[n].above \subseteq 1..(n - 1)
    /\ \A m \in xml[n].above :
         xml[m].tag # "t" /\ xml[m].above = {k \in xml[n].above : k < m}

(* A member that is no section has the number -1.  The syntax of a section *)
(* is what parsing it and walking over it comes to, unless the address of  *)
(* a cell is met first: "raises" is a declared encoding that is unknown or *)
(* unsupported (LookupError, ValueError) or too deep a nesting for the     *)
(* recursive walks (RecursionError).                                       *)
ArchiveMember ==
  [forms : Seq(STRING), localName : BOOLEAN, regular : BOOLEAN, size : Nat,
   ratio : BOOLEAN, marker : BOOLEAN, section : Nat \cup {-1},
   data : {"sound", "checksum", "broken"},
   syntax : {"sound", "malformed", "raises"}, xml : {x \in Seq(Element) : IsTree(x)}]

Check(passes, code) == IF passes THEN "ok" ELSE code

FirstFailure(checks) ==
  LET failed == {i \in DOMAIN checks : checks[i] # "ok"}
  IN IF failed = {} THEN "ok"
     ELSE checks[CHOOSE i \in failed : \A j \in failed : i <= j]

-----------------------------------------------------------------------------
(* Archives.                                                               *)

(* The sum of the sizes of the first i members.                            *)
TotalSize(members, i) ==
  LET upTo[k \in 0..i] == IF k = 0 THEN 0 ELSE upTo[k - 1] + members[k].size
  IN upTo[i]

(***************************************************************************)
(* _interpretations: the forms a name takes under repeated decoding, as    *)
(* far as they are looked at.  The last of them stands for the member.     *)
(***************************************************************************)
Interpretations(m) == {i \in DOMAIN m.forms : i <= MaxDecodeRounds + 1}

PathKey(m) ==
  m.forms[CHOOSE i \in Interpretations(m) : \A j \in Interpretations(m) : j <= i]

(* One decoding more is tried than is looked at.                           *)
SafePath(m) ==
  /\ \A i \in Interpretations(m) : m.forms[i] # "unsafe"
  /\ \A i \in DOMAIN m.forms : i <= MaxDecodeRounds + 2 => m.forms[i] # "undecodable"

(* validate_raw_archive_names: central directory, paths, local names.      *)
RawCode(archive) ==
  FirstFailure(<<
    Check(archive.directory, "invalid_archive"),
    FirstFailure([i \in DOMAIN archive.members |->
      FirstFailure(<<
        Check(SafePath(archive.members[i]), "unsafe_archive_path"),
        Check(archive.members[i].localName, "invalid_archive")>>)])>>)

(* _validate_infos for the i-th member: alias of an earlier name, kind of  *)
(* entry, its size, and the sum of the sizes so far.                       *)
MemberCode(members, i) ==
  LET m == members[i] IN
  FirstFailure(<<
    Check(\A j \in 1..(i - 1) : PathKey(members[j]) # PathKey(m), "invalid_archive"),
    Check(m.regular, "invalid_archive"),
    Check(m.size <= MaxEntrySize /\ m.ratio, "archive_too_large"),
    Check(TotalSize(members, i) <= MaxTotalSize, "archive_too_large")>>)

Sections(members) == {i \in DOMAIN members : members[i].section # -1}

(* Seeded fault: sections are told apart by their names only.              *)
FaultNamesDiffer(members) == TRUE

(* The number of a section is an identity: section1 and section01 clash.   *)
NumbersDiffer(members) ==
  \A i, j \in Sections(members) :
    i # j => members[i].section # members[j].section

(* A wrong checksum is told, but a broken stream raises zlib.error or      *)
(* EOFError, which nobody translates.                                      *)
DataCode(m) ==
  IF m.data = "broken" THEN "escaped" ELSE Check(m.data = "sound", "invalid_archive")

(* _validate_mimetype: the first member is the stored marker, and is read. *)
MarkerCode(members) ==
  IF members # <<>> /\ members[1].marker THEN DataCode(members[1])
  ELSE "invalid_archive"

(* Sizes and names are checked before anything is decompressed.            *)
ArchiveCode(archive) ==
  LET members == archive.members IN
  FirstFailure(<<
    RawCode(archive),
    Check(Len(members) <= MaxEntries, "archive_too_large"),
    FirstFailure([i \in DOMAIN members |-> MemberCode(members, i)]),
    MarkerCode(members),
    Check(NumbersDiffer(members), "invalid_archive"),
    Check(Sections(members) # {}, "missing_content"),
    FirstFailure([i \in DOMAIN members |-> DataCode(members[i])])>>)

-----------------------------------------------------------------------------
(* Elements of a section.                                                  *)

Tagged(xml, tag) == {n \in DOMAIN xml : xml[n].tag = tag}

(* The elements below e that a walk from it finds which stops at elements  *)
(* with certain tags.                                                      *)
Reached(xml, e, stops) ==
  {n \in DOMAIN xml :
     e \in xml[n].above /\ \A k \in xml[n].above : k > e => xml[k].tag \notin stops}

(* _visit, _visit_nested_tables: outermost paragraphs, and all tables in   *)
(* no other table.                                                         *)
Paragraphs(xml) ==
  {n \in Tagged(xml, "p") : \A k \in xml[n].above : xml[k].tag \notin {"p", "tbl"}}

Tables(xml) ==
  {n \in Tagged(xml, "tbl") : \A k \in xml[n].above : xml[k].tag # "tbl"}

(* _table_cells: the cells of this table, not of tables within.            *)
Cells(xml, table) == Reached(xml, table, {"tbl", "tc"}) \cap Tagged(xml, "tc")

(* The texts of a set of elements, joined in document order.               *)
Words(xml, S) ==
  LET upTo[n \in 0..Len(xml)] ==
        IF n = 0 THEN <<>>
        ELSE upTo[n - 1] \o (IF n \in S THEN xml[n].text ELSE <<>>)
  IN upTo[Len(xml)]

(* Seeded fault: the text of nested tables is read along.                  *)
FaultNestedText(xml, e) == Words(xml, Reached(xml, e, {}) \cap Tagged(xml, "t"))

(* _element_text: all "t" below, but for those in nested tables.           *)
Text(xml, e) == Words(xml, Reached(xml, e, {"tbl"}) \cap Tagged(xml, "t"))

(* The first cellAddr or cellSpan anywhere below the cell.                 *)
FirstPair(xml, cell, tag, default) ==
  LET found == Reached(xml, cell, {}) \cap Tagged(xml, tag)
  IN IF found = {} THEN default
     ELSE xml[CHOOSE n \in found : \A m \in found : n <= m].pair

Address(xml, cell) == FirstPair(xml, cell, "cellAddr", <<>>)

Span(xml, cell) == FirstPair(xml, cell, "cellSpan", <<1, 1>>)

(* Integers of at least a minimum, both of them.                           *)
IsPair(pair, least) == Len(pair) = 2 /\ pair[1] >= least /\ pair[2] >= least

(* map_section: the XML is well-formed and every cell has an address.      *)
SectionCode(m) ==
  IF m.syntax = "raises" THEN "escaped"
  ELSE Check(/\ m.syntax = "sound"
             /\ \A table \in Tables(m.xml) : \A c \in Cells(m.xml, table) :
                  IsPair(Address(m.xml, c), 0) /\ IsPair(Span(m.xml, c), 1),
             "invalid_xml")

(* Sections are mapped in the order of their numbers, up to the first that *)
(* fails.                                                                  *)
SectionsCode(members) ==
  LET failed == {i \in Sections(members) : SectionCode(members[i]) # "ok"}
      first  == CHOOSE i \in failed :
                  \A j \in failed : members[i].section <= members[j].section
  IN IF failed = {} THEN "ok" ELSE SectionCode(members[first])

-----------------------------------------------------------------------------
(* Blocks.  The place of a block is the member and the element it is made  *)
(* of; in which order they are stored is left out.                         *)

AllTables(members) ==
  UNION {{i} \X Tables(members[i].xml) : i \in Sections(members)}

ComesBefore(members, a, b) ==
  \/ members[a[1]].section < members[b[1]].section
  \/ a[1] = b[1] /\ a[2] < b[2]

(* Paragraphs are numbered per section, tables through the document.       *)
ParagraphNumber(xml, n) == Cardinality({m \in Paragraphs(xml) : m < n})

TableNumber(members, place) ==
  Cardinality({a \in AllTables(members) : ComesBefore(members, a, place)})

(* _emit_paragraph leaves out a paragraph without text, but counts it.     *)
ParagraphPlaces(members) ==
  UNION {{i} \X {n \in Paragraphs(members[i].xml) : Text(members[i].xml, n) # <<>>} :
           i \in Sections(members)}

CellPlaces(members) ==
  UNION {{i} \X UNION {Cells(members[i].xml, t) : t \in Tables(members[i].xml)} :
           i \in Sections(members)}

TableOf(xml, cell) == CHOOSE t \in Tables(xml) : cell \in Cells(xml, t)

ParagraphId(members, i, n) ==
  [section |-> members[i].section, unit |-> "p",
   number |-> ParagraphNumber(members[i].xml, n), cell |-> <<>>]

CellId(members, i, n) ==
  LET xml == members[i].xml IN
  [section |-> members[i].section, unit |-> "table",
   number |-> TableNumber(members, <<i, TableOf(xml, n)>>),
   cell |-> <<Address(xml, n), Span(xml, n)>>]

BlockOf(members, place) ==
  [id |-> IF place \in CellPlaces(members)
          THEN CellId(members, place[1], place[2])
          ELSE ParagraphId(members, place[1], place[2]),
   text |-> Text(members[place[1]].xml, place[2]),
   page |-> 0]

(* HwpxParser.parse on the bytes of an archive.                            *)
ParseHwpx(archive) ==
  LET members == archive.members
      code == FirstFailure(<<ArchiveCode(archive), SectionsCode(members)>>)
  IN [code |-> code, warning |-> "none",
      blocks |-> [place \in IF code = "ok"
                             THEN ParagraphPlaces(members) \cup CellPlaces(members)
                             ELSE {} |-> BlockOf(members, place)]]
===============================================================================

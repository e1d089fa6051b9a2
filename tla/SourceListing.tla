----------------------------- MODULE SourceListing -----------------------------
(***************************************************************************)
(* One collection of an official source, page by page, while the source    *)
(* publishes and withdraws notices: the adapters (fetch_page, the parsing  *)
(* of an answer) and the loop of Collector.collect around them.            *)
(*                                                                         *)
(* SourceSync has the run this collection belongs to, and the failures     *)
(* between two notices of a page; here a page is stored in one step.  Error *)
(* codes go without the name of the source.                                *)
(***************************************************************************)
EXTENDS Integers, Sequences, FiniteSets, SequencesExt

CONSTANTS
  Notices,      \* what the source can list
  PageSizes,    \* settings of source_page_size
  MaxPageSize,  \* _MAX_PAGE_SIZE
  MaxPages,     \* _MAX_SOURCE_PAGES
  MaxEdits,     \* bound: notices published or withdrawn meanwhile
  Unstated      \* the total of an item that has none

ASSUME ListingAssumption ==
  /\ IsFiniteSet(Notices)
  /\ PageSizes \subseteq Nat \ {0}
  /\ {MaxPageSize, MaxPages, MaxEdits} \subseteq Nat
  /\ Unstated \notin Int

VARIABLES
  source,     \* "bizinfo" or "kstartup"
  size,       \* page size asked for
  listing,    \* what the source lists now
  page,       \* next page to ask for
  stored,     \* notices stored
  result,     \* "running", "fresh" or the code of the failure
  lasting,    \* history: what has been listed from the start until now
  edits,      \* history: notices published or withdrawn since
  withdrawals,  \* history: how many of them were withdrawn
  misled      \* history: an accepted answer claimed fewer than are listed

vars == <<source, size, listing, page, stored, result,
          lasting, edits, withdrawals, misled>>

Init ==
  /\ source \in {"bizinfo", "kstartup"}
  /\ size \in PageSizes
  /\ listing \in SetToAllKPermutations(Notices)
  /\ page = 1 /\ stored = {} /\ result = "running"
  /\ lasting = Range(listing)
  /\ edits = 0 /\ withdrawals = 0 /\ misled = FALSE

-----------------------------------------------------------------------------
(* The source.                                                             *)

Publish ==
  /\ result = "running" /\ edits < MaxEdits
  /\ \E n \in Notices \ Range(listing), i \in 1..(Len(listing) + 1) :
       listing' = InsertAt(listing, i, n)
  /\ edits' = edits + 1
  /\ UNCHANGED <<source, size, page, stored, result, lasting, withdrawals, misled>>

Withdraw ==
  /\ result = "running" /\ edits < MaxEdits
  /\ \E i \in DOMAIN listing :
       /\ listing' = RemoveAt(listing, i)
       /\ lasting' = lasting \ {listing[i]}
  /\ edits' = edits + 1
  /\ withdrawals' = withdrawals + 1
  /\ UNCHANGED <<source, size, page, stored, result, misled>>

(* The notices of a page, in the order of the listing of the moment.       *)
Passed == (page - 1) * size

Window ==
  LET last == Passed + size
  IN SubSeq(listing, Passed + 1, IF last < Len(listing) THEN last ELSE Len(listing))

(* A total may be out of date or wrong.                                    *)
Claims == {0, Len(listing), Len(listing) + 1}

(***************************************************************************)
(* Bizinfo repeats the total in its items, or leaves it out; K-Startup has *)
(* it beside the items, with their count and the page it took the request  *)
(* for.  Either may be unreadable, or one of its items invalid.            *)
(***************************************************************************)
Forms ==
  {"readable", "unreadable", "insecure_url",
   IF source = "bizinfo" THEN "invalid_period" ELSE "invalid_date"}

BizinfoAnswers ==
  [items : {Window}, form : Forms,
   totals : [DOMAIN Window -> Claims \cup {Unstated}]]

KStartupAnswers ==
  [items : {Window}, form : Forms, total : Claims,
   count : {Len(Window), Len(Window) + 1}, page : {page, page + 1}]

-----------------------------------------------------------------------------
(* The adapters.                                                           *)

ParsedPage(code, total) == [code |-> code, total |-> total]

(* parse_bizinfo_page: without any total, the page is all there is.        *)
BizinfoPage(a) ==
  LET known == Range(a.totals) \ {Unstated}
      total == IF known = {} THEN Len(a.items) ELSE CHOOSE t \in known : TRUE
  IN CASE a.form = "unreadable" -> ParsedPage("invalid_response", 0)
       [] a.form # "unreadable" /\ Cardinality(known) > 1 ->
            ParsedPage("inconsistent_total_count", 0)
       [] a.form # "unreadable" /\ Cardinality(known) <= 1 /\ total < Len(a.items) ->
            ParsedPage("invalid_response", 0)
       [] OTHER -> ParsedPage(a.form, total)

(* parse_kstartup_page, and the comparison with the request; an answer of  *)
(* another page size is refused as one of another page is.                 *)
KStartupPage(a) ==
  CASE a.form = "unreadable" \/ a.count # Len(a.items) ->
         ParsedPage("invalid_response", 0)
    [] a.form # "unreadable" /\ a.count = Len(a.items)
       /\ a.form = "readable" /\ a.page # page ->
         ParsedPage("pagination_mismatch", 0)
    [] OTHER -> ParsedPage(a.form, a.total)

Pages ==
  IF source = "bizinfo"
  THEN {BizinfoPage(a) : a \in BizinfoAnswers}
  ELSE {KStartupPage(a) : a \in KStartupAnswers}

(* Seeded fault: a last page with a single notice is forgotten.            *)
FaultLastOne(total) == page * size + 1 < total

HasNext(total) == page * size < total

-----------------------------------------------------------------------------
(* The loop of collect.                                                    *)

Fail(code) ==
  /\ result' = code
  /\ UNCHANGED <<source, size, listing, page, stored,
                 lasting, edits, withdrawals, misled>>

ExceedPageLimit ==
  /\ result = "running" /\ page > MaxPages
  /\ Fail("page_limit_exceeded")

RefusePageSize ==
  /\ result = "running" /\ page <= MaxPages /\ size > MaxPageSize
  /\ Fail("invalid_pagination")

CanAsk == result = "running" /\ page <= MaxPages /\ size <= MaxPageSize

FailRequest ==
  /\ CanAsk
  /\ \E code \in {"transport_error", "http_status"} : Fail(code)

RefuseAnswer ==
  /\ CanAsk
  /\ \E answer \in Pages :
       answer.code # "readable" /\ Fail(answer.code)

StorePage ==
  /\ CanAsk
  /\ \E answer \in Pages :
       /\ answer.code = "readable"
       /\ misled' = (misled \/ answer.total < Len(listing))
       /\ \/ HasNext(answer.total) /\ page' = page + 1 /\ UNCHANGED result
          \/ ~HasNext(answer.total) /\ result' = "fresh" /\ UNCHANGED page
  /\ stored' = stored \cup Range(Window)
  /\ UNCHANGED <<source, size, listing, lasting, edits, withdrawals>>

Next ==
  \/ Publish \/ Withdraw
  \/ ExceedPageLimit \/ RefusePageSize \/ FailRequest \/ RefuseAnswer
  \/ StorePage

Spec == Init /\ [][Next]_vars

-----------------------------------------------------------------------------
(* Properties.                                                             *)

(***************************************************************************)
(* A collection that ends fresh has every notice listed all the while,     *)
(* wherever others were published meanwhile, but for one per notice that   *)
(* was withdrawn, which may have moved one onto a page already read; if    *)
(* only no answer claimed fewer notices than there were.                   *)
(***************************************************************************)
FreshMissesOnlyTheMoved ==
  result = "fresh" /\ ~misled =>
    Cardinality(lasting \ stored) <= withdrawals

(***************************************************************************)
(* The strengthening: while pages are read, those are the notices that     *)
(* stand where a page has been read already and are not stored.            *)
(***************************************************************************)
MovedBehind ==
  {n \in lasting \ stored : \E i \in DOMAIN listing : i <= Passed /\ listing[i] = n}

ListingInv ==
  /\ listing \in Seq(Notices)
  /\ size \in Nat \ {0} /\ page \in Nat \ {0}
  /\ lasting \subseteq Range(listing)
  /\ withdrawals \in Nat
  /\ misled \in BOOLEAN
  /\ result = "running" => Cardinality(MovedBehind) <= withdrawals
  /\ FreshMissesOnlyTheMoved
================================================================================

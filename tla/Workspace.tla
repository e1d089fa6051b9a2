------------------------------ MODULE Workspace ------------------------------
(***************************************************************************)
(* What the screens, reports and matches of one program see while others   *)
(* write: a profile search, a reverse match over the managed companies,    *)
(* the program page with its review form, and the consultation report.     *)
(*                                                                         *)
(* Each of them reads table by table.  pysqlite begins no transaction      *)
(* before the first write, so every SELECT sees its own instant, inside    *)
(* session.begin() too; what a match writes is one atomic step.  The       *)
(* writers are whole operations here: Attachments, NoticeIngest,           *)
(* AssessmentReview and CaseWorkflow show their insides.                   *)
(*                                                                         *)
(* SELECTs no property tells apart (titles, companies, notices, freshness, *)
(* automatic conditions) are left out of the sequences.                    *)
(*                                                                         *)
(* A notice of a source stands for the version row it gets when it is      *)
(* first collected and goes back to when it is published again: two of one *)
(* identity with the same snapshot differ in the white space of the title  *)
(* (the content hash sees it, the snapshot does not), and perhaps in their *)
(* reference date (without an announcement, the day of collection).        *)
(***************************************************************************)
EXTENDS Naturals, Sequences, FiniteSets, FiniteSetsExt, Functions

CONSTANTS
  Sessions,     \* concurrent requests and commands
  Companies,    \* profiles of the managed companies, in the order of their ids
  Notices,      \* what the sources of the program may publish: records of
                \* an identity, a snapshot and a reference date
  First,        \* the one the program was made for
  Attachments,  \* attachments of a notice version
  MaxPublished, \* bound: publications of a notice, again or for the first time
  MaxParses,    \* bound: documents stored
  MaxMatches,   \* bound: matches begun
  MaxReviews,   \* bound: reviews accepted
  MaxMoves      \* bound: moves of the case

ASSUME WorkspaceAssumption ==
  /\ Companies \in Seq(Range(Companies)) /\ Companies # <<>>
  /\ First \in Notices /\ \A n \in Notices : n.reference \in Nat
  /\ {MaxPublished, MaxParses, MaxMatches, MaxReviews, MaxMoves} \subseteq Nat

VARIABLES
  published,    \* notice versions stored
  unreadable,   \* those from before snapshots were kept (migration 0002)
  current,      \* the current version of each identity of the program
  reference,    \* reference date of the program
  publications, \* publications so far
  rules,        \* live generated rules, each with its one piece of evidence
  parses,       \* documents stored so far
  assessments,  \* stored assessments by id, with their ledger and impacts
  moves,        \* audit events of the case of the first company
  matches,      \* clock: matches begun so far, the newest assessed_at
  session       \* what each session has read and has left to read

notices == <<published, unreadable, current, reference, publications>>

vars == <<notices, rules, parses, assessments, moves, matches, session>>

NoView == [t \in {} |-> t]

Idle == [kind |-> "idle", profiles |-> <<>>, at |-> 0, left |-> <<>>,
         view |-> NoView, disturbed |-> FALSE]

(* One notice, perhaps migrated without its snapshot.                      *)
Init ==
  /\ published = {First} /\ current = {First} /\ reference = First.reference
  /\ unreadable \in {{}, {First}}
  /\ publications = 0
  /\ rules = {}
  /\ parses = 0
  /\ assessments = <<>>
  /\ moves = 0
  /\ matches = 0
  /\ session = [s \in Sessions |-> Idle]

-----------------------------------------------------------------------------
(* The tables each of them reads, in order.                                *)

MatchReads == <<"program", "rules", "evidence">>

(* Seeded fault: the page reads the reviews before the assessments.        *)
FaultAuditFirst == <<"audit", "rows">>

ProgramReads == <<"rows", "audit">>

(* Seeded fault: the report reads its audit trail before its case.         *)
FaultTrailFirst == <<"rows", "trail", "case", "audit">>

ReportReads == <<"case", "rows", "audit", "trail">>

Reads(kind) ==
  CASE kind = "match" -> MatchReads
    [] kind = "page" -> ProgramReads
    [] kind = "report" -> ReportReads

Begun(kind, profiles, at) ==
  [kind |-> kind, profiles |-> profiles, at |-> at, left |-> Reads(kind),
   view |-> NoView, disturbed |-> FALSE]

StartMatch(s, profiles) ==
  /\ session[s] = Idle
  /\ matches < MaxMatches
  /\ matches' = matches + 1
  /\ session' = [session EXCEPT ![s] = Begun("match", profiles, matches + 1)]
  /\ UNCHANGED <<notices, rules, parses, assessments, moves>>

(* A search is for one profile, a reverse match for every company.         *)
Search(s) == \E i \in DOMAIN Companies : StartMatch(s, <<Companies[i]>>)

ReverseMatch(s) == StartMatch(s, Companies)

OpenPage(s) ==
  /\ session[s] = Idle
  /\ session' = [session EXCEPT ![s] = Begun("page", Companies, 0)]
  /\ UNCHANGED <<notices, rules, parses, assessments, moves, matches>>

OpenReport(s) ==
  /\ session[s] = Idle
  /\ session' = [session EXCEPT ![s] = Begun("report", <<Companies[1]>>, 0)]
  /\ UNCHANGED <<notices, rules, parses, assessments, moves, matches>>

-----------------------------------------------------------------------------
(* One SELECT.                                                             *)

(* Rules of documents of current notice versions.                          *)
CurrentRules == {r \in rules : r.notice \in current}

(* The evidence rows now related to the ids read before, if any are left.  *)
EvidenceOf(ids) == {r \in rules : r.id \in ids}

Newest(indexes) ==
  CHOOSE i \in indexes : \A j \in indexes :
    \/ assessments[j].at < assessments[i].at
    \/ assessments[j].at = assessments[i].at /\ j <= i

OfProfile(p) == {i \in DOMAIN assessments : assessments[i].profile = p}

(* The last assessment of every profile that has one.                      *)
LatestRows ==
  {Newest(OfProfile(p)) : p \in {assessments[i].profile : i \in DOMAIN assessments}}

(* Review status and revision of the rows as they are now.                 *)
RowsOf(indexes) ==
  [i \in indexes |-> [revision |-> assessments[i].revision,
                      status |-> assessments[i].status]]

(* Review events of the rows read before (of all when none were read).     *)
EventsOf(view) ==
  [i \in (IF "rows" \in DOMAIN view THEN DOMAIN view.rows ELSE DOMAIN assessments) |->
     assessments[i].events]

Selected(x, table) ==
  CASE table = "program" -> [reference |-> reference, notices |-> current]
    [] table = "rules" -> [found |-> CurrentRules, seen |-> parses]
    [] table = "evidence" -> EvidenceOf({r.id : r \in x.view.rules.found})
    [] table = "rows" -> RowsOf(IF x.kind = "page" THEN LatestRows
                                ELSE OfProfile(x.profiles[1]))
    [] table = "audit" -> EventsOf(x.view)
    [] table = "case" -> moves
    [] table = "trail" -> [moves |-> moves, events |-> EventsOf(x.view)]

Extended(view, table, value) ==
  [t \in DOMAIN view \cup {table} |-> IF t = table THEN value ELSE view[t]]

Select(s) ==
  LET x == session[s] IN
  /\ x.left # <<>>
  /\ session' = [session EXCEPT
       ![s].left = Tail(@),
       ![s].view = Extended(@, Head(x.left), Selected(x, Head(x.left)))]
  /\ UNCHANGED <<notices, rules, parses, assessments, moves, matches>>

IsRead(s, kinds) == session[s].kind \in kinds /\ session[s].left = <<>>

Leave(s) ==
  /\ IsRead(s, {"page", "report"})
  /\ session' = [session EXCEPT ![s] = Idle]
  /\ UNCHANGED <<notices, rules, parses, assessments, moves, matches>>

-----------------------------------------------------------------------------
(* The end of a match.                                                     *)

RuleIds(items) == {item.id : item \in items}

(* missing_rules, or missing_evidence of one of them: nothing is assessed. *)
HasErrors(view) ==
  \/ view.rules.found = {}
  \/ RuleIds(view.rules.found) # RuleIds(view.evidence)

(* An item names a rule by its id: the content assessed is the one the     *)
(* first SELECT read, the evidence the one the second did.                 *)
ItemsOf(view) ==
  {[id |-> r.id, parse |-> r.parse,
    evidence |-> (CHOOSE e \in view.evidence : e.id = r.id).parse] :
     r \in view.rules.found}

(* Generated rules always ask for a review.                                *)
StoredRow(s, p) ==
  [profile |-> p, at |-> session[s].at,
   reference |-> session[s].view.program.reference,
   notices |-> session[s].view.program.notices,
   items |-> ItemsOf(session[s].view), seen |-> session[s].view.rules.seen,
   disturbed |-> session[s].disturbed, flagged |-> FALSE,
   status |-> "review_required", revision |-> 0, events |-> 0]

StoredRows(s) ==
  [i \in DOMAIN session[s].profiles |-> StoredRow(s, session[s].profiles[i])]

(* foreign_keys=ON: every rule id must name a row when the items go in,    *)
(* or else the whole batch rolls back.                                     *)
Persist(s) ==
  /\ IsRead(s, {"match"})
  /\ assessments' =
       IF ~HasErrors(session[s].view)
          /\ RuleIds(session[s].view.rules.found) \subseteq RuleIds(rules)
       THEN assessments \o StoredRows(s) ELSE assessments
  /\ session' = [session EXCEPT ![s] = Idle]
  /\ UNCHANGED <<notices, rules, parses, moves, matches>>

-----------------------------------------------------------------------------
(* The writers.                                                            *)

(* A match that is reading and meets a change of what it reads.            *)
Disturbed ==
  [s \in Sessions |->
     IF session[s].kind = "match" /\ session[s].view # NoView
     THEN [session[s] EXCEPT !.disturbed = TRUE]
     ELSE session[s]]

(* Seeded fault: a change reopens the reviews and has no other impact.     *)
FaultOnlyReviewed(row) ==
  IF row.status = "reviewed"
  THEN [row EXCEPT !.status = "review_required", !.flagged = TRUE] ELSE row

(* A change impact, and the review to be done again.                       *)
Flagged(row) == [row EXCEPT !.status = "review_required", !.flagged = TRUE]

(***************************************************************************)
(* record_change finds something to record: there was a version before, it *)
(* has a snapshot, and that differs.  A source that joins the program, a   *)
(* version without snapshot and a change of white space flag nobody.       *)
(***************************************************************************)
IsChange(before, n) ==
  \E c \in before : c \notin unreadable /\ c.snapshot # n.snapshot

(* The earliest date of the current versions, if one has a snapshot.       *)
Refreshed(now) ==
  IF now \subseteq unreadable THEN reference ELSE Min({c.reference : c \in now})

(* A source publishes notice n, for the first time or again.               *)
Publish(n) ==
  LET before == {c \in current : c.identity = n.identity}
      now == (current \ before) \cup {n}
  IN
  /\ n \notin current
  /\ publications < MaxPublished
  /\ publications' = publications + 1
  /\ published' = published \cup {n}
  /\ current' = now
  /\ reference' = Refreshed(now)
  /\ assessments' = IF IsChange(before, n)
                    THEN [i \in DOMAIN assessments |-> Flagged(assessments[i])]
                    ELSE assessments
  /\ session' = Disturbed
  /\ UNCHANGED <<unreadable, rules, parses, moves, matches>>

(* No rule that is to go is named by an item: foreign_keys=ON.             *)
NotReferenced(gone) ==
  \A i \in DOMAIN assessments :
    RuleIds(assessments[i].items) \cap RuleIds(gone) = {}

(***************************************************************************)
(* A collection stores the document of attachment a of notice n: the       *)
(* generated rules of the document before it go, new ones may come.  Ids   *)
(* are rowids without AUTOINCREMENT: the highest one is given out again.   *)
(***************************************************************************)
StoreDocument(n, a) ==
  LET gone == {r \in rules : r.notice = n /\ r.attachment = a}
      rest == rules \ gone
      fresh == [id |-> 1 + Max({0} \cup RuleIds(rest)), notice |-> n,
                attachment |-> a, parse |-> parses + 1]
  IN
  /\ parses < MaxParses
  /\ NotReferenced(gone)
  /\ parses' = parses + 1
  /\ rules' \in {rest, rest \cup {fresh}}
  /\ session' = IF gone = {} THEN session ELSE Disturbed
  /\ UNCHANGED <<notices, assessments, moves, matches>>

MoveCase ==
  /\ moves < MaxMoves
  /\ moves' = moves + 1
  /\ UNCHANGED <<notices, rules, parses, assessments, matches, session>>

Reviews ==
  FoldFunction(LAMBDA row, n : row.events + n, 0, assessments)

(***************************************************************************)
(* The form of a page is sent: the revision shown must still be the row's, *)
(* and what the last review left must agree with the status, which a       *)
(* change of the notice breaks (AssessmentReview).                         *)
(***************************************************************************)
Review(s, i) ==
  /\ IsRead(s, {"page"})
  /\ i \in DOMAIN session[s].view.rows
  /\ session[s].view.rows[i].revision = assessments[i].revision
  /\ assessments[i].events = 0 \/ assessments[i].status = "reviewed"
  /\ Reviews < MaxReviews
  /\ assessments' = [assessments EXCEPT
       ![i].status = "reviewed", ![i].revision = @ + 1, ![i].events = @ + 1]
  /\ session' = [session EXCEPT ![s] = Idle]
  /\ UNCHANGED <<notices, rules, parses, moves, matches>>

SessionStep(s) ==
  \/ Search(s) \/ ReverseMatch(s) \/ OpenPage(s) \/ OpenReport(s)
  \/ Select(s) \/ Persist(s) \/ Leave(s)
  \/ \E i \in DOMAIN assessments : Review(s, i)

Next ==
  \/ \E s \in Sessions : SessionStep(s)
  \/ \E n \in Notices : Publish(n)
  \/ \E n \in published, a \in Attachments : StoreDocument(n, a)
  \/ MoveCase

Spec == Init /\ [][Next]_vars

-----------------------------------------------------------------------------
(* Properties.                                                             *)

(***************************************************************************)
(* An assessment, if nothing it reads changed while it was reading, is of  *)
(* one state of the program: its date is the earliest of the notices then  *)
(* current, and its items are exactly the rules of those notices, stored   *)
(* by then and all still there, each with its own evidence, whatever is    *)
(* stored, replaced or published before and after.                         *)
(***************************************************************************)
IsOfOneState(row) ==
  /\ \/ row.notices \subseteq unreadable
     \/ row.reference = Min({n.reference : n \in row.notices})
  /\ row.items = {[id |-> r.id, parse |-> r.parse, evidence |-> r.parse] :
                    r \in {q \in rules : q.notice \in row.notices /\ q.parse <= row.seen}}

(* The identities whose versions all have a snapshot.                      *)
Comparable(n) == \A u \in unreadable : u.identity # n.identity

(***************************************************************************)
(* And while no impact flags it, every source it has read still says what  *)
(* it said then, through any number of publications and returns.  (What it *)
(* does not promise: a source that joins later, and a version without      *)
(* snapshot in the history of the source, may date it without a flag.)     *)
(***************************************************************************)
IsStillSaid(row) ==
  \A n \in row.notices : Comparable(n) =>
    \E c \in current : c.identity = n.identity /\ c.snapshot = n.snapshot

AssessmentsFitTheirNotices ==
  \A i \in DOMAIN assessments :
    ~assessments[i].disturbed =>
      /\ IsOfOneState(assessments[i])
      /\ ~assessments[i].flagged => IsStillSaid(assessments[i])

(***************************************************************************)
(* A review that is accepted was sent from a page that showed the last     *)
(* review of that assessment, and its status, although the page read       *)
(* assessments and reviews at two instants and others reviewed since.      *)
(***************************************************************************)
AcceptedReviewsSawTheLedger ==
  [][\A s \in Sessions, i \in DOMAIN assessments :
       Review(s, i) =>
         /\ i \in DOMAIN session[s].view.audit
         /\ session[s].view.audit[i] = assessments[i].events
         /\ session[s].view.rows[i].status = assessments[i].status]_vars

(***************************************************************************)
(* A consultation report shows no stage, review or result its audit trail  *)
(* does not account for, however late the trail is read.                   *)
(***************************************************************************)
ReportsAreExplained ==
  \A s \in Sessions : IsRead(s, {"report"}) =>
    LET view == session[s].view IN
    /\ view.case <= view.trail.moves
    /\ \A i \in DOMAIN view.rows :
         view.rows[i].revision <= view.audit[i]
         /\ view.audit[i] <= view.trail.events[i]

-----------------------------------------------------------------------------
(* The strengthening.                                                      *)

RuleType == [id : Nat, notice : Notices, attachment : Attachments, parse : Nat]

ItemType == [id : Nat, parse : Nat, evidence : Nat]

RowType ==
  [profile : Range(Companies), at : Nat, reference : Nat,
   notices : SUBSET Notices, items : SUBSET ItemType, seen : Nat,
   disturbed : BOOLEAN, flagged : BOOLEAN,
   status : {"review_required", "reviewed"}, revision : Nat, events : Nat]

(* Every variable keeps its type; what a view holds is said below.         *)
TypeOK ==
  /\ published \subseteq Notices /\ current \subseteq Notices /\ current # {}
  /\ reference \in Nat /\ parses \in Nat /\ moves \in Nat /\ matches \in Nat
  /\ rules \subseteq RuleType
  /\ assessments \in Seq(RowType)
  /\ DOMAIN session = Sessions
  /\ \A s \in Sessions :
       /\ DOMAIN session[s] = DOMAIN Idle
       /\ session[s].profiles \in Seq(Range(Companies))
       /\ session[s].at \in 0..matches
       /\ session[s].disturbed \in BOOLEAN

(* An id names one rule, and is at most the number of documents stored.    *)
RulesAreNumbered ==
  /\ \A r \in rules : r.id \in 1..parses /\ r.parse \in 1..parses
  /\ \A r, q \in rules : r.id = q.id => r = q

(* The ledger of an assessment has as many reviews as its revision says.   *)
RowsFollowTheLedger ==
  \A i \in DOMAIN assessments :
    /\ assessments[i].at <= matches
    /\ assessments[i].seen <= parses
    /\ assessments[i].events = assessments[i].revision
    /\ assessments[i].revision = 0 => assessments[i].status = "review_required"

(* The program has the earliest date of its current versions, unless none  *)
(* of them has a snapshot.                                                 *)
ReferenceIsEarliest ==
  \/ current \subseteq unreadable
  \/ reference = Min({c.reference : c \in current})

(* A session has in view what it has read, in the order of its reads.      *)
Stage(x, tables) ==
  \E n \in 0..Len(tables) :
    /\ x.left = SubSeq(tables, n + 1, Len(tables))
    /\ DOMAIN x.view = {tables[k] : k \in 1..n}

ReadsInOrder(x) ==
  \/ x.kind = "idle" /\ x.left = <<>> /\ x.view = NoView
  \/ x.kind \in {"match", "page", "report"} /\ Stage(x, Reads(x.kind))

(* What a match has read is what is there, unless it was disturbed.        *)
MatchKnows(x) ==
  /\ "program" \in DOMAIN x.view =>
       /\ x.view.program.reference \in Nat
       /\ x.view.program.notices \subseteq Notices
       /\ ~x.disturbed =>
            /\ x.view.program.reference = reference
            /\ x.view.program.notices = current
  /\ "rules" \in DOMAIN x.view =>
       /\ x.view.rules.seen \in 0..parses
       /\ x.view.rules.found \subseteq RuleType
       /\ ~x.disturbed =>
            x.view.rules.found = {r \in CurrentRules : r.parse <= x.view.rules.seen}
  /\ "evidence" \in DOMAIN x.view =>
       /\ "rules" \in DOMAIN x.view
       /\ x.view.evidence \subseteq RuleType
       /\ ~x.disturbed => x.view.evidence = x.view.rules.found

(* A row still at the revision read and reviewed was reviewed when read.   *)
RowsWereReal(rows) ==
  \A i \in DOMAIN rows :
    /\ i \in DOMAIN assessments
    /\ rows[i].revision \in 0..assessments[i].revision
    /\ rows[i].revision = 0 => rows[i].status = "review_required"
    /\ rows[i].revision = assessments[i].revision /\ assessments[i].status = "reviewed"
         => rows[i].status = "reviewed"

(* What is read later is never behind what was read before.                *)
ReaderKnows(view) ==
  /\ "rows" \in DOMAIN view => RowsWereReal(view.rows)
  /\ "audit" \in DOMAIN view =>
       /\ "rows" \in DOMAIN view /\ DOMAIN view.audit = DOMAIN view.rows
       /\ \A i \in DOMAIN view.audit :
            view.audit[i] \in view.rows[i].revision..assessments[i].events
  /\ "case" \in DOMAIN view => view.case \in 0..moves
  /\ "trail" \in DOMAIN view =>
       /\ {"case", "rows", "audit"} \subseteq DOMAIN view
       /\ view.case <= view.trail.moves
       /\ \A i \in DOMAIN view.rows : view.audit[i] <= view.trail.events[i]

SessionKnows(x) ==
  /\ ReadsInOrder(x)
  /\ x.kind = "match" => MatchKnows(x)
  /\ x.kind \in {"page", "report"} => ReaderKnows(x.view)

WorkspaceInv ==
  /\ TypeOK /\ RulesAreNumbered /\ RowsFollowTheLedger /\ ReferenceIsEarliest
  /\ \A s \in Sessions : SessionKnows(session[s])
  /\ AssessmentsFitTheirNotices
=============================================================================

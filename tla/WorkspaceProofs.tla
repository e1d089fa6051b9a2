---------------------------- MODULE WorkspaceProofs ----------------------------
(***************************************************************************)
(* For any number of sessions, companies and attachments, and any bounds:  *)
(* unflagged assessments are of one state of the workspace and fit what    *)
(* their notices still say, accepted reviews come from a page that showed  *)
(* the last one, and reports are explained by their trails.  WorkspaceInv  *)
(* is the inductive invariant.                                             *)
(***************************************************************************)
EXTENDS Workspace, SequenceTheorems, WellFoundedInduction, TLAPS

-----------------------------------------------------------------------------
(* Sets of numbers.                                                        *)

LEMMA MaxOfBounded ==
  ASSUME NEW S \in SUBSET Nat, S # {}, NEW b \in Nat, \A x \in S : x <= b
  PROVE  Max(S) \in S /\ \A y \in S : y <= Max(S)
<1> DEFINE T == {m \in Nat : \A x \in S : x <= m}
<1>1. PICK m \in T : \A y \in T : ~(<<y, m>> \in OpToRel(<, Nat))
  <2>1. T # {} /\ T \subseteq Nat
    OBVIOUS
  <2>2. QED
    BY <2>1, NatLessThanWellFounded, WFMin
<1>2. \A y \in T : ~(y < m)
  BY <1>1 DEF OpToRel
<1>3. m \in S
  <2>1. SUFFICES ASSUME m \notin S PROVE FALSE
    OBVIOUS
  <2>2. PICK x \in S : TRUE
    OBVIOUS
  <2>3. m # 0
    BY <2>1, <2>2
  <2>4. m - 1 \in T
    BY <2>1, <2>3
  <2>5. QED
    BY <2>4, <1>2
<1>4. QED
  BY <1>3 DEF Max

LEMMA MinIsOne ==
  ASSUME NEW S \in SUBSET Nat, S # {}
  PROVE  Min(S) \in S
<1>1. PICK m \in S : \A y \in S : ~(<<y, m>> \in OpToRel(<, Nat))
  <2>1. S \subseteq Nat
    OBVIOUS
  <2>2. QED
    BY <2>1, NatLessThanWellFounded, WFMin
<1>2. \A y \in S : ~(y < m)
  BY <1>1 DEF OpToRel
<1>3. \A y \in S : m <= y
  BY <1>2
<1>4. QED
  BY <1>3 DEF Min

LEMMA RowTypes ==
  ASSUME TypeOK, NEW i \in DOMAIN assessments
  PROVE  assessments[i] \in RowType /\ i \in Nat /\ i <= Len(assessments)
<1>1. DOMAIN assessments = 1..Len(assessments) /\ Len(assessments) \in Nat
  BY DEF TypeOK
<1>2. assessments[i] \in RowType
  BY <1>1 DEF TypeOK
<1>3. QED
  BY <1>1, <1>2

(* The newest of some assessments is one of them.                          *)
LEMMA NewestIsOne ==
  ASSUME TypeOK, RowsFollowTheLedger,
         NEW I \in SUBSET DOMAIN assessments, I # {}
  PROVE  Newest(I) \in I
<1> DEFINE at(i) == assessments[i].at
           times == {at(i) : i \in I}
           latest == {i \in I : at(i) = Max(times)}
<1>1. DOMAIN assessments = 1..Len(assessments) /\ Len(assessments) \in Nat
  BY DEF TypeOK
<1>2. \A i \in I : at(i) \in Nat /\ at(i) <= matches
  <2>1. TAKE i \in I
  <2>2. assessments[i] \in RowType
    BY RowTypes
  <2>3. QED
    BY <2>2 DEF RowType, RowsFollowTheLedger
<1>3. Max(times) \in times /\ \A t \in times : t <= Max(times)
  <2>1. times \in SUBSET Nat /\ times # {} /\ \A t \in times : t <= matches
    BY <1>2
  <2>2. matches \in Nat
    BY DEF TypeOK
  <2> HIDE DEF times
  <2>3. QED
    BY <2>1, <2>2, MaxOfBounded
<1>4. latest \in SUBSET Nat /\ latest # {} /\ \A i \in latest : i <= Len(assessments)
  <2>1. PICK i \in I : at(i) = Max(times)
    <3> HIDE DEF at
    <3>1. QED
      BY <1>3
  <2> HIDE DEF at, times
  <2>2. QED
    BY <1>1, <2>1
<1>5. Max(latest) \in latest /\ \A i \in latest : i <= Max(latest)
  <2> HIDE DEF latest
  <2>1. QED
    BY <1>1, <1>4, MaxOfBounded
<1> DEFINE m == Max(latest)
<1>6. m \in I /\ at(m) = Max(times) /\ \A i \in I : at(i) = Max(times) => i <= m
  <2> HIDE DEF at, times
  <2>1. QED
    BY <1>5
<1>7. \A i \in I : at(i) <= at(m)
  <2> HIDE DEF at, m
  <2>1. QED
    BY <1>3, <1>6
<1>8. \A i \in I : at(i) \in Nat
  BY <1>2
<1> HIDE DEF m, times, latest
<1>9. \A j \in I : \/ at(j) < at(m)
                   \/ at(j) = at(m) /\ j <= m
  <2> HIDE DEF at
  <2>1. QED
    BY <1>6, <1>7, <1>8
<1>10. QED
  BY <1>6, <1>9 DEF Newest
-----------------------------------------------------------------------------
(* The order of the reads.                                                 *)

Tables == {"program", "rules", "evidence", "case", "rows", "audit", "trail"}

LEMMA ReadsAreTables ==
  /\ Reads("match") = MatchReads /\ MatchReads \in Seq(Tables) /\ Len(MatchReads) = 3
  /\ Reads("page") = ProgramReads /\ ProgramReads \in Seq(Tables) /\ Len(ProgramReads) = 2
  /\ Reads("report") = ReportReads /\ ReportReads \in Seq(Tables) /\ Len(ReportReads) = 4
<1>1. Reads("match") = MatchReads /\ Reads("page") = ProgramReads /\ Reads("report") = ReportReads
  BY DEF Reads
<1>2. MatchReads \in Seq(Tables) /\ Len(MatchReads) = 3
  <2>1. MatchReads \in Seq(Tables)
    BY DEF Tables, MatchReads
  <2>2. DOMAIN MatchReads = 1..3
    BY DEF MatchReads
  <2>3. Len(MatchReads) \in Nat /\ DOMAIN MatchReads = 1..Len(MatchReads)
    BY <2>1, LenProperties
  <2>4. QED
    BY <2>1, <2>2, <2>3
<1>3. ProgramReads \in Seq(Tables) /\ Len(ProgramReads) = 2
  <2>1. ProgramReads \in Seq(Tables)
    BY DEF Tables, ProgramReads
  <2>2. DOMAIN ProgramReads = 1..2
    BY DEF ProgramReads
  <2>3. Len(ProgramReads) \in Nat /\ DOMAIN ProgramReads = 1..Len(ProgramReads)
    BY <2>1, LenProperties
  <2>4. QED
    BY <2>1, <2>2, <2>3
<1>4. ReportReads \in Seq(Tables) /\ Len(ReportReads) = 4
  <2>1. ReportReads \in Seq(Tables)
    BY DEF Tables, ReportReads
  <2>2. DOMAIN ReportReads = 1..4
    BY DEF ReportReads
  <2>3. Len(ReportReads) \in Nat /\ DOMAIN ReportReads = 1..Len(ReportReads)
    BY <2>1, LenProperties
  <2>4. QED
    BY <2>1, <2>2, <2>3
<1>5. QED
  BY <1>1, <1>2, <1>3, <1>4

LEMMA NoViewIsEmpty == DOMAIN NoView = {}
BY DEF NoView

LEMMA FirstStage ==
  ASSUME NEW tables \in Seq(Tables), NEW x, x.left = tables, x.view = NoView
  PROVE  Stage(x, tables)
<1>1. Len(tables) \in Nat /\ SubSeq(tables, 1, Len(tables)) = tables
  BY SubSeqFull
<1>2. 0 \in 0..Len(tables) /\ 1..0 = {}
  BY <1>1
<1>3. x.left = SubSeq(tables, 0 + 1, Len(tables)) /\ DOMAIN x.view = {tables[k] : k \in 1..0}
  BY <1>1, <1>2, NoViewIsEmpty
<1>4. QED
  BY <1>2, <1>3 DEF Stage

(* The next table is the one behind those in view.                         *)
LEMMA StageAdvances ==
  ASSUME NEW tables \in Seq(Tables), NEW x, Stage(x, tables), x.left # <<>>
  PROVE  \E n \in 0..(Len(tables) - 1) :
           /\ Head(x.left) = tables[n + 1]
           /\ DOMAIN x.view = {tables[k] : k \in 1..n}
           /\ \A y : /\ y.left = Tail(x.left)
                     /\ DOMAIN y.view = DOMAIN x.view \cup {Head(x.left)}
                     => Stage(y, tables)
<1>1. PICK n \in 0..Len(tables) :
        /\ x.left = SubSeq(tables, n + 1, Len(tables))
        /\ DOMAIN x.view = {tables[k] : k \in 1..n}
  BY DEF Stage
<1> DEFINE l == Len(tables)
           rest == SubSeq(tables, n + 1, l)
<1>2. l \in Nat /\ n \in Nat /\ n <= l
  OBVIOUS
<1>3. n # l
  <2>1. SUFFICES ASSUME n = l PROVE FALSE
    OBVIOUS
  <2>2. rest = <<>>
    BY <2>1, <1>2, SubSeqEmpty
  <2>3. QED
    BY <2>2, <1>1
<1>4. n + 1 \in 1..l /\ l \in (n + 1)..l /\ n + 1 \in 0..l /\ n \in 0..(l - 1)
  BY <1>2, <1>3
<1>5. Head(rest) = tables[n + 1] /\ Tail(rest) = SubSeq(tables, (n + 1) + 1, l)
  BY <1>4, HeadTailOfSubSeq
<1>6. 1..(n + 1) = 1..n \cup {n + 1}
  BY <1>2
<1>7. ASSUME NEW y, y.left = Tail(x.left), DOMAIN y.view = DOMAIN x.view \cup {Head(x.left)}
      PROVE  Stage(y, tables)
  <2>1. y.left = SubSeq(tables, (n + 1) + 1, Len(tables))
    BY <1>1, <1>5, <1>7
  <2>2. DOMAIN y.view = {tables[k] : k \in 1..(n + 1)}
    BY <1>1, <1>5, <1>6, <1>7
  <2>3. QED
    BY <2>1, <2>2, <1>4 DEF Stage
<1>8. QED
  BY <1>1, <1>4, <1>5, <1>7

LEMMA StageEnds ==
  ASSUME NEW tables \in Seq(Tables), NEW x, Stage(x, tables), x.left = <<>>
  PROVE  DOMAIN x.view = {tables[k] : k \in 1..Len(tables)}
<1>1. PICK n \in 0..Len(tables) :
        /\ x.left = SubSeq(tables, n + 1, Len(tables))
        /\ DOMAIN x.view = {tables[k] : k \in 1..n}
  BY DEF Stage
<1>2. Len(SubSeq(tables, n + 1, Len(tables))) = Len(tables) - n
  BY SubSeqProperties
<1>3. n = Len(tables)
  BY <1>1, <1>2
<1>4. QED
  BY <1>1, <1>3
(* What is in view when a match, a page or a report reads its next table.  *)
LEMMA MatchOrder ==
  ASSUME NEW x, x.kind = "match", ReadsInOrder(x), x.left # <<>>
  PROVE  \/ Head(x.left) = "program" /\ DOMAIN x.view = {}
         \/ Head(x.left) = "rules" /\ DOMAIN x.view = {"program"}
         \/ Head(x.left) = "evidence" /\ DOMAIN x.view = {"program", "rules"}
<1>1. Stage(x, MatchReads) /\ MatchReads \in Seq(Tables) /\ Len(MatchReads) = 3
  BY ReadsAreTables DEF ReadsInOrder
<1>2. PICK n \in 0..2 :
        /\ Head(x.left) = MatchReads[n + 1]
        /\ DOMAIN x.view = {MatchReads[k] : k \in 1..n}
  BY <1>1, StageAdvances
<1>3. MatchReads[1] = "program" /\ MatchReads[2] = "rules" /\ MatchReads[3] = "evidence"
  BY DEF MatchReads
<1>4. CASE n = 0
  BY <1>2, <1>3, <1>4
<1>5. CASE n = 1
  <2>1. 1..1 = {1}
    OBVIOUS
  <2>2. QED
    BY <1>2, <1>3, <1>5, <2>1
<1>6. CASE n = 2
  <2>1. 1..2 = {1, 2}
    OBVIOUS
  <2>2. QED
    BY <1>2, <1>3, <1>6, <2>1
<1>7. n = 0 \/ n = 1 \/ n = 2
  OBVIOUS
<1>8. QED
  BY <1>4, <1>5, <1>6, <1>7

LEMMA PageOrder ==
  ASSUME NEW x, x.kind = "page", ReadsInOrder(x), x.left # <<>>
  PROVE  \/ Head(x.left) = "rows" /\ DOMAIN x.view = {}
         \/ Head(x.left) = "audit" /\ DOMAIN x.view = {"rows"}
<1>1. Stage(x, ProgramReads) /\ ProgramReads \in Seq(Tables) /\ Len(ProgramReads) = 2
  BY ReadsAreTables DEF ReadsInOrder
<1>2. PICK n \in 0..1 :
        /\ Head(x.left) = ProgramReads[n + 1]
        /\ DOMAIN x.view = {ProgramReads[k] : k \in 1..n}
  BY <1>1, StageAdvances
<1>3. ProgramReads[1] = "rows" /\ ProgramReads[2] = "audit"
  BY DEF ProgramReads
<1>4. CASE n = 0
  BY <1>2, <1>3, <1>4
<1>5. CASE n = 1
  <2>1. 1..1 = {1}
    OBVIOUS
  <2>2. QED
    BY <1>2, <1>3, <1>5, <2>1
<1>6. n = 0 \/ n = 1
  OBVIOUS
<1>7. QED
  BY <1>4, <1>5, <1>6

LEMMA ReportOrder ==
  ASSUME NEW x, x.kind = "report", ReadsInOrder(x), x.left # <<>>
  PROVE  \/ Head(x.left) = "case" /\ DOMAIN x.view = {}
         \/ Head(x.left) = "rows" /\ DOMAIN x.view = {"case"}
         \/ Head(x.left) = "audit" /\ DOMAIN x.view = {"case", "rows"}
         \/ Head(x.left) = "trail" /\ DOMAIN x.view = {"case", "rows", "audit"}
<1>1. Stage(x, ReportReads) /\ ReportReads \in Seq(Tables) /\ Len(ReportReads) = 4
  BY ReadsAreTables DEF ReadsInOrder
<1>2. PICK n \in 0..3 :
        /\ Head(x.left) = ReportReads[n + 1]
        /\ DOMAIN x.view = {ReportReads[k] : k \in 1..n}
  BY <1>1, StageAdvances
<1>3. /\ ReportReads[1] = "case" /\ ReportReads[2] = "rows"
      /\ ReportReads[3] = "audit" /\ ReportReads[4] = "trail"
  BY DEF ReportReads
<1>4. CASE n = 0
  BY <1>2, <1>3, <1>4
<1>5. CASE n = 1
  <2>1. 1..1 = {1}
    OBVIOUS
  <2>2. QED
    BY <1>2, <1>3, <1>5, <2>1
<1>6. CASE n = 2
  <2>1. 1..2 = {1, 2}
    OBVIOUS
  <2>2. QED
    BY <1>2, <1>3, <1>6, <2>1
<1>7. CASE n = 3
  <2>1. 1..3 = {1, 2, 3}
    OBVIOUS
  <2>2. QED
    BY <1>2, <1>3, <1>7, <2>1
<1>8. n = 0 \/ n = 1 \/ n = 2 \/ n = 3
  OBVIOUS
<1>9. QED
  BY <1>4, <1>5, <1>6, <1>7, <1>8

(* A match that has read everything has program, rules and evidence; a     *)
(* page has rows and reviews; a report all of it.                          *)
LEMMA AllInView ==
  ASSUME NEW x, ReadsInOrder(x), x.left = <<>>
  PROVE  /\ x.kind = "match" => DOMAIN x.view = {"program", "rules", "evidence"}
         /\ x.kind = "page" => DOMAIN x.view = {"rows", "audit"}
         /\ x.kind = "report" => DOMAIN x.view = {"case", "rows", "audit", "trail"}
<1>1. 1..3 = {1, 2, 3} /\ 1..2 = {1, 2} /\ 1..4 = {1, 2, 3, 4}
  OBVIOUS
<1>2. ASSUME x.kind = "match" PROVE DOMAIN x.view = {"program", "rules", "evidence"}
  <2>1. DOMAIN x.view = {MatchReads[k] : k \in 1..3}
    BY <1>2, ReadsAreTables, StageEnds DEF ReadsInOrder
  <2>2. MatchReads[1] = "program" /\ MatchReads[2] = "rules" /\ MatchReads[3] = "evidence"
    BY DEF MatchReads
  <2>3. QED
    BY <1>1, <2>1, <2>2
<1>3. ASSUME x.kind = "page" PROVE DOMAIN x.view = {"rows", "audit"}
  <2>1. DOMAIN x.view = {ProgramReads[k] : k \in 1..2}
    BY <1>3, ReadsAreTables, StageEnds DEF ReadsInOrder
  <2>2. ProgramReads[1] = "rows" /\ ProgramReads[2] = "audit"
    BY DEF ProgramReads
  <2>3. QED
    BY <1>1, <2>1, <2>2
<1>4. ASSUME x.kind = "report" PROVE DOMAIN x.view = {"case", "rows", "audit", "trail"}
  <2>1. DOMAIN x.view = {ReportReads[k] : k \in 1..4}
    BY <1>4, ReadsAreTables, StageEnds DEF ReadsInOrder
  <2>2. /\ ReportReads[1] = "case" /\ ReportReads[2] = "rows"
        /\ ReportReads[3] = "audit" /\ ReportReads[4] = "trail"
    BY DEF ReportReads
  <2>3. QED
    BY <1>1, <2>1, <2>2
<1>5. QED
  BY <1>2, <1>3, <1>4

-----------------------------------------------------------------------------
(* The steps of a session.                                                 *)

(* Another session keeps what it was.                                      *)
LEMMA OthersStay ==
  ASSUME TypeOK, NEW s \in Sessions, NEW e, session' = [session EXCEPT ![s] = e]
  PROVE  /\ DOMAIN session' = Sessions /\ session'[s] = e
         /\ \A t \in Sessions : t # s => session'[t] = session[t]
BY DEF TypeOK

LEMMA IdleIsFine ==
  /\ Idle.kind = "idle" /\ Idle.profiles \in Seq(Range(Companies))
  /\ Idle.at = 0 /\ Idle.disturbed = FALSE /\ ReadsInOrder(Idle)
<1>1. Idle.kind = "idle" /\ Idle.profiles = <<>> /\ Idle.at = 0
      /\ Idle.disturbed = FALSE /\ Idle.left = <<>> /\ Idle.view = NoView
  BY DEF Idle
<1>2. QED
  BY <1>1, EmptySeq DEF ReadsInOrder

HasBegun(x, kind, profiles, at) ==
  /\ DOMAIN x = DOMAIN Idle
  /\ x.kind = kind /\ x.profiles = profiles /\ x.at = at
  /\ x.disturbed = FALSE /\ x.view = NoView /\ ReadsInOrder(x)

LEMMA BegunIsFine ==
  ASSUME NEW kind \in {"match", "page", "report"}, NEW profiles, NEW at
  PROVE  HasBegun(Begun(kind, profiles, at), kind, profiles, at)
<1>1. PICK x : x = Begun(kind, profiles, at)
  OBVIOUS
<1>2. /\ DOMAIN x = DOMAIN Idle
      /\ x.kind = kind /\ x.profiles = profiles /\ x.at = at
      /\ x.disturbed = FALSE /\ x.view = NoView /\ x.left = Reads(kind)
  BY <1>1 DEF Begun, Idle
<1>3. Reads(kind) \in Seq(Tables)
  BY ReadsAreTables
<1>4. Stage(x, Reads(x.kind))
  BY <1>2, <1>3, FirstStage
<1>5. ReadsInOrder(x)
  BY <1>2, <1>4 DEF ReadsInOrder
<1>6. HasBegun(x, kind, profiles, at)
  BY <1>2, <1>5 DEF HasBegun
<1>7. QED
  BY <1>1, <1>6

-----------------------------------------------------------------------------
(* What a step of somebody else leaves of the knowledge of a session.      *)

(* Assessments, reviews and moves come in; no status turns to reviewed     *)
(* without a new revision.                                                 *)
LedgerGrows ==
  /\ moves <= moves'
  /\ \A i \in DOMAIN assessments :
       /\ i \in DOMAIN assessments'
       /\ assessments[i].revision <= assessments'[i].revision
       /\ assessments[i].events <= assessments'[i].events
       /\ (assessments'[i].revision = assessments[i].revision
           /\ assessments'[i].status = "reviewed") => assessments[i].status = "reviewed"

(* The rules of the version stay, others come with a later document.       *)
RulesGrow ==
  /\ current' = current /\ reference' = reference /\ parses <= parses'
  /\ rules \subseteq rules'
  /\ \A r \in rules' : r \in rules \/ r.parse = parses + 1

LEMMA ReaderKeeps ==
  ASSUME TypeOK, TypeOK', LedgerGrows, NEW s \in Sessions,
         session'[s] = session[s], ReaderKnows(session[s].view)
  PROVE  ReaderKnows(session[s].view)'
<1> DEFINE v == session[s].view
<1>1. /\ moves \in Nat /\ moves' \in Nat
      /\ \A i \in DOMAIN assessments :
           assessments[i].revision \in Nat /\ assessments[i].events \in Nat
      /\ \A i \in DOMAIN assessments' :
           assessments'[i].revision \in Nat /\ assessments'[i].events \in Nat
  <2>1. moves \in Nat /\ moves' \in Nat
    BY DEF TypeOK
  <2>2. ASSUME NEW i \in DOMAIN assessments
        PROVE  assessments[i].revision \in Nat /\ assessments[i].events \in Nat
    BY <2>2, RowTypes DEF RowType
  <2>3. ASSUME NEW i \in DOMAIN assessments'
        PROVE  assessments'[i].revision \in Nat /\ assessments'[i].events \in Nat
    <3>1. assessments' \in Seq(RowType)
      BY DEF TypeOK
    <3>2. assessments'[i] \in RowType
      BY <2>3, <3>1
    <3>3. QED
      BY <3>2 DEF RowType
  <2>4. QED
    BY <2>1, <2>2, <2>3
<1>2. ASSUME "rows" \in DOMAIN v, NEW i \in DOMAIN v.rows
      PROVE  /\ i \in DOMAIN assessments'
             /\ v.rows[i].revision \in 0..assessments'[i].revision
             /\ v.rows[i].revision = 0 => v.rows[i].status = "review_required"
             /\ v.rows[i].revision = assessments'[i].revision
                /\ assessments'[i].status = "reviewed" => v.rows[i].status = "reviewed"
  <2>1. /\ i \in DOMAIN assessments
        /\ v.rows[i].revision \in 0..assessments[i].revision
        /\ v.rows[i].revision = 0 => v.rows[i].status = "review_required"
        /\ v.rows[i].revision = assessments[i].revision
           /\ assessments[i].status = "reviewed" => v.rows[i].status = "reviewed"
    BY <1>2 DEF ReaderKnows, RowsWereReal
  <2>2. QED
    BY <2>1, <1>1 DEF LedgerGrows
<1>3. ASSUME "audit" \in DOMAIN v, NEW i \in DOMAIN v.audit
      PROVE  v.audit[i] \in v.rows[i].revision..assessments'[i].events
  <2>1. v.audit[i] \in v.rows[i].revision..assessments[i].events
        /\ DOMAIN v.audit = DOMAIN v.rows /\ "rows" \in DOMAIN v
    BY <1>3 DEF ReaderKnows
  <2>2. i \in DOMAIN assessments /\ v.rows[i].revision \in 0..assessments[i].revision
    BY <2>1, <1>3 DEF ReaderKnows, RowsWereReal
  <2>3. QED
    BY <2>1, <2>2, <1>1 DEF LedgerGrows
<1>4. "case" \in DOMAIN v => v.case \in 0..moves'
  BY <1>1 DEF ReaderKnows, LedgerGrows
<1>5. QED
  BY <1>2, <1>3, <1>4 DEF ReaderKnows, RowsWereReal

LEMMA MatchKeeps ==
  ASSUME TypeOK, TypeOK', RulesAreNumbered, RulesGrow, NEW s \in Sessions,
         session'[s] = session[s], MatchKnows(session[s])
  PROVE  MatchKnows(session[s])'
<1> DEFINE x == session[s]
<1>1. parses \in Nat /\ parses' \in Nat
  BY DEF TypeOK
<1>2. ASSUME "rules" \in DOMAIN x.view
      PROVE  {r \in CurrentRules' : r.parse <= x.view.rules.seen}
               = {r \in CurrentRules : r.parse <= x.view.rules.seen}
  <2>1. x.view.rules.seen \in 0..parses
    BY <1>2 DEF MatchKnows
  <2>2. ASSUME NEW r \in rules', r.parse <= x.view.rules.seen PROVE r \in rules
    BY <2>1, <2>2, <1>1 DEF RulesGrow
  <2>3. QED
    BY <2>2 DEF CurrentRules, RulesGrow
<1>3. "rules" \in DOMAIN x.view => x.view.rules.seen \in 0..parses'
  BY <1>1 DEF MatchKnows, RulesGrow
<1>4. QED
  BY <1>2, <1>3 DEF MatchKnows, RulesGrow
LEMMA RulesStill ==
  ASSUME TypeOK, UNCHANGED <<notices, rules, parses>>
  PROVE  RulesGrow
BY DEF TypeOK, RulesGrow, notices

LEMMA LedgerStill ==
  ASSUME TypeOK, UNCHANGED assessments, moves <= moves'
  PROVE  LedgerGrows
<1>1. ASSUME NEW i \in DOMAIN assessments
      PROVE  assessments[i].revision \in Nat /\ assessments[i].events \in Nat
  BY <1>1, RowTypes DEF RowType
<1>2. QED
  BY <1>1 DEF LedgerGrows

LEMMA SessionKeeps ==
  ASSUME TypeOK, TypeOK', RulesAreNumbered, LedgerGrows, RulesGrow,
         NEW s \in Sessions, session'[s] = session[s], SessionKnows(session[s])
  PROVE  SessionKnows(session[s])'
<1>1. ReadsInOrder(session[s])'
  BY DEF SessionKnows, ReadsInOrder, Stage
<1>2. (session[s].kind = "match" => MatchKnows(session[s]))'
  <2>1. CASE session[s].kind = "match"
    <3>1. MatchKnows(session[s])
      BY <2>1 DEF SessionKnows
    <3>2. QED
      BY <3>1, MatchKeeps
  <2>2. QED
    BY <2>1
<1>3. (session[s].kind \in {"page", "report"} => ReaderKnows(session[s].view))'
  <2>1. CASE session[s].kind \in {"page", "report"}
    <3>1. ReaderKnows(session[s].view)
      BY <2>1 DEF SessionKnows
    <3>2. QED
      BY <3>1, ReaderKeeps
  <2>2. QED
    BY <2>1
<1>4. QED
  BY <1>1, <1>2, <1>3 DEF SessionKnows

(***************************************************************************)
(* A step of a session that writes nothing: all there is to show is what   *)
(* the session knows then.                                                 *)
(***************************************************************************)
LEMMA ReadingStep ==
  ASSUME WorkspaceInv, UNCHANGED <<notices, rules, parses, assessments, moves>>,
         matches' \in Nat, matches <= matches',
         NEW s \in Sessions, NEW e, session' = [session EXCEPT ![s] = e],
         DOMAIN e = DOMAIN Idle, e.profiles \in Seq(Range(Companies)),
         e.at \in 0..matches', e.disturbed \in BOOLEAN,
         SessionKnows(e)
  PROVE  WorkspaceInv'
<1>1. TypeOK /\ RulesAreNumbered /\ RowsFollowTheLedger
      /\ ReferenceIsEarliest /\ AssessmentsFitTheirNotices
      /\ \A t \in Sessions : SessionKnows(session[t])
  BY DEF WorkspaceInv
<1>2. /\ DOMAIN session' = Sessions /\ session'[s] = e
      /\ \A t \in Sessions : t # s => session'[t] = session[t]
  BY <1>1, OthersStay
<1>3. TypeOK'
  <2>1. ASSUME NEW t \in Sessions
        PROVE  /\ DOMAIN session'[t] = DOMAIN Idle
               /\ session'[t].profiles \in Seq(Range(Companies))
               /\ session'[t].at \in 0..matches'
               /\ session'[t].disturbed \in BOOLEAN
    <3>1. CASE t = s
      BY <3>1, <1>2
    <3>2. CASE t # s
      <4>1. session'[t] = session[t]
        BY <3>2, <1>2
      <4>2. QED
        BY <4>1, <1>1 DEF TypeOK
    <3>3. QED
      BY <3>1, <3>2
  <2>2. QED
    BY <1>1, <1>2, <2>1 DEF TypeOK, notices
<1>4. RulesAreNumbered'
  BY <1>1 DEF RulesAreNumbered
<1>5. RowsFollowTheLedger'
  <2>1. ASSUME NEW i \in DOMAIN assessments
        PROVE  /\ assessments[i].at <= matches'
               /\ assessments[i].seen <= parses
               /\ assessments[i].events = assessments[i].revision
               /\ assessments[i].revision = 0 => assessments[i].status = "review_required"
    <3>1. assessments[i].at \in Nat /\ matches \in Nat
      BY <1>1, RowTypes DEF RowType, TypeOK
    <3>2. QED
      BY <1>1, <3>1 DEF RowsFollowTheLedger
  <2>2. QED
    BY <2>1 DEF RowsFollowTheLedger
<1>6. ReferenceIsEarliest' /\ AssessmentsFitTheirNotices'
  BY <1>1 DEF AssessmentsFitTheirNotices, IsOfOneState,
                    IsStillSaid, Comparable, ReferenceIsEarliest, notices, CurrentRules
<1>7. ASSUME NEW t \in Sessions PROVE SessionKnows(session[t])'
  <2>1. CASE t = s
    <3>1. UNCHANGED <<current, reference, rules, parses, assessments, moves>>
      BY DEF notices
    <3>2. CurrentRules' = CurrentRules
      BY <3>1 DEF CurrentRules
    <3>3. session'[t] = e /\ SessionKnows(e)
      BY <2>1, <1>2
    <3>4. ReadsInOrder(session[t])'
      <4>1. ReadsInOrder(e)
        BY <3>3 DEF SessionKnows
      <4>2. CASE e.kind = "idle" /\ e.left = <<>> /\ e.view = NoView
        BY <3>3, <4>2 DEF ReadsInOrder
      <4>3. CASE e.kind \in {"match", "page", "report"} /\ Stage(e, Reads(e.kind))
        <5>1. PICK tables : tables = Reads(e.kind)
          OBVIOUS
        <5>2. PICK n \in 0..Len(tables) :
                /\ e.left = SubSeq(tables, n + 1, Len(tables))
                /\ DOMAIN e.view = {tables[k] : k \in 1..n}
          BY <4>3, <5>1 DEF Stage
        <5> DEFINE read == {tables[k] : k \in 1..n}
                   rest == SubSeq(tables, n + 1, Len(tables))
        <5>3. session'[t].left = rest /\ DOMAIN session'[t].view = read
          <6> HIDE DEF read, rest
          <6>1. e.left = rest /\ DOMAIN e.view = read
            BY <5>2 DEF read, rest
          <6>2. QED
            BY <3>3, <6>1
        <5>4. Stage(session[t], tables)'
          BY <5>3 DEF Stage
        <5>5. QED
          BY <3>3, <4>3, <5>1, <5>4 DEF ReadsInOrder
      <4>4. QED
        BY <4>1, <4>2, <4>3 DEF ReadsInOrder
    <3>5. (session[t].kind = "match" => MatchKnows(session[t]))'
      BY <3>1, <3>2, <3>3 DEF SessionKnows, MatchKnows
    <3>6. (session[t].kind \in {"page", "report"} => ReaderKnows(session[t].view))'
      BY <3>1, <3>3 DEF SessionKnows, ReaderKnows, RowsWereReal
    <3>7. QED
      BY <3>4, <3>5, <3>6 DEF SessionKnows
  <2>2. CASE t # s
    <3>1. RulesGrow /\ LedgerGrows
      <4>1. moves <= moves'
        BY <1>1 DEF TypeOK
      <4>2. QED
        BY <1>1, <4>1, RulesStill, LedgerStill
    <3>2. session'[t] = session[t]
      BY <2>2, <1>2
    <3>3. QED
      BY <1>1, <1>3, <3>1, <3>2, SessionKeeps
  <2>3. QED
    BY <2>1, <2>2
<1>8. QED
  BY <1>3, <1>4, <1>5, <1>6, <1>7 DEF WorkspaceInv

(* A session that has just begun knows nothing yet.                        *)
LEMMA BegunKnows ==
  ASSUME NEW x, NEW kind, NEW profiles, NEW at, HasBegun(x, kind, profiles, at)
  PROVE  SessionKnows(x)
<1>1. x.view = NoView /\ ReadsInOrder(x)
  BY DEF HasBegun
<1>2. DOMAIN x.view = {}
  BY <1>1, NoViewIsEmpty
<1>3. QED
  BY <1>1, <1>2 DEF SessionKnows, MatchKnows, ReaderKnows

LEMMA IdleKnows == SessionKnows(Idle)
BY IdleIsFine DEF SessionKnows

LEMMA CompaniesAreThere ==
  /\ Companies \in Seq(Range(Companies))
  /\ \A i \in DOMAIN Companies : <<Companies[i]>> \in Seq(Range(Companies))
  /\ 1 \in DOMAIN Companies
<1>1. Companies \in Seq(Range(Companies)) /\ Companies # <<>>
  BY WorkspaceAssumption
<1>2. Len(Companies) \in Nat /\ DOMAIN Companies = 1..Len(Companies) /\ Len(Companies) # 0
  BY <1>1, EmptySeq, LenProperties
<1>3. ASSUME NEW i \in DOMAIN Companies PROVE <<Companies[i]>> \in Seq(Range(Companies))
  BY <1>3 DEF Range
<1>4. QED
  BY <1>1, <1>2, <1>3

LEMMA BeginningStep ==
  ASSUME WorkspaceInv, UNCHANGED <<notices, rules, parses, assessments, moves>>,
         matches' \in Nat, matches <= matches', NEW s \in Sessions,
         NEW kind \in {"match", "page", "report"},
         NEW profiles \in Seq(Range(Companies)), NEW at \in 0..matches',
         session' = [session EXCEPT ![s] = Begun(kind, profiles, at)]
  PROVE  WorkspaceInv'
<1>1. PICK e : e = Begun(kind, profiles, at)
  OBVIOUS
<1>2. HasBegun(e, kind, profiles, at)
  BY <1>1, BegunIsFine
<1>3. SessionKnows(e)
  BY <1>2, BegunKnows
<1>4. e.at \in 0..matches' /\ e.profiles \in Seq(Range(Companies))
      /\ DOMAIN e = DOMAIN Idle
  BY <1>2 DEF HasBegun
<1>5. e.disturbed \in BOOLEAN
  BY <1>2, Zenon DEF HasBegun
<1>6. session' = [session EXCEPT ![s] = e]
  BY <1>1
<1>7. QED
  BY <1>3, <1>4, <1>5, <1>6, ReadingStep

LEMMA StartMatchStep ==
  ASSUME WorkspaceInv, NEW s \in Sessions, NEW profiles \in Seq(Range(Companies)),
         StartMatch(s, profiles)
  PROVE  WorkspaceInv'
<1>1. matches \in Nat
  BY DEF WorkspaceInv, TypeOK
<1>2. matches' \in Nat /\ matches <= matches' /\ matches + 1 \in 0..matches'
  BY <1>1 DEF StartMatch
<1>3. QED
  BY <1>2, BeginningStep DEF StartMatch

LEMMA OpenStep ==
  ASSUME WorkspaceInv, NEW s \in Sessions, OpenPage(s) \/ OpenReport(s)
  PROVE  WorkspaceInv'
<1>1. matches \in Nat
  BY DEF WorkspaceInv, TypeOK
<1>2. PICK kind \in {"page", "report"}, profiles \in Seq(Range(Companies)) :
        session' = [session EXCEPT ![s] = Begun(kind, profiles, 0)]
  BY CompaniesAreThere DEF OpenPage, OpenReport
<1>3. UNCHANGED <<notices, rules, parses, assessments, moves, matches>>
  BY DEF OpenPage, OpenReport
<1>4. matches' \in Nat /\ matches <= matches' /\ 0 \in 0..matches'
  BY <1>1, <1>3
<1>5. QED
  BY <1>2, <1>3, <1>4, BeginningStep

LEMMA IdleAgain ==
  ASSUME WorkspaceInv, NEW s \in Sessions, session' = [session EXCEPT ![s] = Idle],
         UNCHANGED <<notices, rules, parses, assessments, moves, matches>>
  PROVE  WorkspaceInv'
<1>1. matches \in Nat
  BY DEF WorkspaceInv, TypeOK
<1>2. matches' \in Nat /\ matches <= matches' /\ Idle.at \in 0..matches'
  BY <1>1, IdleIsFine
<1>3. Idle.disturbed \in BOOLEAN /\ Idle.profiles \in Seq(Range(Companies))
  BY IdleIsFine, Zenon
<1>4. QED
  BY <1>2, <1>3, IdleKnows, ReadingStep

-----------------------------------------------------------------------------
(* One SELECT of a session.                                                *)

LEMMA WhatIsSelected ==
  ASSUME NEW x
  PROVE  /\ Selected(x, "program") = [reference |-> reference, notices |-> current]
         /\ Selected(x, "rules") = [found |-> CurrentRules, seen |-> parses]
         /\ Selected(x, "evidence") = EvidenceOf({r.id : r \in x.view.rules.found})
         /\ Selected(x, "rows") = RowsOf(IF x.kind = "page" THEN LatestRows
                                         ELSE OfProfile(x.profiles[1]))
         /\ Selected(x, "audit") = EventsOf(x.view)
         /\ Selected(x, "case") = moves
         /\ Selected(x, "trail") = [moves |-> moves, events |-> EventsOf(x.view)]
BY DEF Selected

LEMMA LatestAreRows == ASSUME TypeOK, RowsFollowTheLedger PROVE LatestRows \subseteq DOMAIN assessments
<1>1. ASSUME NEW i \in DOMAIN assessments
      PROVE  Newest(OfProfile(assessments[i].profile)) \in DOMAIN assessments
  <2> DEFINE I == OfProfile(assessments[i].profile)
  <2>1. I \in SUBSET DOMAIN assessments /\ i \in I
    BY DEF OfProfile
  <2> HIDE DEF I
  <2>2. Newest(I) \in I
    BY <2>1, NewestIsOne
  <2>3. QED
    BY <2>1, <2>2 DEF I
<1>2. QED
  BY <1>1 DEF LatestRows

(* What is read is real when it is read.                                   *)
LEMMA RowsAreReal ==
  ASSUME TypeOK, RowsFollowTheLedger, NEW I \in SUBSET DOMAIN assessments
  PROVE  RowsWereReal(RowsOf(I))
<1>1. ASSUME NEW i \in I
      PROVE  /\ assessments[i].revision \in Nat
             /\ assessments[i].revision = 0 => assessments[i].status = "review_required"
  BY RowTypes DEF RowType, RowsFollowTheLedger
<1>2. DOMAIN RowsOf(I) = I /\ \A i \in I : RowsOf(I)[i].revision = assessments[i].revision
                                        /\ RowsOf(I)[i].status = assessments[i].status
  BY DEF RowsOf
<1>3. QED
  BY <1>1, <1>2 DEF RowsWereReal

(* What a match has read stays what is there as it reads on.               *)
LEMMA MatchReadsOn ==
  ASSUME TypeOK, RulesAreNumbered, NEW x, x.kind = "match", x.disturbed \in BOOLEAN,
         ReadsInOrder(x), x.left # <<>>, MatchKnows(x),
         NEW e, e.kind = "match", e.disturbed = x.disturbed,
         e.view = Extended(x.view, Head(x.left), Selected(x, Head(x.left)))
  PROVE  MatchKnows(e)
<1> DEFINE t == Head(x.left)
<1>1. /\ DOMAIN e.view = DOMAIN x.view \cup {t} /\ e.view[t] = Selected(x, t)
      /\ \A u \in DOMAIN x.view : u # t => e.view[u] = x.view[u]
  BY DEF Extended
<1>2. \/ t = "program" /\ DOMAIN x.view = {}
      \/ t = "rules" /\ DOMAIN x.view = {"program"}
      \/ t = "evidence" /\ DOMAIN x.view = {"program", "rules"}
  BY MatchOrder
<1>3. CASE t = "program" /\ DOMAIN x.view = {}
  <2>1. DOMAIN e.view = {"program"}
        /\ e.view.program = [reference |-> reference, notices |-> current]
    BY <1>1, <1>3, WhatIsSelected
  <2>2. reference \in Nat /\ current \subseteq Notices
    BY DEF TypeOK
  <2>3. QED
    BY <2>1, <2>2 DEF MatchKnows
<1>4. CASE t = "rules" /\ DOMAIN x.view = {"program"}
  <2>1. DOMAIN e.view = {"program", "rules"} /\ e.view.program = x.view.program
        /\ e.view.rules = [found |-> CurrentRules, seen |-> parses]
    BY <1>1, <1>4, WhatIsSelected
  <2>2. /\ e.view.program.reference \in Nat /\ e.view.program.notices \subseteq Notices
        /\ ~x.disturbed => e.view.program.reference = reference
                           /\ e.view.program.notices = current
    BY <2>1, <1>4 DEF MatchKnows
  <2>3. parses \in 0..parses /\ CurrentRules \subseteq RuleType
    BY DEF TypeOK, CurrentRules
  <2>4. CurrentRules = {r \in CurrentRules : r.parse <= parses}
    BY DEF CurrentRules, RulesAreNumbered
  <2>5. e.view.rules.found = CurrentRules /\ e.view.rules.seen = parses
    BY <2>1
  <2>6. QED
    BY <2>1, <2>2, <2>3, <2>4, <2>5 DEF MatchKnows
<1>5. CASE t = "evidence" /\ DOMAIN x.view = {"program", "rules"}
  <2> DEFINE found == x.view.rules.found
  <2>1. DOMAIN e.view = {"program", "rules", "evidence"} /\ e.view.program = x.view.program
        /\ e.view.rules = x.view.rules /\ e.view.evidence = EvidenceOf({r.id : r \in found})
    BY <1>1, <1>5, WhatIsSelected
  <2>2. /\ e.view.program.reference \in Nat /\ e.view.program.notices \subseteq Notices
        /\ ~x.disturbed => e.view.program.reference = reference
                           /\ e.view.program.notices = current
    BY <2>1, <1>5 DEF MatchKnows
  <2>3. /\ e.view.rules.seen \in 0..parses /\ e.view.rules.found \subseteq RuleType
        /\ ~x.disturbed =>
             e.view.rules.found = {r \in CurrentRules : r.parse <= e.view.rules.seen}
    BY <2>1, <1>5 DEF MatchKnows
  <2>4. EvidenceOf({r.id : r \in found}) \subseteq RuleType
    BY DEF EvidenceOf, TypeOK
  <2>5. ASSUME found \subseteq rules PROVE EvidenceOf({r.id : r \in found}) = found
    BY <2>5 DEF EvidenceOf, RulesAreNumbered
  <2>6. ~x.disturbed => found \subseteq rules
    BY <2>1, <2>3 DEF CurrentRules
  <2>7. ~x.disturbed => e.view.evidence = e.view.rules.found
    BY <2>1, <2>5, <2>6
  <2>8. QED
    BY <2>1, <2>2, <2>3, <2>4, <2>7 DEF MatchKnows
<1>6. QED
  BY <1>2, <1>3, <1>4, <1>5

(* Reviews of rows that were read before are no fewer than those show.     *)
LEMMA EventsCameAfter ==
  ASSUME TypeOK, RowsFollowTheLedger, NEW view, "rows" \in DOMAIN view, RowsWereReal(view.rows)
  PROVE  /\ DOMAIN EventsOf(view) = DOMAIN view.rows
         /\ \A i \in DOMAIN view.rows :
              /\ EventsOf(view)[i] = assessments[i].events
              /\ assessments[i].events \in Nat
              /\ EventsOf(view)[i] \in view.rows[i].revision..assessments[i].events
<1>1. DOMAIN EventsOf(view) = DOMAIN view.rows
  BY DEF EventsOf
<1>2. ASSUME NEW i \in DOMAIN view.rows
      PROVE  /\ EventsOf(view)[i] = assessments[i].events
             /\ assessments[i].events \in Nat
             /\ EventsOf(view)[i] \in view.rows[i].revision..assessments[i].events
  <2>1. EventsOf(view)[i] = assessments[i].events
    BY DEF EventsOf
  <2>2. i \in DOMAIN assessments /\ view.rows[i].revision \in 0..assessments[i].revision
    BY DEF RowsWereReal
  <2>3. assessments[i].events \in Nat /\ assessments[i].events = assessments[i].revision
    BY <2>2, RowTypes DEF RowType, RowsFollowTheLedger
  <2>4. QED
    BY <2>1, <2>2, <2>3
<1>3. QED
  BY <1>1, <1>2

(* So does what a page or a report has read.                               *)
LEMMA ReaderReadsOn ==
  ASSUME TypeOK, RowsFollowTheLedger, NEW x, x.kind \in {"page", "report"},
         ReadsInOrder(x), x.left # <<>>, ReaderKnows(x.view),
         NEW view, view = Extended(x.view, Head(x.left), Selected(x, Head(x.left)))
  PROVE  ReaderKnows(view)
<1> DEFINE t == Head(x.left)
<1>1. /\ DOMAIN view = DOMAIN x.view \cup {t} /\ view[t] = Selected(x, t)
      /\ \A u \in DOMAIN x.view : u # t => view[u] = x.view[u]
  BY DEF Extended
<1>2. \/ t = "case" /\ DOMAIN x.view = {}
      \/ t = "rows" /\ DOMAIN x.view \in {{}, {"case"}}
      \/ t = "audit" /\ DOMAIN x.view \in {{"rows"}, {"case", "rows"}}
      \/ t = "trail" /\ DOMAIN x.view = {"case", "rows", "audit"}
  BY PageOrder, ReportOrder
<1>3. moves \in Nat
  BY DEF TypeOK
<1>4. ASSUME "rows" \in DOMAIN x.view PROVE RowsWereReal(x.view.rows)
  BY <1>4 DEF ReaderKnows
<1>5. "case" \in DOMAIN x.view => x.view.case \in 0..moves
  BY DEF ReaderKnows
<1>6. CASE t = "case" /\ DOMAIN x.view = {}
  <2>1. DOMAIN view = {"case"} /\ view.case = moves
    BY <1>1, <1>6, WhatIsSelected
  <2>2. QED
    BY <2>1, <1>3 DEF ReaderKnows
<1>7. CASE t = "rows" /\ DOMAIN x.view \in {{}, {"case"}}
  <2>1. PICK I : view.rows = RowsOf(I) /\ I \subseteq DOMAIN assessments
    <3>1. LatestRows \subseteq DOMAIN assessments
      BY LatestAreRows
    <3>2. OfProfile(x.profiles[1]) \subseteq DOMAIN assessments
      BY DEF OfProfile
    <3>3. QED
      BY <1>1, <1>7, <3>1, <3>2, WhatIsSelected
  <2>2. RowsWereReal(view.rows)
    BY <2>1, RowsAreReal
  <2>3. "audit" \notin DOMAIN view /\ "trail" \notin DOMAIN view
        /\ ("case" \in DOMAIN view => view.case \in 0..moves)
    BY <1>1, <1>5, <1>7
  <2>4. QED
    BY <2>2, <2>3 DEF ReaderKnows
<1>8. CASE t = "audit" /\ DOMAIN x.view \in {{"rows"}, {"case", "rows"}}
  <2>1. "rows" \in DOMAIN view /\ view.rows = x.view.rows /\ "rows" \in DOMAIN x.view
        /\ view.audit = EventsOf(x.view)
    BY <1>1, <1>8, WhatIsSelected
  <2>2. "trail" \notin DOMAIN view /\ ("case" \in DOMAIN view => view.case \in 0..moves)
    BY <1>1, <1>5, <1>8
  <2>3. RowsWereReal(view.rows)
    BY <2>1, <1>4
  <2>4. DOMAIN view.audit = DOMAIN view.rows
        /\ \A i \in DOMAIN view.audit : view.audit[i] \in view.rows[i].revision..assessments[i].events
    BY <2>1, <1>4, EventsCameAfter
  <2>5. QED
    BY <2>1, <2>2, <2>3, <2>4 DEF ReaderKnows
<1>9. CASE t = "trail" /\ DOMAIN x.view = {"case", "rows", "audit"}
  <2>1. DOMAIN view = {"case", "rows", "audit", "trail"}
        /\ view.case = x.view.case /\ view.rows = x.view.rows /\ view.audit = x.view.audit
        /\ view.trail = [moves |-> moves, events |-> EventsOf(x.view)]
    BY <1>1, <1>9, WhatIsSelected
  <2>2. view.case \in 0..moves /\ RowsWereReal(view.rows)
    BY <2>1, <1>4, <1>5, <1>9
  <2>3. DOMAIN view.audit = DOMAIN view.rows
        /\ \A i \in DOMAIN view.audit : view.audit[i] \in view.rows[i].revision..assessments[i].events
    BY <2>1, <1>9 DEF ReaderKnows
  <2>4. view.trail.moves = moves /\ view.trail.events = EventsOf(x.view)
    BY <2>1
  <2>5. ASSUME NEW i \in DOMAIN view.rows PROVE view.audit[i] <= view.trail.events[i]
    <3>1. view.trail.events[i] = assessments[i].events
      BY <2>1, <2>4, <1>4, <1>9, EventsCameAfter
    <3>2. view.audit[i] \in view.rows[i].revision..assessments[i].events
      BY <2>3
    <3>3. QED
      BY <3>1, <3>2
  <2>6. view.case <= view.trail.moves
    BY <2>2, <2>4, <1>3
  <2>7. QED
    BY <2>1, <2>2, <2>3, <2>5, <2>6 DEF ReaderKnows
<1>10. QED
  BY <1>2, <1>6, <1>7, <1>8, <1>9

LEMMA SelectStep ==
  ASSUME WorkspaceInv, NEW s \in Sessions, Select(s)
  PROVE  WorkspaceInv'
<1>1. PICK x : x = session[s]
  OBVIOUS
<1> DEFINE t == Head(x.left)
<1>2. PICK e : e = [x EXCEPT !.left = Tail(x.left),
                             !.view = Extended(x.view, t, Selected(x, t))]
  OBVIOUS
<1>3. /\ TypeOK /\ RulesAreNumbered /\ RowsFollowTheLedger /\ SessionKnows(x)
      /\ x.left # <<>>
  BY <1>1 DEF WorkspaceInv, Select
<1>4. /\ DOMAIN x = {"kind", "profiles", "at", "left", "view", "disturbed"}
      /\ DOMAIN session = Sessions /\ x.profiles \in Seq(Range(Companies))
      /\ x.at \in 0..matches /\ x.disturbed \in BOOLEAN /\ matches \in Nat
  BY <1>1, <1>3 DEF TypeOK, Idle
<1>5. /\ DOMAIN e = DOMAIN x /\ e.kind = x.kind /\ e.profiles = x.profiles /\ e.at = x.at
      /\ e.disturbed = x.disturbed /\ e.left = Tail(x.left)
      /\ e.view = Extended(x.view, t, Selected(x, t))
  BY <1>2, <1>4
<1>6. session' = [session EXCEPT ![s] = e]
  BY <1>1, <1>2, <1>4 DEF Select
<1>7. DOMAIN e.view = DOMAIN x.view \cup {t}
  BY <1>5 DEF Extended
<1>8. x.kind \in {"match", "page", "report"} /\ Stage(x, Reads(x.kind))
      /\ Reads(x.kind) \in Seq(Tables)
  BY <1>3, ReadsAreTables DEF SessionKnows, ReadsInOrder
<1>9. ReadsInOrder(e)
  <2>1. \A y : /\ y.left = Tail(x.left)
               /\ DOMAIN y.view = DOMAIN x.view \cup {t}
               => Stage(y, Reads(x.kind))
    BY <1>3, <1>8, StageAdvances
  <2>2. Stage(e, Reads(e.kind))
    BY <2>1, <1>5, <1>7
  <2>3. QED
    BY <2>2, <1>5, <1>8 DEF ReadsInOrder
<1>10. ReadsInOrder(x)
  BY <1>3 DEF SessionKnows
<1>11. e.kind = "match" => MatchKnows(e)
  <2>1. SUFFICES ASSUME x.kind = "match" PROVE MatchKnows(e)
    BY <1>5
  <2>2. MatchKnows(x)
    BY <2>1, <1>3 DEF SessionKnows
  <2>3. QED
    BY <2>1, <2>2, <1>3, <1>4, <1>5, <1>10, MatchReadsOn
<1>12. e.kind \in {"page", "report"} => ReaderKnows(e.view)
  <2>1. SUFFICES ASSUME x.kind \in {"page", "report"} PROVE ReaderKnows(e.view)
    BY <1>5
  <2>2. ReaderKnows(x.view)
    BY <2>1, <1>3 DEF SessionKnows
  <2>3. QED
    BY <2>1, <2>2, <1>3, <1>5, <1>10, ReaderReadsOn
<1>13. SessionKnows(e)
  BY <1>9, <1>11, <1>12 DEF SessionKnows
<1>14. DOMAIN e = DOMAIN Idle /\ e.at \in 0..matches' /\ matches' \in Nat /\ matches <= matches'
       /\ UNCHANGED <<notices, rules, parses, assessments, moves>>
  BY <1>4, <1>5 DEF Idle, Select
<1>15. e.disturbed \in BOOLEAN /\ e.profiles \in Seq(Range(Companies))
  BY <1>4, <1>5, Zenon
<1>16. QED
  BY <1>6, <1>13, <1>14, <1>15, ReadingStep

-----------------------------------------------------------------------------
(* Steps that write.                                                       *)

(* A session that a write leaves alone or ends keeps its type.             *)
LEMMA SessionsKeepTheirType ==
  ASSUME TypeOK, NEW s \in Sessions, session' = [session EXCEPT ![s] = Idle],
         matches' = matches
  PROVE  /\ DOMAIN session' = Sessions
         /\ \A t \in Sessions :
              /\ DOMAIN session'[t] = DOMAIN Idle
              /\ session'[t].profiles \in Seq(Range(Companies))
              /\ session'[t].at \in 0..matches'
              /\ session'[t].disturbed \in BOOLEAN
<1>1. /\ DOMAIN session' = Sessions /\ session'[s] = Idle
      /\ \A t \in Sessions : t # s => session'[t] = session[t]
  BY OthersStay
<1>2. matches \in Nat
  BY DEF TypeOK
<1>3. /\ Idle.profiles \in Seq(Range(Companies)) /\ Idle.at \in 0..matches'
  BY <1>2, IdleIsFine
<1>4. Idle.disturbed \in BOOLEAN
  BY IdleIsFine, Zenon
<1>5. ASSUME NEW t \in Sessions
      PROVE  /\ DOMAIN session'[t] = DOMAIN Idle
             /\ session'[t].profiles \in Seq(Range(Companies))
             /\ session'[t].at \in 0..matches'
             /\ session'[t].disturbed \in BOOLEAN
  <2>1. CASE t = s
    BY <2>1, <1>1, <1>3, <1>4
  <2>2. CASE t # s
    <3>1. session'[t] = session[t]
      BY <2>2, <1>1
    <3>2. QED
      BY <3>1 DEF TypeOK
  <2>3. QED
    BY <2>1, <2>2
<1>6. QED
  BY <1>1, <1>5

LEMMA WritersLeaveKnowledge ==
  ASSUME WorkspaceInv, TypeOK', LedgerGrows, RulesGrow, NEW s \in Sessions,
         session' = [session EXCEPT ![s] = Idle]
  PROVE  \A t \in Sessions : SessionKnows(session[t])'
<1>1. TypeOK /\ RulesAreNumbered /\ \A t \in Sessions : SessionKnows(session[t])
  BY DEF WorkspaceInv
<1>2. /\ session'[s] = Idle
      /\ \A t \in Sessions : t # s => session'[t] = session[t]
  BY <1>1, OthersStay
<1>3. ASSUME NEW t \in Sessions PROVE SessionKnows(session[t])'
  <2>1. CASE t = s
    <3>1. session'[t].kind = "idle" /\ session'[t].left = <<>> /\ session'[t].view = NoView
      BY <2>1, <1>2 DEF Idle
    <3>2. QED
      BY <3>1 DEF SessionKnows, ReadsInOrder
  <2>2. CASE t # s
    <3>1. session'[t] = session[t]
      BY <2>2, <1>2
    <3>2. QED
      BY <1>1, <3>1, SessionKeeps
  <2>3. QED
    BY <2>1, <2>2
<1>4. QED
  BY <1>3

(* A change that disturbs the matches it meets leaves every view as it is. *)
LEMMA DisturbedKnow ==
  ASSUME TypeOK, TypeOK', LedgerGrows, parses <= parses', session' = Disturbed,
         NEW s \in Sessions, SessionKnows(session[s])
  PROVE  SessionKnows(session[s])'
<1>1. DOMAIN session[s] = {"kind", "profiles", "at", "left", "view", "disturbed"}
  BY DEF TypeOK, Idle
<1>2. /\ session'[s].kind = session[s].kind /\ session'[s].left = session[s].left
      /\ session'[s].view = session[s].view
      /\ session[s].kind = "match" /\ session[s].view # NoView => session'[s].disturbed = TRUE
      /\ session[s].kind # "match" => session'[s] = session[s]
  BY <1>1 DEF Disturbed
<1>3. ReadsInOrder(session[s])'
  BY <1>2 DEF SessionKnows, ReadsInOrder, Stage
<1>4. (session[s].kind = "match" => MatchKnows(session[s]))'
  <2>1. CASE session[s].kind = "match" /\ session[s].view # NoView
    <3>1. MatchKnows(session[s]) /\ session'[s].disturbed = TRUE
      BY <2>1, <1>2 DEF SessionKnows
    <3>2. parses \in Nat /\ parses' \in Nat
      BY DEF TypeOK
    <3>3. QED
      BY <3>1, <3>2, <1>2 DEF MatchKnows
  <2>2. CASE session[s].view = NoView
    BY <2>2, <1>2, NoViewIsEmpty DEF MatchKnows
  <2>3. QED
    BY <2>1, <2>2, <1>2
<1>5. (session[s].kind \in {"page", "report"} => ReaderKnows(session[s].view))'
  <2>1. CASE session[s].kind \in {"page", "report"}
    <3>1. ReaderKnows(session[s].view) /\ session'[s] = session[s]
      BY <2>1, <1>2 DEF SessionKnows
    <3>2. QED
      BY <3>1, ReaderKeeps
  <2>2. QED
    BY <2>1, <1>2
<1>6. QED
  BY <1>3, <1>4, <1>5 DEF SessionKnows

LEMMA DisturbedKeepTheirType ==
  ASSUME TypeOK, session' = Disturbed, matches' = matches
  PROVE  /\ DOMAIN session' = Sessions
         /\ \A t \in Sessions :
              /\ DOMAIN session'[t] = DOMAIN Idle
              /\ session'[t].profiles \in Seq(Range(Companies))
              /\ session'[t].at \in 0..matches'
              /\ session'[t].disturbed \in BOOLEAN
<1>1. DOMAIN session' = Sessions
  BY DEF Disturbed
<1>2. ASSUME NEW t \in Sessions
      PROVE  /\ DOMAIN session'[t] = DOMAIN Idle
             /\ session'[t].profiles \in Seq(Range(Companies))
             /\ session'[t].at \in 0..matches'
             /\ session'[t].disturbed \in BOOLEAN
  <2>1. /\ DOMAIN session[t] = DOMAIN Idle
        /\ session[t].profiles \in Seq(Range(Companies))
        /\ session[t].at \in 0..matches
        /\ session[t].disturbed \in BOOLEAN
    BY DEF TypeOK
  <2>2. "disturbed" \in DOMAIN session[t] /\ "profiles" \in DOMAIN session[t] /\ "at" \in DOMAIN session[t]
    BY <2>1 DEF Idle
  <2>3. session'[t] \in {session[t], [session[t] EXCEPT !.disturbed = TRUE]}
    BY DEF Disturbed
  <2>4. DOMAIN session'[t] = DOMAIN session[t] /\ session'[t].profiles = session[t].profiles
        /\ session'[t].at = session[t].at
        /\ (session'[t].disturbed = session[t].disturbed \/ session'[t].disturbed = TRUE)
    BY <2>2, <2>3
  <2>5. session'[t].disturbed \in BOOLEAN
    BY <2>1, <2>4, Zenon
  <2>6. QED
    BY <2>1, <2>4, <2>5
<1>3. QED
  BY <1>1, <1>2

LEMMA MoveCaseStep == WorkspaceInv /\ MoveCase => WorkspaceInv'
<1> SUFFICES ASSUME WorkspaceInv, MoveCase PROVE WorkspaceInv'
  OBVIOUS
<1>1. /\ TypeOK /\ RulesAreNumbered /\ RowsFollowTheLedger
      /\ ReferenceIsEarliest /\ AssessmentsFitTheirNotices
      /\ \A t \in Sessions : SessionKnows(session[t])
  BY DEF WorkspaceInv
<1>2. moves' = moves + 1 /\ moves \in Nat
      /\ UNCHANGED <<notices, rules, parses, assessments, matches, session>>
  BY <1>1 DEF MoveCase, TypeOK
<1>3. TypeOK'
  BY <1>1, <1>2 DEF TypeOK, notices
<1>4. LedgerGrows
  <2>1. moves <= moves'
    BY <1>2
  <2>2. QED
    BY <2>1, <1>1, <1>2, LedgerStill
<1>5. RulesGrow
  BY <1>1, <1>2, RulesStill
<1>6. \A t \in Sessions : SessionKnows(session[t])'
  BY <1>1, <1>2, <1>3, <1>4, <1>5, SessionKeeps
<1>7. RulesAreNumbered' /\ RowsFollowTheLedger' /\ ReferenceIsEarliest'
      /\ AssessmentsFitTheirNotices'
  BY <1>1, <1>2 DEF RulesAreNumbered, RowsFollowTheLedger, AssessmentsFitTheirNotices,
                    IsOfOneState,
                    IsStillSaid, Comparable, ReferenceIsEarliest, notices, CurrentRules
<1>8. QED
  BY <1>3, <1>6, <1>7 DEF WorkspaceInv

(* Assessments that are changed in place stay a sequence of assessments.   *)
LEMMA RowsInPlace ==
  ASSUME TypeOK, NEW f, f = [i \in DOMAIN assessments |-> f[i]],
         \A i \in DOMAIN assessments : f[i] \in RowType
  PROVE  f \in Seq(RowType)
<1>1. DOMAIN assessments = 1..Len(assessments) /\ Len(assessments) \in Nat
  BY DEF TypeOK
<1>2. QED
  BY <1>1

(* The fields of an assessment a change or a review of it touches.         *)
Changed(row, status, revision, events, flagged) ==
  [row EXCEPT !.status = status, !.revision = revision, !.events = events, !.flagged = flagged]

(* What neither touches.                                                   *)
SameContent(row, old) ==
  /\ row.at = old.at /\ row.seen = old.seen /\ row.reference = old.reference
  /\ row.notices = old.notices /\ row.items = old.items /\ row.disturbed = old.disturbed

HasChanged(q, row, status, revision, events, flagged) ==
  /\ q \in RowType /\ SameContent(q, row)
  /\ q.status = status /\ q.revision = revision /\ q.events = events /\ q.flagged = flagged

LEMMA ChangedRow ==
  ASSUME NEW row \in RowType, NEW status \in {"review_required", "reviewed"},
         NEW revision \in Nat, NEW events \in Nat, NEW flagged \in BOOLEAN
  PROVE  HasChanged(Changed(row, status, revision, events, flagged),
                    row, status, revision, events, flagged)
<1>1. PICK q : q = Changed(row, status, revision, events, flagged)
  OBVIOUS
<1>2. /\ q \in RowType /\ SameContent(q, row)
      /\ q.status = status /\ q.revision = revision /\ q.events = events
      /\ q.flagged = flagged
  BY <1>1 DEF Changed, SameContent, RowType
<1>3. QED
  BY <1>1, <1>2 DEF HasChanged

Reviewed(row, revision, events) ==
  [row EXCEPT !.status = "reviewed", !.revision = revision, !.events = events]

HasBeenReviewed(q, row, revision, events) ==
  /\ q \in RowType /\ SameContent(q, row) /\ q.flagged = row.flagged
  /\ q.status = "reviewed" /\ q.revision = revision /\ q.events = events

LEMMA ReviewedRow ==
  ASSUME NEW row \in RowType, NEW revision \in Nat, NEW events \in Nat
  PROVE  HasBeenReviewed(Reviewed(row, revision, events), row, revision, events)
<1>1. PICK q : q = Reviewed(row, revision, events)
  OBVIOUS
<1>2. /\ q \in RowType /\ SameContent(q, row)
      /\ q.status = "reviewed" /\ q.revision = revision /\ q.events = events
  BY <1>1 DEF Reviewed, SameContent, RowType
<1>3. q.flagged = row.flagged
  BY <1>1 DEF Reviewed, RowType
<1>4. QED
  BY <1>1, <1>2, <1>3 DEF HasBeenReviewed

(* What a publication that is no change of its source leaves as it was.    *)
LEMMA StaysSaid ==
  ASSUME NEW n \in Notices, NEW row, IsStillSaid(row),
         NEW before, before = {c \in current : c.identity = n.identity},
         ~IsChange(before, n)
  PROVE  \A m \in row.notices : Comparable(m) =>
           \E c \in (current \ before) \cup {n} :
             c.identity = m.identity /\ c.snapshot = m.snapshot
<1> SUFFICES ASSUME NEW m \in row.notices, Comparable(m)
             PROVE  \E c \in (current \ before) \cup {n} :
                      c.identity = m.identity /\ c.snapshot = m.snapshot
  OBVIOUS
<1>1. PICK c \in current : c.identity = m.identity /\ c.snapshot = m.snapshot
  BY DEF IsStillSaid
<1>2. CASE c \in before
  <2>1. c.identity = n.identity
    BY <1>2
  <2>2. c \notin unreadable
    BY <1>1 DEF Comparable
  <2>3. c.snapshot = n.snapshot
    BY <1>2, <2>2 DEF IsChange
  <2>4. QED
    BY <1>1, <2>1, <2>3
<1>3. CASE c \notin before
  BY <1>1, <1>3
<1>4. QED
  BY <1>2, <1>3

LEMMA PublishStep ==
  ASSUME WorkspaceInv, NEW n \in Notices, Publish(n)
  PROVE  WorkspaceInv'
<1> DEFINE before == {c \in current : c.identity = n.identity}
           now == (current \ before) \cup {n}
<1>1. /\ TypeOK /\ RulesAreNumbered /\ RowsFollowTheLedger /\ AssessmentsFitTheirNotices
      /\ \A t \in Sessions : SessionKnows(session[t])
  BY DEF WorkspaceInv
<1>2. /\ published' = published \cup {n} /\ current' = now /\ session' = Disturbed
      /\ reference' = Refreshed(now)
      /\ UNCHANGED <<unreadable, rules, parses, moves, matches>>
      /\ IsChange(before, n) =>
           assessments' = [i \in DOMAIN assessments |-> Flagged(assessments[i])]
      /\ ~IsChange(before, n) => assessments' = assessments
  BY DEF Publish
<1>3. ASSUME NEW i \in DOMAIN assessments
      PROVE  /\ assessments[i] \in RowType /\ assessments'[i] \in RowType
             /\ SameContent(assessments'[i], assessments[i])
             /\ assessments'[i].revision = assessments[i].revision
             /\ assessments'[i].events = assessments[i].events
             /\ assessments'[i].status \in {"review_required", assessments[i].status}
             /\ IsChange(before, n) => assessments'[i].flagged = TRUE
             /\ ~IsChange(before, n) => assessments'[i] = assessments[i]
  <2> DEFINE row == assessments[i]
  <2>1. row \in RowType
    BY <1>1, RowTypes
  <2>2. CASE IsChange(before, n)
    <3>1. row.revision \in Nat /\ row.events \in Nat
      BY <2>1 DEF RowType
    <3>2. assessments'[i] = [row EXCEPT !.status = "review_required", !.flagged = TRUE]
      BY <1>2, <2>2 DEF Flagged
    <3> HIDE DEF row
    <3>3. assessments'[i] = Changed(row, "review_required", row.revision, row.events, TRUE)
      BY <3>2, <2>1 DEF Changed, RowType
    <3>4. HasChanged(assessments'[i], row, "review_required", row.revision, row.events, TRUE)
      BY <2>1, <3>1, <3>3, ChangedRow
    <3>5. QED
      BY <2>1, <2>2, <3>4 DEF row, HasChanged
  <2>3. CASE ~IsChange(before, n)
    BY <1>2, <2>1, <2>3 DEF SameContent
  <2>4. QED
    BY <2>2, <2>3
<1>4. assessments' \in Seq(RowType) /\ DOMAIN assessments' = DOMAIN assessments
  <2>1. CASE IsChange(before, n)
    BY <1>1, <1>2, <1>3, <2>1, RowsInPlace
  <2>2. CASE ~IsChange(before, n)
    BY <1>1, <1>2, <2>2 DEF TypeOK
  <2>3. QED
    BY <2>1, <2>2
<1>5. /\ published' \subseteq Notices /\ now \subseteq Notices /\ now # {}
      /\ unreadable' = unreadable
  BY <1>1, <1>2 DEF TypeOK
<1>6. reference' \in Nat /\ ReferenceIsEarliest'
  <2>1. CASE now \subseteq unreadable
    BY <1>1, <1>2, <1>5, <2>1 DEF Refreshed, TypeOK, ReferenceIsEarliest
  <2>2. CASE ~(now \subseteq unreadable)
    <3> DEFINE dates == {c.reference : c \in now}
    <3>1. reference' = Min(dates)
      BY <1>2, <2>2 DEF Refreshed
    <3>2. dates \in SUBSET Nat /\ dates # {}
      BY <1>5, WorkspaceAssumption
    <3>3. ReferenceIsEarliest'
      BY <1>2, <3>1 DEF ReferenceIsEarliest
    <3> HIDE DEF dates
    <3>4. QED
      BY <3>1, <3>2, <3>3, MinIsOne
  <2>3. QED
    BY <2>1, <2>2
<1> HIDE DEF now
<1>7. TypeOK'
  BY <1>1, <1>2, <1>4, <1>5, <1>6, DisturbedKeepTheirType DEF TypeOK
<1>8. RulesAreNumbered'
  BY <1>1, <1>2 DEF RulesAreNumbered
<1>9. RowsFollowTheLedger'
  <2>1. ASSUME NEW i \in DOMAIN assessments
        PROVE  /\ assessments'[i].at <= matches'
               /\ assessments'[i].seen <= parses'
               /\ assessments'[i].events = assessments'[i].revision
               /\ assessments'[i].revision = 0 => assessments'[i].status = "review_required"
    BY <1>1, <1>2, <1>3 DEF RowsFollowTheLedger, SameContent
  <2>2. QED
    BY <2>1, <1>4 DEF RowsFollowTheLedger
<1>10. LedgerGrows
  <2>1. moves \in Nat
    BY <1>1 DEF TypeOK
  <2>2. ASSUME NEW i \in DOMAIN assessments
        PROVE  /\ i \in DOMAIN assessments'
               /\ assessments[i].revision <= assessments'[i].revision
               /\ assessments[i].events <= assessments'[i].events
               /\ assessments'[i].status = "reviewed" => assessments[i].status = "reviewed"
    <3>1. assessments[i].revision \in Nat /\ assessments[i].events \in Nat
      BY <1>3 DEF RowType
    <3>2. /\ assessments'[i].revision = assessments[i].revision
          /\ assessments'[i].events = assessments[i].events
          /\ assessments'[i].status \in {"review_required", assessments[i].status}
      BY <1>3
    <3>3. QED
      BY <3>1, <3>2, <1>4
  <2>3. QED
    BY <1>2, <2>1, <2>2 DEF LedgerGrows
<1>11. AssessmentsFitTheirNotices'
  <2>1. ASSUME NEW i \in DOMAIN assessments, ~assessments'[i].disturbed
        PROVE  /\ IsOfOneState(assessments[i])'
               /\ (~assessments[i].flagged => IsStillSaid(assessments[i]))'
    <3>1. SameContent(assessments'[i], assessments[i])
      BY <1>3
    <3>2. ~assessments[i].disturbed
      BY <2>1, <3>1 DEF SameContent
    <3>3. IsOfOneState(assessments[i])
          /\ (~assessments[i].flagged => IsStillSaid(assessments[i]))
      BY <1>1, <3>2 DEF AssessmentsFitTheirNotices
    <3>4. IsOfOneState(assessments[i])'
      BY <3>1, <3>3, <1>2 DEF IsOfOneState, SameContent
    <3>5. CASE IsChange(before, n)
      BY <3>4, <3>5, <1>3
    <3>6. CASE ~IsChange(before, n)
      <4>1. assessments'[i] = assessments[i]
        BY <3>6, <1>3
      <4>2. ASSUME ~assessments[i].flagged
            PROVE  \A m \in assessments[i].notices : Comparable(m) =>
                     \E c \in now : c.identity = m.identity /\ c.snapshot = m.snapshot
        BY <4>2, <3>3, <3>6, StaysSaid DEF now
      <4>3. (~assessments[i].flagged => IsStillSaid(assessments[i]))'
        BY <4>1, <4>2, <1>2 DEF IsStillSaid, Comparable
      <4>4. QED
        BY <3>4, <4>3
    <3>7. QED
      BY <3>5, <3>6
  <2>2. QED
    BY <2>1, <1>4 DEF AssessmentsFitTheirNotices
<1>12. \A t \in Sessions : SessionKnows(session[t])'
  <2>1. parses <= parses'
    BY <1>1, <1>2 DEF TypeOK
  <2>2. QED
    BY <2>1, <1>1, <1>2, <1>7, <1>10, DisturbedKnow
<1>13. QED
  BY <1>6, <1>7, <1>8, <1>9, <1>11, <1>12 DEF WorkspaceInv

LEMMA ReviewStep ==
  ASSUME WorkspaceInv, NEW s \in Sessions, NEW n \in DOMAIN assessments, Review(s, n)
  PROVE  WorkspaceInv'
<1>1. /\ TypeOK /\ RulesAreNumbered /\ RowsFollowTheLedger
      /\ ReferenceIsEarliest /\ AssessmentsFitTheirNotices
      /\ \A t \in Sessions : SessionKnows(session[t])
  BY DEF WorkspaceInv
<1> DEFINE row == assessments[n]
           revision == row.revision + 1
           events == row.events + 1
           q == Reviewed(row, revision, events)
<1>2. row \in RowType
  BY <1>1, RowTypes
<1>3. row.revision \in Nat /\ row.events \in Nat /\ row.flagged \in BOOLEAN
      /\ revision \in Nat /\ events \in Nat
  BY <1>2 DEF RowType
<1>4. /\ session' = [session EXCEPT ![s] = Idle]
      /\ UNCHANGED <<notices, rules, parses, moves, matches>>
      /\ assessments' = [assessments EXCEPT ![n] = q]
  <2>1. assessments' = [assessments EXCEPT
          ![n].status = "reviewed", ![n].revision = revision, ![n].events = events]
    BY <1>2 DEF Review, RowType
  <2> HIDE DEF revision, events
  <2>2. QED
    BY <1>2, <2>1 DEF Review, Reviewed, RowType
<1> HIDE DEF revision, events, q, row
<1>5. q \in RowType /\ SameContent(q, row) /\ q.status = "reviewed"
      /\ q.revision = revision /\ q.events = events /\ q.flagged = row.flagged
  <2>1. HasBeenReviewed(q, row, revision, events)
    BY <1>2, <1>3, ReviewedRow DEF q
  <2>2. QED
    BY <2>1 DEF HasBeenReviewed
<1>6. ASSUME NEW i \in DOMAIN assessments
      PROVE  /\ assessments[i] \in RowType /\ assessments'[i] \in RowType
             /\ SameContent(assessments'[i], assessments[i])
             /\ assessments'[i].flagged = assessments[i].flagged
             /\ i # n => assessments'[i] = assessments[i]
  <2>1. assessments[i] \in RowType
    BY <1>1, RowTypes
  <2>2. CASE i = n
    BY <1>2, <1>4, <1>5, <2>2 DEF row
  <2>3. CASE i # n
    BY <1>4, <2>1, <2>3 DEF SameContent
  <2>4. QED
    BY <2>2, <2>3
<1>7. assessments'[n].revision = assessments[n].revision + 1
      /\ assessments'[n].events = assessments[n].events + 1
  BY <1>4, <1>5 DEF row, revision, events
<1>8. assessments' \in Seq(RowType) /\ DOMAIN assessments' = DOMAIN assessments
  BY <1>1, <1>4, <1>6, RowsInPlace
<1>9. TypeOK'
  BY <1>1, <1>4, <1>8, SessionsKeepTheirType DEF TypeOK, notices
<1>10. RulesAreNumbered'
  BY <1>1, <1>4 DEF RulesAreNumbered
<1>11. \A i \in DOMAIN assessments : assessments[i].revision \in Nat /\ assessments[i].events \in Nat
  BY <1>6 DEF RowType
<1>12. RowsFollowTheLedger'
  <2>1. ASSUME NEW i \in DOMAIN assessments
        PROVE  /\ assessments'[i].at <= matches'
               /\ assessments'[i].seen <= parses'
               /\ assessments'[i].events = assessments'[i].revision
               /\ assessments'[i].revision = 0 => assessments'[i].status = "review_required"
    <3>1. /\ assessments[i].at <= matches
          /\ assessments[i].seen <= parses
          /\ assessments[i].events = assessments[i].revision
          /\ assessments[i].revision = 0 => assessments[i].status = "review_required"
      BY <1>1 DEF RowsFollowTheLedger
    <3>2. QED
      BY <3>1, <1>4, <1>6, <1>7, <1>11 DEF SameContent
  <2>2. QED
    BY <2>1, <1>8 DEF RowsFollowTheLedger
<1>13. LedgerGrows
  <2>1. moves \in Nat
    BY <1>1 DEF TypeOK
  <2>2. ASSUME NEW i \in DOMAIN assessments
        PROVE  /\ i \in DOMAIN assessments'
               /\ assessments[i].revision <= assessments'[i].revision
               /\ assessments[i].events <= assessments'[i].events
               /\ (assessments'[i].revision = assessments[i].revision
                   /\ assessments'[i].status = "reviewed") => assessments[i].status = "reviewed"
    BY <1>6, <1>7, <1>8, <1>11
  <2>3. QED
    BY <1>4, <2>1, <2>2 DEF LedgerGrows
<1>14. RulesGrow
  BY <1>1, <1>4, RulesStill
<1>15. ReferenceIsEarliest' /\ AssessmentsFitTheirNotices'
  <2>1. ASSUME NEW i \in DOMAIN assessments, ~assessments'[i].disturbed
        PROVE  /\ IsOfOneState(assessments[i])'
               /\ (~assessments[i].flagged => IsStillSaid(assessments[i]))'
    <3>1. /\ SameContent(assessments'[i], assessments[i])
          /\ assessments'[i].flagged = assessments[i].flagged
      BY <1>6
    <3>2. ~assessments[i].disturbed
      BY <2>1, <3>1 DEF SameContent
    <3>3. IsOfOneState(assessments[i])
          /\ (~assessments[i].flagged => IsStillSaid(assessments[i]))
      BY <1>1, <3>2 DEF AssessmentsFitTheirNotices
    <3>4. IsOfOneState(assessments[i])'
      BY <3>1, <3>3, <1>4 DEF IsOfOneState, SameContent, notices
    <3>5. (~assessments[i].flagged => IsStillSaid(assessments[i]))'
      BY <3>1, <3>3, <1>4 DEF IsStillSaid, Comparable, SameContent, notices
    <3>6. QED
      BY <3>4, <3>5
  <2>2. QED
    BY <2>1, <1>1, <1>4, <1>8 DEF AssessmentsFitTheirNotices, ReferenceIsEarliest, notices
<1>16. \A t \in Sessions : SessionKnows(session[t])'
  BY <1>4, <1>9, <1>13, <1>14, WritersLeaveKnowledge
<1>17. QED
  BY <1>9, <1>10, <1>12, <1>15, <1>16 DEF WorkspaceInv

(* The id of a new rule is new, and no more than the documents stored.     *)
LEMMA FreshId ==
  ASSUME TypeOK, RulesAreNumbered, NEW rest \in SUBSET rules,
         NEW m, m = Max({0} \cup RuleIds(rest))
  PROVE  /\ m \in 0..parses
         /\ \A r \in rest : r.id <= m
<1> DEFINE ids == {0} \cup RuleIds(rest)
<1>1. parses \in Nat
  BY DEF TypeOK
<1>2. \A r \in rest : r.id \in 1..parses
  BY DEF RulesAreNumbered
<1>3. ids \in SUBSET Nat /\ ids # {} /\ (\A n \in ids : n <= parses)
      /\ \A r \in rest : r.id \in ids
  BY <1>1, <1>2 DEF RuleIds
<1> HIDE DEF ids
<1>4. m \in ids /\ \A n \in ids : n <= m
  BY <1>1, <1>3, MaxOfBounded DEF ids
<1>5. m \in Nat /\ m <= parses
  BY <1>3, <1>4
<1>6. m \in 0..parses
  BY <1>1, <1>5
<1>7. ASSUME NEW r \in rest PROVE r.id <= m
  <2>1. r.id \in ids
    BY <1>3
  <2>2. QED
    BY <2>1, <1>4
<1>8. QED
  BY <1>6, <1>7

LEMMA StoreDocumentStep ==
  ASSUME WorkspaceInv, NEW n \in published, NEW a \in Attachments, StoreDocument(n, a)
  PROVE  WorkspaceInv'
<1> DEFINE gone == {r \in rules : r.notice = n /\ r.attachment = a}
           rest == rules \ gone
           m == Max({0} \cup RuleIds(rest))
           fresh == [id |-> 1 + m, notice |-> n, attachment |-> a, parse |-> parses + 1]
<1>1. /\ TypeOK /\ RulesAreNumbered /\ RowsFollowTheLedger
      /\ ReferenceIsEarliest /\ AssessmentsFitTheirNotices
      /\ \A t \in Sessions : SessionKnows(session[t])
  BY DEF WorkspaceInv
<1>2. /\ NotReferenced(gone) /\ parses' = parses + 1
      /\ rules' \in {rest, rest \cup {fresh}}
      /\ session' = IF gone = {} THEN session ELSE Disturbed
      /\ UNCHANGED <<notices, assessments, moves, matches>>
  BY DEF StoreDocument
<1>3. parses \in Nat /\ moves \in Nat /\ n \in Notices
  BY <1>1 DEF TypeOK
<1>4. m \in 0..parses /\ \A r \in rest : r.id <= m
  <2>1. rest \in SUBSET rules
    OBVIOUS
  <2> HIDE DEF rest
  <2>2. QED
    BY <1>1, <2>1, FreshId
<1>5. fresh \in RuleType /\ fresh.id = 1 + m /\ fresh.parse = parses + 1
  <2> HIDE DEF m
  <2>1. 1 + m \in Nat /\ parses + 1 \in Nat
    BY <1>3, <1>4
  <2>2. QED
    BY <1>3, <2>1 DEF RuleType
<1> HIDE DEF m, fresh
<1>6. rest \subseteq rules /\ rules' \subseteq rest \cup {fresh}
      /\ (gone = {} => rules \subseteq rules')
  BY <1>2
<1>7. RulesAreNumbered'
  <2>1. ASSUME NEW r \in rules' PROVE r.id \in 1..parses' /\ r.parse \in 1..parses'
    <3>1. CASE r = fresh
      BY <3>1, <1>2, <1>3, <1>4, <1>5
    <3>2. CASE r \in rules
      <4>1. r.id \in 1..parses /\ r.parse \in 1..parses
        BY <3>2, <1>1 DEF RulesAreNumbered
      <4>2. QED
        BY <4>1, <1>2, <1>3
    <3>3. QED
      BY <3>1, <3>2, <1>6
  <2>2. ASSUME NEW r \in rules', NEW q \in rules', r.id = q.id PROVE r = q
    <3>1. \A p \in rest : p.id # fresh.id
      <4>1. \A p \in rest : p.id \in 1..parses
        BY <1>1, <1>6 DEF RulesAreNumbered
      <4>2. QED
        BY <4>1, <1>4, <1>5
    <3>2. r \in rest /\ q \in rest => r = q
      BY <2>2, <1>1, <1>6 DEF RulesAreNumbered
    <3> HIDE DEF rest
    <3>3. QED
      BY <2>2, <3>1, <3>2, <1>6
  <2>3. QED
    BY <2>1, <2>2 DEF RulesAreNumbered
<1>8. TypeOK'
  <2>1. /\ published' \subseteq Notices /\ current' \subseteq Notices /\ current' # {}
        /\ reference' \in Nat /\ parses' \in Nat /\ moves' \in Nat /\ matches' \in Nat
        /\ assessments' \in Seq(RowType)
    BY <1>1, <1>2, <1>3 DEF TypeOK, notices
  <2>2. rules' \subseteq RuleType
    BY <1>1, <1>5, <1>6 DEF TypeOK
  <2>3. /\ DOMAIN session' = Sessions
        /\ \A t \in Sessions :
             /\ DOMAIN session'[t] = DOMAIN Idle
             /\ session'[t].profiles \in Seq(Range(Companies))
             /\ session'[t].at \in 0..matches'
             /\ session'[t].disturbed \in BOOLEAN
    <3>1. CASE session' = session
      BY <3>1, <1>1, <1>2 DEF TypeOK
    <3>2. CASE session' = Disturbed
      BY <3>2, <1>1, <1>2, DisturbedKeepTheirType
    <3>3. QED
      BY <3>1, <3>2, <1>2
  <2>4. QED
    BY <2>1, <2>2, <2>3 DEF TypeOK
<1>9. RowsFollowTheLedger'
  <2>1. ASSUME NEW i \in DOMAIN assessments PROVE assessments[i].seen <= parses'
    <3>1. assessments[i].seen \in Nat /\ assessments[i].seen <= parses
      BY <1>1, RowTypes DEF RowType, RowsFollowTheLedger
    <3>2. QED
      BY <3>1, <1>2, <1>3
  <2>2. QED
    BY <2>1, <1>1, <1>2 DEF RowsFollowTheLedger
<1>10. ReferenceIsEarliest' /\ AssessmentsFitTheirNotices'
  <2>1. ASSUME NEW i \in DOMAIN assessments, ~assessments[i].disturbed
        PROVE  /\ IsOfOneState(assessments[i])'
               /\ (~assessments[i].flagged => IsStillSaid(assessments[i]))'
    <3> DEFINE row == assessments[i]
               live == {q \in rules : q.notice \in row.notices /\ q.parse <= row.seen}
               later == {q \in rules' : q.notice \in row.notices /\ q.parse <= row.seen}
    <3>1. /\ \/ row.notices \subseteq unreadable
             \/ row.reference = Min({c.reference : c \in row.notices})
          /\ row.items = {[id |-> r.id, parse |-> r.parse, evidence |-> r.parse] : r \in live}
          /\ ~row.flagged => IsStillSaid(row)
      BY <2>1, <1>1 DEF AssessmentsFitTheirNotices, IsOfOneState
    <3>2. row.seen \in Nat /\ row.seen <= parses
      BY <1>1, RowTypes DEF RowType, RowsFollowTheLedger
    <3>3. live \cap gone = {}
      <4>1. SUFFICES ASSUME NEW r \in live, r \in gone PROVE FALSE
        OBVIOUS
      <4>2. [id |-> r.id, parse |-> r.parse, evidence |-> r.parse] \in row.items
        BY <3>1
      <4>3. [id |-> r.id, parse |-> r.parse, evidence |-> r.parse].id = r.id
        OBVIOUS
      <4>4. r.id \in RuleIds(row.items)
        BY <4>2, <4>3 DEF RuleIds
      <4>5. r.id \in RuleIds(gone)
        BY <4>1 DEF RuleIds
      <4>6. QED
        BY <4>4, <4>5, <1>2 DEF NotReferenced
    <3>4. live = later
      <4>1. ASSUME NEW q \in live PROVE q \in later
        <5>1. q \in rules /\ q \notin gone
          BY <3>3
        <5>2. QED
          BY <5>1, <1>2
      <4>2. ASSUME NEW q \in later PROVE q \in live
        <5>1. q # fresh
          BY <3>2, <1>3, <1>5
        <5>2. QED
          BY <5>1, <1>6
      <4>3. QED
        BY <4>1, <4>2
    <3> HIDE DEF live
    <3>5. row.items = {[id |-> r.id, parse |-> r.parse, evidence |-> r.parse] : r \in later}
      BY <3>1, <3>4
    <3>6. IsOfOneState(row)'
      BY <3>1, <3>5, <1>2 DEF IsOfOneState, notices
    <3>7. (~row.flagged => IsStillSaid(row))'
      BY <3>1, <1>2 DEF IsStillSaid, Comparable, notices
    <3>8. QED
      BY <3>6, <3>7
  <2>2. QED
    BY <2>1, <1>1, <1>2 DEF AssessmentsFitTheirNotices, ReferenceIsEarliest, notices
<1>11. LedgerGrows
  <2>1. moves <= moves' /\ UNCHANGED assessments
    BY <1>2, <1>3
  <2>2. QED
    BY <2>1, <1>1, LedgerStill
<1>12. \A t \in Sessions : SessionKnows(session[t])'
  <2>1. CASE gone = {}
    <3>1. RulesGrow
      <4>1. parses <= parses'
        BY <1>2, <1>3
      <4>2. \A r \in rules' : r \in rules \/ r.parse = parses + 1
        BY <1>5, <1>6
      <4>3. QED
        BY <4>1, <4>2, <2>1, <1>2, <1>6 DEF RulesGrow, notices
    <3>2. session' = session
      BY <2>1, <1>2
    <3>3. QED
      BY <3>1, <3>2, <1>1, <1>8, <1>11, SessionKeeps
  <2>2. CASE gone # {}
    <3>1. session' = Disturbed /\ parses <= parses'
      BY <2>2, <1>2, <1>3
    <3>2. QED
      BY <3>1, <1>1, <1>8, <1>11, DisturbedKnow
  <2>3. QED
    BY <2>1, <2>2
<1>13. QED
  BY <1>7, <1>8, <1>9, <1>10, <1>12 DEF WorkspaceInv

(* The items of a match: typed, and the live rules unless it was disturbed. *)
LEMMA ItemsAreTyped ==
  ASSUME NEW view, view.rules.found \subseteq RuleType, view.evidence \subseteq RuleType,
         RuleIds(view.rules.found) = RuleIds(view.evidence)
  PROVE  ItemsOf(view) \subseteq ItemType
<1> DEFINE of(r) == CHOOSE e \in view.evidence : e.id = r.id
<1>1. ASSUME NEW r \in view.rules.found
      PROVE  [id |-> r.id, parse |-> r.parse, evidence |-> of(r).parse] \in ItemType
  <2>1. r.id \in RuleIds(view.evidence)
    BY DEF RuleIds
  <2>2. PICK e \in view.evidence : e.id = r.id
    BY <2>1 DEF RuleIds
  <2>3. of(r) \in view.evidence
    BY <2>2
  <2> HIDE DEF of
  <2>4. of(r).parse \in Nat /\ r.id \in Nat /\ r.parse \in Nat
    BY <2>3 DEF RuleType
  <2>5. QED
    BY <2>4 DEF ItemType
<1>2. QED
  BY <1>1 DEF ItemsOf

LEMMA ItemsAreLive ==
  ASSUME RulesAreNumbered, NEW view, view.evidence = view.rules.found,
         view.rules.found \subseteq rules
  PROVE  ItemsOf(view) =
           {[id |-> r.id, parse |-> r.parse, evidence |-> r.parse] : r \in view.rules.found}
<1> DEFINE of(r) == CHOOSE e \in view.evidence : e.id = r.id
           item(r) == [id |-> r.id, parse |-> r.parse, evidence |-> of(r).parse]
           live(r) == [id |-> r.id, parse |-> r.parse, evidence |-> r.parse]
<1>1. ASSUME NEW r \in view.rules.found PROVE item(r) = live(r)
  <2>1. of(r) = r
    BY DEF RulesAreNumbered
  <2>2. QED
    BY <2>1
<1>2. ItemsOf(view) = {item(r) : r \in view.rules.found}
  BY DEF ItemsOf
<1> HIDE DEF item, live
<1>3. {item(r) : r \in view.rules.found} = {live(r) : r \in view.rules.found}
  BY <1>1
<1>4. QED
  BY <1>2, <1>3 DEF live

LEMMA PersistStep ==
  ASSUME WorkspaceInv, NEW s \in Sessions, Persist(s)
  PROVE  WorkspaceInv'
<1> DEFINE x == session[s]
           rows == StoredRows(s)
<1>1. /\ TypeOK /\ RulesAreNumbered /\ RowsFollowTheLedger
      /\ ReferenceIsEarliest /\ AssessmentsFitTheirNotices
      /\ SessionKnows(x)
  BY DEF WorkspaceInv
<1>2. /\ session' = [session EXCEPT ![s] = Idle]
      /\ UNCHANGED <<notices, rules, parses, moves, matches>>
      /\ x.kind = "match" /\ x.left = <<>>
  BY DEF Persist, IsRead
<1>3. CASE UNCHANGED assessments
  BY <1>2, <1>3, IdleAgain
<1>4. CASE ~UNCHANGED assessments
  <2>1. assessments' = assessments \o rows /\ ~HasErrors(x.view)
    BY <1>4 DEF Persist
  <2>2. MatchKnows(x) /\ ReadsInOrder(x)
    BY <1>1, <1>2 DEF SessionKnows
  <2>3. DOMAIN x.view = {"program", "rules", "evidence"}
    BY <1>2, <2>2, AllInView
  <2>4. /\ x.view.program.reference \in Nat /\ x.view.program.notices \subseteq Notices
        /\ (~x.disturbed => x.view.program.reference = reference
                           /\ x.view.program.notices = current)
        /\ x.view.rules.seen \in 0..parses /\ x.view.rules.found \subseteq RuleType
        /\ (~x.disturbed =>
              x.view.rules.found = {r \in CurrentRules : r.parse <= x.view.rules.seen})
        /\ x.view.evidence \subseteq RuleType
        /\ (~x.disturbed => x.view.evidence = x.view.rules.found)
    BY <2>2, <2>3 DEF MatchKnows
  <2>5. ItemsOf(x.view) \subseteq ItemType
    BY <2>1, <2>4, ItemsAreTyped DEF HasErrors
  <2>6. /\ x.profiles \in Seq(Range(Companies)) /\ x.at \in 0..matches
        /\ x.disturbed \in BOOLEAN /\ matches \in Nat /\ parses \in Nat /\ moves \in Nat
    BY <1>1 DEF TypeOK
  <2>7. ASSUME NEW p \in Range(Companies), NEW q, q = StoredRow(s, p)
        PROVE  /\ q \in RowType /\ q.at <= matches /\ q.seen <= parses
               /\ q.events = 0 /\ q.revision = 0 /\ q.status = "review_required"
               /\ q.reference = x.view.program.reference
               /\ q.notices = x.view.program.notices /\ q.items = ItemsOf(x.view)
               /\ q.seen = x.view.rules.seen /\ q.disturbed = x.disturbed
    <3>1. /\ q = [profile |-> p, at |-> x.at, reference |-> x.view.program.reference,
                  notices |-> x.view.program.notices,
                  items |-> ItemsOf(x.view), seen |-> x.view.rules.seen,
                  disturbed |-> x.disturbed, flagged |-> FALSE,
                  status |-> "review_required", revision |-> 0, events |-> 0]
      BY <2>7 DEF StoredRow
    <3>2. x.at \in Nat /\ x.at <= matches /\ x.view.rules.seen \in Nat
          /\ x.view.rules.seen <= parses
      BY <2>4, <2>6
    <3> DEFINE at == x.at
               program == x.view.program.reference
               known == x.view.program.notices
               seen == x.view.rules.seen
               items == ItemsOf(x.view)
               disturbed == x.disturbed
    <3>3. at \in Nat /\ program \in Nat /\ seen \in Nat /\ items \in SUBSET ItemType
          /\ known \in SUBSET Notices /\ disturbed \in BOOLEAN /\ at <= matches /\ seen <= parses
      BY <2>4, <2>5, <2>6, <3>2
    <3> HIDE DEF at, program, known, seen, items, disturbed
    <3>4. q = [profile |-> p, at |-> at, reference |-> program, notices |-> known,
               items |-> items, seen |-> seen, disturbed |-> disturbed, flagged |-> FALSE,
               status |-> "review_required", revision |-> 0, events |-> 0]
      BY <3>1 DEF at, program, known, seen, items, disturbed
    <3>5. q \in RowType
      BY <3>3, <3>4 DEF RowType
    <3>6. /\ q.at = at /\ q.seen = seen /\ q.events = 0 /\ q.revision = 0
          /\ q.status = "review_required" /\ q.reference = program /\ q.notices = known
          /\ q.items = items
          /\ q.disturbed = disturbed
      BY <3>4
    <3>7. QED
      BY <3>3, <3>5, <3>6 DEF at, program, known, seen, items, disturbed
  <2>8. DOMAIN x.profiles = 1..Len(x.profiles) /\ Len(x.profiles) \in Nat
        /\ \A i \in DOMAIN x.profiles : x.profiles[i] \in Range(Companies)
    BY <2>6
  <2>9. /\ DOMAIN rows = DOMAIN x.profiles
        /\ \A i \in DOMAIN rows : \E p \in Range(Companies) : rows[i] = StoredRow(s, p)
    BY <2>8 DEF StoredRows
  <2>10. rows \in Seq(RowType)
    <3>1. \A i \in DOMAIN rows : rows[i] \in RowType
      BY <2>7, <2>9
    <3>2. rows = [i \in 1..Len(x.profiles) |-> rows[i]]
      BY <2>8 DEF StoredRows
    <3> HIDE DEF rows, x
    <3>3. QED
      BY <2>8, <2>9, <3>1, <3>2
  <2> HIDE DEF rows
  <2>11. /\ assessments \in Seq(RowType) /\ assessments' \in Seq(RowType)
         /\ \A i \in DOMAIN assessments : i \in DOMAIN assessments' /\ assessments'[i] = assessments[i]
         /\ \A i \in DOMAIN assessments' :
              i \in DOMAIN assessments \/ \E k \in DOMAIN rows : assessments'[i] = rows[k]
    <3>1. assessments \in Seq(RowType)
      BY <1>1 DEF TypeOK
    <3>2. QED
      BY <3>1, <2>1, <2>10, ConcatProperties
  <2>12. ASSUME NEW i \in DOMAIN assessments', i \notin DOMAIN assessments
         PROVE  \E p \in Range(Companies) : assessments'[i] = StoredRow(s, p)
    BY <2>9, <2>11, <2>12
  <2>13. TypeOK'
    BY <1>1, <1>2, <2>11, SessionsKeepTheirType DEF TypeOK, notices
  <2>14. RulesAreNumbered'
    BY <1>1, <1>2 DEF RulesAreNumbered
  <2>15. RowsFollowTheLedger'
    <3>1. ASSUME NEW i \in DOMAIN assessments'
          PROVE  /\ assessments'[i].at <= matches /\ assessments'[i].seen <= parses
                 /\ assessments'[i].events = assessments'[i].revision
                 /\ assessments'[i].revision = 0 => assessments'[i].status = "review_required"
      <4>1. CASE i \in DOMAIN assessments
        BY <4>1, <1>1, <2>11 DEF RowsFollowTheLedger
      <4>2. CASE i \notin DOMAIN assessments
        BY <4>2, <2>7, <2>12
      <4>3. QED
        BY <4>1, <4>2
    <3>2. QED
      BY <3>1, <1>2 DEF RowsFollowTheLedger
  <2>16. ReferenceIsEarliest' /\ AssessmentsFitTheirNotices'
    <3>1. ASSUME NEW i \in DOMAIN assessments', ~assessments'[i].disturbed
          PROVE  /\ IsOfOneState(assessments[i])'
                 /\ (~assessments[i].flagged => IsStillSaid(assessments[i]))'
      <4>1. CASE i \in DOMAIN assessments
        <5>1. IsOfOneState(assessments[i])
              /\ (~assessments[i].flagged => IsStillSaid(assessments[i]))
          BY <4>1, <3>1, <1>1, <2>11 DEF AssessmentsFitTheirNotices
        <5>2. assessments'[i] = assessments[i]
          BY <4>1, <2>11
        <5>3. QED
          BY <5>1, <5>2, <1>2 DEF IsOfOneState, IsStillSaid, Comparable, notices
      <4>2. CASE i \notin DOMAIN assessments
        <5>1. /\ assessments'[i].reference = x.view.program.reference
              /\ assessments'[i].notices = x.view.program.notices
              /\ assessments'[i].items = ItemsOf(x.view)
              /\ assessments'[i].seen = x.view.rules.seen
              /\ assessments'[i].disturbed = x.disturbed
          BY <4>2, <2>7, <2>12
        <5>2. /\ x.view.program.reference = reference /\ x.view.program.notices = current
              /\ x.view.evidence = x.view.rules.found
              /\ x.view.rules.found = {r \in CurrentRules : r.parse <= x.view.rules.seen}
          BY <5>1, <3>1, <2>4
        <5>3. x.view.rules.found \subseteq rules
              /\ x.view.rules.found =
                   {q \in rules : q.notice \in current /\ q.parse <= x.view.rules.seen}
          BY <5>2 DEF CurrentRules
        <5>4. ItemsOf(x.view) =
                {[id |-> r.id, parse |-> r.parse, evidence |-> r.parse] : r \in x.view.rules.found}
          BY <1>1, <5>2, <5>3, ItemsAreLive
        <5>5. IsOfOneState(assessments[i])'
          BY <5>1, <5>2, <5>3, <5>4, <1>1, <1>2
             DEF IsOfOneState, ReferenceIsEarliest, notices
        <5>6. IsStillSaid(assessments[i])'
          BY <5>1, <5>2, <1>2 DEF IsStillSaid, notices
        <5>7. QED
          BY <5>5, <5>6
      <4>3. QED
        BY <4>1, <4>2
    <3>2. QED
      BY <3>1, <1>1, <1>2 DEF AssessmentsFitTheirNotices, ReferenceIsEarliest, notices
  <2>17. LedgerGrows
    <3>1. ASSUME NEW i \in DOMAIN assessments
          PROVE  assessments[i].revision \in Nat /\ assessments[i].events \in Nat
      BY <1>1, RowTypes DEF RowType
    <3>2. moves <= moves'
      BY <1>2, <2>6
    <3>3. QED
      BY <3>1, <3>2, <2>11 DEF LedgerGrows
  <2>18. RulesGrow
    BY <1>1, <1>2, RulesStill
  <2>19. \A t \in Sessions : SessionKnows(session[t])'
    BY <1>2, <2>13, <2>17, <2>18, WritersLeaveKnowledge
  <2>20. QED
    BY <2>13, <2>14, <2>15, <2>16, <2>19 DEF WorkspaceInv
<1>5. QED
  BY <1>3, <1>4

-----------------------------------------------------------------------------
(* The invariant and what follows from it.                                 *)

(* The strengthening holds in every state.                                 *)
THEOREM WorkspaceInvariant == Spec => []WorkspaceInv
<1>1. Init => WorkspaceInv
  <2> SUFFICES ASSUME Init PROVE WorkspaceInv
    OBVIOUS
  <2>1. \A s \in Sessions : session[s] = Idle
    BY DEF Init
  <2>2. TypeOK
    <3>1. Idle.profiles \in Seq(Range(Companies)) /\ Idle.at \in 0..0
      BY IdleIsFine
    <3>2. Idle.disturbed \in BOOLEAN
      BY IdleIsFine, Zenon
    <3>3. assessments \in Seq(RowType)
      BY EmptySeq DEF Init
    <3>4. /\ published \subseteq Notices /\ current \subseteq Notices /\ current # {}
          /\ reference \in Nat
      BY WorkspaceAssumption DEF Init
    <3>5. QED
      BY <2>1, <3>1, <3>2, <3>3, <3>4 DEF Init, TypeOK
  <2>3. DOMAIN assessments = {}
    BY EmptySeq DEF Init
  <2>4. RulesAreNumbered
    BY DEF Init, RulesAreNumbered
  <2>5. RowsFollowTheLedger /\ AssessmentsFitTheirNotices
    BY <2>3 DEF RowsFollowTheLedger, AssessmentsFitTheirNotices
  <2>6. \A s \in Sessions : SessionKnows(session[s])
    BY <2>1, IdleKnows
  <2>7. ReferenceIsEarliest
    <3> DEFINE dates == {c.reference : c \in current}
    <3>1. dates = {reference} /\ reference \in Nat
      BY WorkspaceAssumption DEF Init
    <3>2. Min(dates) = reference
      <4>1. dates \in SUBSET Nat /\ dates # {}
        BY <3>1
      <4> HIDE DEF dates
      <4>2. QED
        BY <3>1, <4>1, MinIsOne
    <3>3. QED
      BY <3>2 DEF ReferenceIsEarliest
  <2>8. QED
    BY <2>2, <2>4, <2>5, <2>6, <2>7 DEF WorkspaceInv
<1>2. WorkspaceInv /\ [Next]_vars => WorkspaceInv'
  <2> SUFFICES ASSUME WorkspaceInv, [Next]_vars PROVE WorkspaceInv'
    OBVIOUS
  <2>1. ASSUME NEW s \in Sessions, SessionStep(s) PROVE WorkspaceInv'
    <3>1. CASE Search(s)
      BY <3>1, CompaniesAreThere, StartMatchStep DEF Search
    <3>2. CASE ReverseMatch(s)
      BY <3>2, CompaniesAreThere, StartMatchStep DEF ReverseMatch
    <3>3. CASE OpenPage(s) \/ OpenReport(s)
      BY <3>3, OpenStep
    <3>4. CASE Select(s)
      BY <3>4, SelectStep
    <3>5. CASE Persist(s)
      BY <3>5, PersistStep
    <3>6. CASE Leave(s)
      BY <3>6, IdleAgain DEF Leave
    <3>7. CASE \E i \in DOMAIN assessments : Review(s, i)
      BY <3>7, ReviewStep
    <3>8. QED
      BY <2>1, <3>1, <3>2, <3>3, <3>4, <3>5, <3>6, <3>7 DEF SessionStep
  <2>2. CASE \E n \in Notices : Publish(n)
    BY <2>2, PublishStep
  <2>3. ASSUME NEW n \in published, NEW a \in Attachments, StoreDocument(n, a)
        PROVE  WorkspaceInv'
    BY <2>3, StoreDocumentStep
  <2>4. CASE MoveCase
    BY <2>4, MoveCaseStep
  <2>5. CASE UNCHANGED vars
    <3>1. UNCHANGED <<notices, rules, parses, assessments, moves, matches, session>>
      BY <2>5 DEF vars
    <3>2. TypeOK /\ RulesAreNumbered /\ RowsFollowTheLedger
      /\ ReferenceIsEarliest /\ AssessmentsFitTheirNotices
          /\ \A t \in Sessions : SessionKnows(session[t])
      BY DEF WorkspaceInv
    <3>3. TypeOK'
      BY <3>1, <3>2 DEF TypeOK, notices
    <3>4. RulesAreNumbered' /\ RowsFollowTheLedger'
      BY <3>1, <3>2 DEF RulesAreNumbered, RowsFollowTheLedger
    <3>5. ReferenceIsEarliest' /\ AssessmentsFitTheirNotices'
      BY <3>1, <3>2 DEF AssessmentsFitTheirNotices, IsOfOneState,
                    IsStillSaid, Comparable, ReferenceIsEarliest, notices, CurrentRules
    <3>6. RulesGrow /\ LedgerGrows
      <4>1. moves <= moves'
        BY <3>1, <3>2 DEF TypeOK
      <4>2. QED
        BY <4>1, <3>1, <3>2, RulesStill, LedgerStill
    <3>7. \A t \in Sessions : SessionKnows(session[t])'
      BY <3>1, <3>2, <3>3, <3>6, SessionKeeps
    <3>8. QED
      BY <3>3, <3>4, <3>5, <3>7 DEF WorkspaceInv
  <2>6. QED
    BY <2>1, <2>2, <2>3, <2>4, <2>5 DEF Next
<1>3. QED
  BY <1>1, <1>2, PTL DEF Spec

(* Every variable keeps its type.                                          *)
THEOREM TypeCorrect == Spec => []TypeOK
<1>1. WorkspaceInv => TypeOK
  BY DEF WorkspaceInv
<1>2. QED
  BY <1>1, WorkspaceInvariant, PTL

(* An undisturbed assessment is of one state of the program, and while it  *)
(* is not flagged its sources say what they said.                          *)
THEOREM AssessmentsFit == Spec => []AssessmentsFitTheirNotices
<1>1. WorkspaceInv => AssessmentsFitTheirNotices
  BY DEF WorkspaceInv
<1>2. QED
  BY <1>1, WorkspaceInvariant, PTL

(* A consultation report shows nothing its audit trail does not explain.   *)
THEOREM ReportsExplained == Spec => []ReportsAreExplained
<1>1. WorkspaceInv => ReportsAreExplained
  <2> SUFFICES ASSUME WorkspaceInv, NEW s \in Sessions, IsRead(s, {"report"})
               PROVE  LET view == session[s].view IN
                      /\ view.case <= view.trail.moves
                      /\ \A i \in DOMAIN view.rows :
                           view.rows[i].revision <= view.audit[i]
                           /\ view.audit[i] <= view.trail.events[i]
    BY DEF ReportsAreExplained
  <2> DEFINE view == session[s].view
  <2>1. session[s].kind = "report" /\ session[s].left = <<>>
    BY DEF IsRead
  <2>2. ReadsInOrder(session[s]) /\ ReaderKnows(view)
    BY <2>1 DEF WorkspaceInv, SessionKnows
  <2>3. DOMAIN view = {"case", "rows", "audit", "trail"}
    BY <2>1, <2>2, AllInView
  <2>4. view.case <= view.trail.moves
        /\ \A i \in DOMAIN view.rows : view.audit[i] <= view.trail.events[i]
    BY <2>2, <2>3 DEF ReaderKnows
  <2>5. ASSUME NEW i \in DOMAIN view.rows PROVE view.rows[i].revision <= view.audit[i]
    BY <2>2, <2>3 DEF ReaderKnows
  <2>6. QED
    BY <2>4, <2>5
<1>2. QED
  BY <1>1, WorkspaceInvariant, PTL

(* A review that is accepted came from a page that showed the last review  *)
(* of the assessment and its status.                                       *)
THEOREM ReviewsSawTheLedger == Spec => AcceptedReviewsSawTheLedger
<1> DEFINE Saw(s, i) ==
      /\ i \in DOMAIN session[s].view.audit
      /\ session[s].view.audit[i] = assessments[i].events
      /\ session[s].view.rows[i].status = assessments[i].status
    Informed == \A s \in Sessions, i \in DOMAIN assessments : Review(s, i) => Saw(s, i)
<1>1. WorkspaceInv => Informed
  <2> SUFFICES ASSUME WorkspaceInv, NEW s \in Sessions, NEW i \in DOMAIN assessments,
                      Review(s, i)
               PROVE  Saw(s, i)
    OBVIOUS
  <2> DEFINE view == session[s].view
  <2>1. session[s].kind = "page" /\ session[s].left = <<>>
        /\ i \in DOMAIN view.rows /\ view.rows[i].revision = assessments[i].revision
        /\ (assessments[i].events = 0 \/ assessments[i].status = "reviewed")
    BY DEF Review, IsRead
  <2>2. ReadsInOrder(session[s]) /\ ReaderKnows(view)
    BY <2>1 DEF WorkspaceInv, SessionKnows
  <2>3. DOMAIN view = {"rows", "audit"}
    BY <2>1, <2>2, AllInView
  <2>4. /\ DOMAIN view.audit = DOMAIN view.rows /\ RowsWereReal(view.rows)
        /\ view.audit[i] \in view.rows[i].revision..assessments[i].events
    BY <2>1, <2>2, <2>3 DEF ReaderKnows
  <2>5. assessments[i].events = assessments[i].revision /\ assessments[i].events \in Nat
        /\ (assessments[i].revision = 0 => assessments[i].status = "review_required")
    BY RowTypes DEF WorkspaceInv, RowsFollowTheLedger, RowType
  <2>6. view.audit[i] = assessments[i].events
    BY <2>1, <2>4, <2>5
  <2>7. view.rows[i].status = assessments[i].status
    BY <2>1, <2>4, <2>5 DEF RowsWereReal
  <2>8. QED
    BY <2>1, <2>4, <2>6, <2>7
<1>2. QED
  BY <1>1, WorkspaceInvariant, PTL DEF AcceptedReviewsSawTheLedger
===============================================================================

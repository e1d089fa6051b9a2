------------------------- MODULE AssessmentReview -------------------------
(***************************************************************************)
(* Human review of automatic eligibility assessments and its reopening by  *)
(* notice changes: AssessmentRepository.review, the audit chain it         *)
(* validates, the rows appended by a search or a reverse match, and the    *)
(* update NoticeAnalyzer.record_change makes to those rows.                *)
(*                                                                         *)
(* The database is SQLite behind SQLAlchemy's pysqlite transaction         *)
(* control: no BEGIN is sent before the first INSERT, UPDATE or DELETE, so *)
(* each SELECT of a handler sees the database of its own instant, and      *)
(* everything from the first write to the COMMIT is one atomic step.  A    *)
(* review is therefore three steps of its session: LoadAssessment,         *)
(* ReadAudit and CommitReview.                                             *)
(*                                                                         *)
(* Immutable columns (rule_assessments.*, assessments.final_status) are    *)
(* constants.  Actor, reason and timestamps are left out: attribution is   *)
(* checked before the first read and touches no state.                     *)
(***************************************************************************)
EXTENDS Naturals, Sequences, Eligibility

CONSTANTS
  Assessments,      \* ids of assessments rows that may come to exist
  Programs,         \* ids of programs rows
  ProgramOf,        \* assessments.program_id
  RuleAssessments,  \* ids of rule_assessments rows
  Reviewers,        \* concurrent review requests (one session each)
  BadId,            \* a non-positive identity in a submitted override
  OwnerOf,          \* rule_assessments.assessment_id
  RuleOf,           \* rule_assessments.rule_id
  AutomaticStatus,  \* rule_assessments.status
  Forms,            \* override tuples a reviewer may submit
  MaxReviews,       \* bound: committed reviews per assessment
  MaxChanges        \* bound: change sets impacting one assessment

Rules == {RuleOf[ra] : ra \in RuleAssessments}

Override == [ra: RuleAssessments \cup {BadId}, rule: Rules \cup {BadId},
             status: ConditionStatus]

ASSUME ReviewAssumption ==
  /\ Assessments # {}
  /\ ProgramOf \in [Assessments -> Programs]
  /\ BadId \notin RuleAssessments /\ BadId \notin Rules
  /\ OwnerOf \in [RuleAssessments -> Assessments]
  /\ AutomaticStatus \in [RuleAssessments -> ConditionStatus]
  /\ DOMAIN RuleOf = RuleAssessments
  /\ Forms \subseteq Seq(Override)
  /\ MaxReviews \in Nat /\ MaxChanges \in Nat

VARIABLES
  stored,     \* assessments persisted so far
  status,     \* assessments.review_status
  revision,   \* assessments.review_revision
  audit,      \* audit_events of entity_type "assessment", oldest first
  impacts,    \* number of change_impacts rows of each assessment
  session,    \* state of each review request
  reopenedAt  \* history: impacts[a] when record_change last reopened a

vars == <<stored, status, revision, audit, impacts, session, reopenedAt>>

-----------------------------------------------------------------------------
(* Snapshots written to the audit ledger (review_builders.py).             *)

Conditions(a) == {ra \in RuleAssessments : OwnerOf[ra] = a}

EffectiveStatus(ra, overrides) ==
  IF \E o \in overrides : o.ra = ra
  THEN (CHOOSE o \in overrides : o.ra = ra).status
  ELSE AutomaticStatus[ra]

EffectiveFinalStatus(a, overrides) ==
  AggregateFinalStatus({EffectiveStatus(ra, overrides) : ra \in Conditions(a)})

Snapshot == [status: ReviewStatus, revision: Nat, final: FinalStatus,
             overrides: SUBSET Override]

ReviewSnapshot(a, st, rev, overrides) ==
  [status    |-> st,
   revision  |-> rev,
   final     |-> EffectiveFinalStatus(a, overrides),
   overrides |-> overrides]

(* Seeded fault: the status of the row is taken for granted.               *)
FaultAlwaysAutomatic(a, st, rev) == ReviewSnapshot(a, "automatic", rev, {})

AutomaticSnapshot(a, st, rev) == ReviewSnapshot(a, st, rev, {})

CompletedSnapshot(a, rev, overrides) ==
  ReviewSnapshot(a, "reviewed", rev, overrides)

(***************************************************************************)
(* validate_review_overrides: the identity and duplicate checks look at    *)
(* the whole tuple, then the first override that is unknown or foreign     *)
(* decides.                                                                *)
(***************************************************************************)
IsUnknown(o) == o.ra \notin RuleAssessments \/ OwnerOf[o.ra] \notin stored

IsForeign(a, o) == OwnerOf[o.ra] # a \/ RuleOf[o.ra] # o.rule

FirstRefused(a, form) ==
  {i \in DOMAIN form :
     /\ IsUnknown(form[i]) \/ IsForeign(a, form[i])
     /\ \A j \in 1..(i - 1) : ~IsUnknown(form[j]) /\ ~IsForeign(a, form[j])}

(* Seeded fault: only identical overrides count as duplicates.             *)
FaultSameOverride(form) ==
  \E i, j \in DOMAIN form : i # j /\ form[i] = form[j]

HasDuplicate(form) ==
  \E i, j \in DOMAIN form :
    i # j /\ (form[i].ra = form[j].ra \/ form[i].rule = form[j].rule)

OverrideErrors(a, form) ==
  CASE \E i \in DOMAIN form : BadId \in {form[i].ra, form[i].rule}
         -> {"invalid_override_identity"}
    [] /\ \A i \in DOMAIN form : BadId \notin {form[i].ra, form[i].rule}
       /\ HasDuplicate(form)
         -> {"duplicate_override"}
    [] OTHER
         -> {IF IsUnknown(form[i]) THEN "unknown_rule_assessment"
                                   ELSE "foreign_rule_assessment"
               : i \in FirstRefused(a, form)}

(* validate_assessment_after_state: the conjuncts on immutable rows hold.  *)
AfterStateAgrees(state, st, rev) == state.status = st /\ state.revision = rev

-----------------------------------------------------------------------------
Answers ==
  {"none", "reviewed", "assessment_not_found", "concurrent_change",
   "malformed_assessment", "malformed_audit", "invalid_override_identity",
   "duplicate_override", "unknown_rule_assessment",
   "foreign_rule_assessment", "aborted"}

Session == [pc: {"idle", "open", "loaded", "checked"},
            target: Assessments,
            expected: Nat,          \* form field expected_review_revision
            form: Forms \cup {<<>>},
            status: ReviewStatus,   \* row as refreshed by this session
            revision: Nat,
            before: Snapshot,       \* before_json it would append
            answer: Answers,
            seen: Nat]              \* history: impacts[target] at the refresh

NoSession ==
  LET a == CHOOSE a \in Assessments : TRUE IN
  [pc |-> "idle", target |-> a, expected |-> 0, form |-> <<>>,
   status |-> "automatic", revision |-> 0,
   before |-> AutomaticSnapshot(a, "automatic", 0),
   answer |-> "none", seen |-> 0]

Init ==
  /\ stored = {}
  /\ status = [a \in Assessments |-> "automatic"]
  /\ revision = [a \in Assessments |-> 0]
  /\ audit = [a \in Assessments |-> <<>>]
  /\ impacts = [a \in Assessments |-> 0]
  /\ reopenedAt = [a \in Assessments |-> 0]
  /\ session = [r \in Reviewers |-> NoSession]

(***************************************************************************)
(* append_assessment: a search or a reverse match stores a new immutable   *)
(* assessment, "review_required" when one of its rules is.                 *)
(***************************************************************************)
PersistAssessment(a) ==
  /\ a \notin stored
  /\ stored' = stored \cup {a}
  /\ \E st \in {"automatic", "review_required"} :
       status' = [status EXCEPT ![a] = st]
  /\ UNCHANGED <<revision, audit, impacts, session, reopenedAt>>

(***************************************************************************)
(* record_change of a notice of program p: one impact row for each of its  *)
(* assessments, and the reviewed ones are reopened.  Neither the revision  *)
(* nor the ledger is written.                                              *)
(***************************************************************************)
Impacted(p) == {a \in stored : ProgramOf[a] = p}

Reopened(p) == {a \in Impacted(p) : status[a] = "reviewed"}

RecordChange(p) ==
  /\ Impacted(p) # {}
  /\ \A a \in Impacted(p) : impacts[a] < MaxChanges
  /\ impacts' = [a \in Assessments |->
                   IF a \in Impacted(p) THEN impacts[a] + 1 ELSE impacts[a]]
  /\ status' = [a \in Assessments |->
                  IF a \in Reopened(p) THEN "review_required" ELSE status[a]]
  /\ reopenedAt' = [a \in Assessments |->
                      IF a \in Reopened(p) THEN impacts[a] + 1
                                           ELSE reopenedAt[a]]
  /\ UNCHANGED <<stored, revision, audit, session>>

-----------------------------------------------------------------------------
(* One review request.                                                     *)

(* The page is rendered with the row's revision in a hidden field, for the *)
(* request to send back.                                                   *)
OpenForm(r, a) ==
  /\ session[r].pc = "idle"
  /\ session' = [session EXCEPT ![r].pc = "open",
                                ![r].target = a,
                                ![r].expected = revision[a],
                                ![r].answer = "none"]
  /\ UNCHANGED <<stored, status, revision, audit, impacts, reopenedAt>>

(* An answer leaves the page open, so the browser may submit it again; the *)
(* server keeps nothing of the request.                                    *)
Answer(r, code) ==
  session' = [session EXCEPT ![r].pc = "open", ![r].form = <<>>,
                             ![r].before = NoSession.before,
                             ![r].seen = 0, ![r].answer = code]

LoadErrors(r, form) ==
  LET a == session[r].target IN
  CASE a \notin stored
         -> {"assessment_not_found"}
    [] a \in stored /\ revision[a] # session[r].expected
         -> {"concurrent_change"}
    [] /\ a \in stored /\ revision[a] = session[r].expected
       /\ OverrideErrors(a, form) # {}
         -> OverrideErrors(a, form)
    [] OTHER
         -> IF Conditions(a) = {} THEN {"malformed_assessment"} ELSE {}

(***************************************************************************)
(* refresh(assessment), the revision check, the immutable condition rows   *)
(* and build_assessment_review.                                            *)
(***************************************************************************)
LoadAssessment(r, form) ==
  LET a == session[r].target IN
  /\ session[r].pc = "open"
  /\ Len(audit[a]) < MaxReviews
  /\ \/ \E code \in LoadErrors(r, form) : Answer(r, code)
     \/ /\ LoadErrors(r, form) = {}
        /\ session' = [session EXCEPT ![r].pc = "loaded",
                                      ![r].form = form,
                                      ![r].status = status[a],
                                      ![r].revision = revision[a],
                                      ![r].seen = impacts[a],
                                      ![r].answer = "none"]
  /\ UNCHANGED <<stored, status, revision, audit, impacts, reopenedAt>>

(* _latest_audit_after and the chain check, a SELECT of its own.           *)
ReadAudit(r) ==
  LET a     == session[r].target
      s     == session[r]
      prior == audit[a][Len(audit[a])].after
  IN
  /\ s.pc = "loaded"
  /\ \/ /\ audit[a] = <<>>
        /\ session' = [session EXCEPT
             ![r].pc = "checked",
             ![r].before = AutomaticSnapshot(a, s.status, s.revision)]
     \/ /\ audit[a] # <<>>
        /\ AfterStateAgrees(prior, s.status, s.revision)
        /\ session' = [session EXCEPT ![r].pc = "checked", ![r].before = prior]
     \/ /\ audit[a] # <<>>
        /\ ~AfterStateAgrees(prior, s.status, s.revision)
        /\ Answer(r, "malformed_audit")
  /\ UNCHANGED <<stored, status, revision, audit, impacts, reopenedAt>>

(* Seeded faults of the WHERE clause: each compares one column too few.    *)
FaultIgnoresRevision(r) == status[session[r].target] = session[r].status

FaultIgnoresStatus(r) == revision[session[r].target] = session[r].expected

FaultOnlyAutomatic(r) ==
  status[session[r].target] = "automatic" /\ FaultIgnoresStatus(r)

(* The optimistic UPDATE and its WHERE clause.                             *)
RowUnchanged(r) ==
  LET a == session[r].target IN
  status[a] = session[r].status /\ revision[a] = session[r].expected

(***************************************************************************)
(* override_by_id.  Forms are what a caller may hand to the repository;    *)
(* the web form is narrower, as its route answers 422 unless each          *)
(* condition of the assessment is in it once.                              *)
(***************************************************************************)
SubmittedOverrides(r) ==
  {session[r].form[i] : i \in DOMAIN session[r].form}

CommitReview(r) ==
  LET a    == session[r].target
      next == session[r].revision + 1
  IN
  /\ session[r].pc = "checked"
  /\ IF RowUnchanged(r)
     THEN /\ status' = [status EXCEPT ![a] = "reviewed"]
          /\ revision' = [revision EXCEPT ![a] = next]
          /\ audit' = [audit EXCEPT ![a] = Append(@,
               [before |-> session[r].before,
                after  |-> CompletedSnapshot(a, next, SubmittedOverrides(r))])]
          /\ Answer(r, "reviewed")
     ELSE /\ Answer(r, "concurrent_change")
          /\ UNCHANGED <<status, revision, audit>>
  /\ UNCHANGED <<stored, impacts, reopenedAt>>

(***************************************************************************)
(* Any failure before COMMIT (a locked database, a rejected INSERT, a      *)
(* dropped connection) rolls the unit of work back.                        *)
(***************************************************************************)
AbortReview(r) ==
  /\ session[r].pc \in {"loaded", "checked"}
  /\ Answer(r, "aborted")
  /\ UNCHANGED <<stored, status, revision, audit, impacts, reopenedAt>>

(* The reviewer leaves the page; the next review starts from a fresh one.  *)
CloseForm(r) ==
  /\ session[r].pc = "open"
  /\ session' = [session EXCEPT ![r].pc = "idle"]
  /\ UNCHANGED <<stored, status, revision, audit, impacts, reopenedAt>>

ReviewStep(r) ==
  \/ \E a \in Assessments : OpenForm(r, a)
  \/ \E form \in Forms : LoadAssessment(r, form)
  \/ ReadAudit(r)
  \/ CommitReview(r)
  \/ AbortReview(r)
  \/ CloseForm(r)

Next ==
  \/ \E a \in Assessments : PersistAssessment(a)
  \/ \E p \in Programs : RecordChange(p)
  \/ \E r \in Reviewers : ReviewStep(r)

Spec == Init /\ [][Next]_vars

-----------------------------------------------------------------------------
(* Properties.                                                             *)

AuditEvent == [before: Snapshot, after: Snapshot]

(* Every variable keeps the shape of the rows and requests it stands for.  *)
TypeOK ==
  /\ stored \subseteq Assessments
  /\ status \in [Assessments -> ReviewStatus]
  /\ revision \in [Assessments -> Nat]
  /\ audit \in [Assessments -> Seq(AuditEvent)]
  /\ impacts \in [Assessments -> Nat]
  /\ session \in [Reviewers -> Session]
  /\ reopenedAt \in [Assessments -> Nat]

(***************************************************************************)
(* However reviews, replays and notice changes interleave, the ledger of   *)
(* an assessment is one line of reviews: event i goes from revision i-1 to *)
(* revision i, starts from the very state event i-1 left, and the row's    *)
(* revision is the number of events; a reviewed row has such an event.     *)
(***************************************************************************)
ReviewHistoryIsLinear ==
  \A a \in Assessments :
    /\ revision[a] = Len(audit[a])
    /\ status[a] = "reviewed" => audit[a] # <<>>
    /\ \A i \in 1..Len(audit[a]) :
         /\ audit[a][i].before.revision = i - 1
         /\ audit[a][i].after.revision = i
         /\ audit[a][i].after.status = "reviewed"
         /\ i > 1 => audit[a][i].before = audit[a][i - 1].after

(* Overrides of conditions of a, under their rules, one per condition.     *)
AreOwn(a, overrides) ==
  /\ \A o \in overrides : o.ra \in Conditions(a) /\ o.rule = RuleOf[o.ra]
  /\ \A o, other \in overrides : o.ra = other.ra => o = other

(***************************************************************************)
(* Whatever override tuples are submitted, the ledger of an assessment     *)
(* holds overrides of its own conditions only, under the condition's own   *)
(* rule, and never two for one condition, so an effective result can be    *)
(* recomputed from it.                                                     *)
(***************************************************************************)
AcceptedOverridesAreOwn ==
  \A a \in Assessments : \A i \in 1..Len(audit[a]) :
    AreOwn(a, audit[a][i].after.overrides)

(* What the abstract ledger shows of an event, and what it may accept.     *)
Shown(snapshot) ==
  [status |-> snapshot.status, overrides |-> snapshot.overrides]

Entry(event) == [before |-> Shown(event.before), after |-> Shown(event.after)]

Entries(events) == [i \in 1..Len(events) |-> Entry(events[i])]

Verdicts ==
  [a \in Assessments |->
     {o \in {{form[i] : i \in DOMAIN form} : form \in Forms} : AreOwn(a, o)}]

Ledger ==
  INSTANCE ReviewLedger WITH
    ledger <- [a \in Assessments |-> Entries(audit[a])]

(***************************************************************************)
(* A review is three steps of its session with other requests in between,  *)
(* but the ones that are accepted look as if each had happened in the      *)
(* instant of its commit: the before-state it logs is the assessment as it *)
(* stands there, though it was put together from earlier reads.  This is   *)
(* so for the row and the ledger, not for the changes that impacted it.    *)
(***************************************************************************)
ReviewsAreAtomic == Ledger!Spec

(***************************************************************************)
(* A review told "concurrent_change" really lost: the row it read, or the  *)
(* revision its form shows, is gone for good, so no retry of the same read *)
(* could have succeeded.                                                   *)
(***************************************************************************)
ConflictsAreReal ==
  \A r \in Reviewers :
    session[r].answer = "concurrent_change" =>
      \/ revision[session[r].target] # session[r].expected
      \/ status[session[r].target] # session[r].status

ReviewLands(r) ==
  session[r].pc = "checked" /\ session[r]'.answer = "reviewed"

(***************************************************************************)
(* A review that was under way when a change reopened its assessment never *)
(* closes it again: the review that lands has read the row after the       *)
(* latest reopening.                                                       *)
(***************************************************************************)
NoReopeningIsOverwritten ==
  [][\A r \in Reviewers :
       ReviewLands(r) => session[r].seen >= reopenedAt[session[r].target]]_vars

(***************************************************************************)
(* The strengthening that makes the two history properties inductive.  A   *)
(* session past its refresh holds the revision its form expects; while     *)
(* that is still the row's revision, the ledger has not grown since, so a  *)
(* checked session's before-state is the ledger's last after-state, and    *)
(* the status it read can only have been changed by a reopening.           *)
(***************************************************************************)
FollowsTheRow(s) ==
  LET a == s.target IN
  s.pc \in {"loaded", "checked"} =>
    /\ a \in stored
    /\ s.answer = "none"
    /\ s.revision = s.expected
    /\ s.revision = revision[a] /\ s.status # status[a] =>
         s.status = "reviewed" /\ status[a] = "review_required"
    /\ s.revision = revision[a] /\ s.status = status[a] =>
         s.seen >= reopenedAt[a]
    /\ s.pc = "checked" =>
         /\ s.before.revision = s.revision
         /\ s.revision = revision[a] /\ audit[a] # <<>> =>
              s.before = audit[a][Len(audit[a])].after

ReopeningsAreImpacts ==
  \A a \in Assessments : reopenedAt[a] <= impacts[a]

(* A form never shows a future revision, and a lost race stays lost.       *)
ConflictLasts(s) ==
  LET a == s.target IN
  /\ s.expected <= revision[a]
  /\ s.answer = "concurrent_change" =>
       /\ a \in stored
       /\ s.expected = revision[a] =>
            s.status = "reviewed" /\ status[a] = "review_required"

ReviewInv ==
  /\ TypeOK
  /\ ReviewHistoryIsLinear
  /\ ReopeningsAreImpacts
  /\ \A r \in Reviewers : FollowsTheRow(session[r])
  /\ \A r \in Reviewers : ConflictLasts(session[r])

(* A form that passed the refresh was checked against the immutable rows.  *)
LoadedFormIsOwn(r) ==
  session[r].pc \in {"loaded", "checked"} =>
    AreOwn(session[r].target, SubmittedOverrides(r))

OverridesInv ==
  /\ TypeOK
  /\ AcceptedOverridesAreOwn
  /\ \A r \in Reviewers : LoadedFormIsOwn(r)

(* A checked session has put its before-state together from what it read.  *)
BeforeIsRead(s) ==
  /\ s.pc \in {"loaded", "checked"} => s.form \in Forms
  /\ s.pc = "checked" =>
       /\ s.before.status = s.status
       /\ s.revision = 0 => s.before.overrides = {}

-----------------------------------------------------------------------------
(* What the repository says of these handlers and the code does not do.    *)

(***************************************************************************)
(* audit_chain.py:21 says the chain check rejects "prior review state that *)
(* disagrees with immutable automatic rows".  Those rows never change      *)
(* here, so a review that read the current row should not be refused as    *)
(* malformed; but a change reopens the row without an audit event, and     *)
(* from then on the check compares "reviewed" with "review_required".      *)
(***************************************************************************)
ReopenedAssessmentIsReviewable ==
  \A r \in Reviewers :
    LET a == session[r].target IN
    session[r].answer = "malformed_audit" =>
      <<status[a], revision[a]>> # <<session[r].status, session[r].revision>>
=============================================================================

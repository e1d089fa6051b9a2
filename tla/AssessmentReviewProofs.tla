---------------------- MODULE AssessmentReviewProofs ----------------------
(***************************************************************************)
(* For any set of assessments, reviewers, conditions and override forms:   *)
(* type correctness, the linear review history and the safety of           *)
(* reopenings.  ReviewInv is the inductive invariant; each action gets one *)
(* lemma for TypeOK and one for the rest of ReviewInv.                     *)
(***************************************************************************)
EXTENDS AssessmentReview, WellFoundedInduction, TLAPS

(* The fold of condition statuses is total.                                *)
LEMMA AggregateType ==
  ASSUME NEW S
  PROVE  AggregateFinalStatus(S) \in FinalStatus
BY DEF AggregateFinalStatus, FinalStatus

LEMMA SnapshotType ==
  ASSUME NEW a \in Assessments, NEW st \in ReviewStatus, NEW n \in Nat,
         NEW overrides \in SUBSET Override
  PROVE  ReviewSnapshot(a, st, n, overrides) \in Snapshot
BY AggregateType DEF ReviewSnapshot, EffectiveFinalStatus, Snapshot

LEMMA NoSessionType == NoSession \in Session
<1> DEFINE a == CHOOSE x \in Assessments : TRUE
<1>1. a \in Assessments
  BY ReviewAssumption
<1>2. ReviewSnapshot(a, "automatic", 0, {}) \in Snapshot
  BY <1>1, SnapshotType DEF ReviewStatus
<1>3. QED
  BY <1>1, <1>2 DEF NoSession, Session, AutomaticSnapshot, ReviewStatus, Answers

LEMMA InitType == Init => TypeOK
BY NoSessionType DEF Init, TypeOK, ReviewStatus

-----------------------------------------------------------------------------
(* TypeOK is preserved.                                                    *)

LEMMA AnswerType ==
  ASSUME TypeOK, NEW r \in Reviewers, NEW code \in Answers, Answer(r, code)
  PROVE  session' \in [Reviewers -> Session]
<1>1. session \in [Reviewers -> Session]
  BY DEF TypeOK
<1>2. [session[r] EXCEPT !.pc = "open", !.form = <<>>,
                         !.before = NoSession.before, !.seen = 0,
                         !.answer = code] \in Session
  BY <1>1, NoSessionType DEF Session
<1>3. session' = [session EXCEPT ![r] =
                   [session[r] EXCEPT !.pc = "open", !.form = <<>>,
                                      !.before = NoSession.before, !.seen = 0,
                                      !.answer = code]]
  BY <1>1 DEF Answer
<1>4. QED
  BY <1>1, <1>2, <1>3

LEMMA LoadErrorsType ==
  ASSUME NEW r, NEW form
  PROVE  LoadErrors(r, form) \subseteq Answers
BY DEF LoadErrors, OverrideErrors, Answers

LEMMA OverridesType ==
  ASSUME TypeOK, NEW r \in Reviewers
  PROVE  SubmittedOverrides(r) \in SUBSET Override
<1>1. session[r].form \in Forms \cup {<<>>}
  BY DEF TypeOK, Session
<1>2. <<>> \in Seq(Override)
  OBVIOUS
<1>3. session[r].form \in Seq(Override)
  BY <1>1, <1>2, ReviewAssumption
<1>4. QED
  BY <1>3 DEF SubmittedOverrides

LEMMA LastAfterType ==
  ASSUME TypeOK, NEW a \in Assessments, audit[a] # <<>>
  PROVE  /\ Len(audit[a]) \in 1..Len(audit[a])
         /\ audit[a][Len(audit[a])] \in AuditEvent
         /\ audit[a][Len(audit[a])].after \in Snapshot
<1>1. audit[a] \in Seq(AuditEvent)
  BY DEF TypeOK
<1>2. Len(audit[a]) \in 1..Len(audit[a])
  BY <1>1
<1>3. audit[a][Len(audit[a])] \in AuditEvent
  BY <1>1, <1>2
<1>4. QED
  BY <1>2, <1>3 DEF AuditEvent

LEMMA CommitType ==
  ASSUME TypeOK, NEW r \in Reviewers, CommitReview(r)
  PROVE  TypeOK'
<1> DEFINE a    == session[r].target
           next == session[r].revision + 1
           done == CompletedSnapshot(a, next, SubmittedOverrides(r))
<1>1. session[r] \in Session
  BY DEF TypeOK
<1>2. a \in Assessments /\ next \in Nat /\ session[r].before \in Snapshot
  BY <1>1 DEF Session
<1>3. done \in Snapshot
  BY <1>2, SnapshotType, OverridesType DEF CompletedSnapshot, ReviewStatus
<1>4. CASE RowUnchanged(r)
  <2>1. status' \in [Assessments -> ReviewStatus]
    BY <1>4, <1>2 DEF CommitReview, TypeOK, ReviewStatus
  <2>2. revision' \in [Assessments -> Nat]
    BY <1>4, <1>2 DEF CommitReview, TypeOK
  <2>3. [before |-> session[r].before, after |-> done] \in AuditEvent
    BY <1>2, <1>3 DEF AuditEvent
  <2>4. audit' = [audit EXCEPT ![a] = Append(@,
          [before |-> session[r].before, after |-> done])]
    BY <1>4 DEF CommitReview
  <2>5. Append(audit[a], [before |-> session[r].before, after |-> done])
          \in Seq(AuditEvent)
    BY <1>2, <2>3 DEF TypeOK
  <2>6. audit' \in [Assessments -> Seq(AuditEvent)]
    BY <2>4, <2>5, <1>2 DEF TypeOK
  <2>7. session' \in [Reviewers -> Session]
    <3>1. Answer(r, "reviewed")
      BY <1>4 DEF CommitReview, Answer
    <3>2. QED
      BY <3>1, AnswerType DEF Answers
  <2>8. QED
    BY <2>1, <2>2, <2>6, <2>7 DEF CommitReview, TypeOK
<1>5. CASE ~RowUnchanged(r)
  <2>1. session' \in [Reviewers -> Session]
    BY <1>5, AnswerType DEF CommitReview, Answers
  <2>2. QED
    BY <1>5, <2>1 DEF CommitReview, TypeOK
<1>6. QED
  BY <1>4, <1>5

LEMMA ReadAuditType ==
  ASSUME TypeOK, NEW r \in Reviewers, ReadAudit(r)
  PROVE  TypeOK'
<1> DEFINE a == session[r].target
           s == session[r]
           prior == audit[a][Len(audit[a])].after
<1>1. s \in Session /\ a \in Assessments
  BY DEF TypeOK, Session
<1>2. CASE /\ audit[a] = <<>>
           /\ session' = [session EXCEPT
                ![r].pc = "checked",
                ![r].before = AutomaticSnapshot(a, s.status, s.revision)]
  <2>1. AutomaticSnapshot(a, s.status, s.revision) \in Snapshot
    BY <1>1, SnapshotType DEF AutomaticSnapshot, Session
  <2>2. QED
    BY <1>1, <1>2, <2>1 DEF ReadAudit, TypeOK, Session
<1>3. CASE /\ audit[a] # <<>>
           /\ session' = [session EXCEPT ![r].pc = "checked",
                                         ![r].before = prior]
  <2>1. prior \in Snapshot
    BY <1>1, <1>3, LastAfterType
  <2>2. QED
    BY <1>1, <1>3, <2>1 DEF ReadAudit, TypeOK, Session
<1>4. CASE Answer(r, "malformed_audit")
  BY <1>4, AnswerType DEF ReadAudit, TypeOK, Answers
<1>5. QED
  BY <1>2, <1>3, <1>4 DEF ReadAudit

LEMMA LoadedType ==
  ASSUME NEW s \in Session, NEW form \in Forms, NEW st \in ReviewStatus,
         NEW n \in Nat, NEW seen \in Nat
  PROVE  [s EXCEPT !.pc = "loaded", !.form = form, !.status = st,
                   !.revision = n, !.seen = seen, !.answer = "none"] \in Session
BY DEF Session, Answers

LEMMA OpenedType ==
  ASSUME NEW s \in Session, NEW a \in Assessments, NEW n \in Nat
  PROVE  [s EXCEPT !.pc = "open", !.target = a, !.expected = n,
                   !.answer = "none"] \in Session
BY DEF Session, Answers

LEMMA NextType ==
  ASSUME TypeOK, [Next]_vars
  PROVE  TypeOK'
<1>1. ASSUME NEW a \in Assessments, PersistAssessment(a)
      PROVE  TypeOK'
  BY <1>1 DEF PersistAssessment, TypeOK, ReviewStatus
<1>2. ASSUME NEW p \in Programs, RecordChange(p)
      PROVE  TypeOK'
  BY <1>2 DEF RecordChange, TypeOK, ReviewStatus
<1>3. ASSUME NEW r \in Reviewers, NEW a \in Assessments, OpenForm(r, a)
      PROVE  TypeOK'
  <2>1. session[r] \in Session /\ revision[a] \in Nat
    BY DEF TypeOK
  <2>2. session' = [session EXCEPT ![r] =
                     [session[r] EXCEPT !.pc = "open", !.target = a,
                        !.expected = revision[a], !.answer = "none"]]
    BY <1>3 DEF OpenForm, TypeOK
  <2>3. session' \in [Reviewers -> Session]
    BY <2>1, <2>2, OpenedType DEF TypeOK
  <2>4. QED
    BY <1>3, <2>3 DEF OpenForm, TypeOK
<1>4. ASSUME NEW r \in Reviewers, NEW form \in Forms, LoadAssessment(r, form)
      PROVE  TypeOK'
  <2>1. session' \in [Reviewers -> Session]
    <3>1. CASE \E code \in LoadErrors(r, form) : Answer(r, code)
      BY <3>1, LoadErrorsType, AnswerType
    <3>2. CASE session' = [session EXCEPT ![r].pc = "loaded",
                            ![r].form = form,
                            ![r].status = status[session[r].target],
                            ![r].revision = revision[session[r].target],
                            ![r].seen = impacts[session[r].target],
                            ![r].answer = "none"]
      <4> DEFINE a == session[r].target
      <4>1. session[r] \in Session /\ a \in Assessments
        BY DEF TypeOK, Session
      <4>2. [session[r] EXCEPT !.pc = "loaded", !.form = form,
               !.status = status[a], !.revision = revision[a],
               !.seen = impacts[a], !.answer = "none"] \in Session
        BY <4>1, LoadedType DEF TypeOK
      <4>3. QED
        BY <3>2, <4>2 DEF TypeOK
    <3>3. QED
      BY <1>4, <3>1, <3>2 DEF LoadAssessment
  <2>2. QED
    BY <1>4, <2>1 DEF LoadAssessment, TypeOK
<1>5. ASSUME NEW r \in Reviewers, ReadAudit(r)
      PROVE  TypeOK'
  BY <1>5, ReadAuditType
<1>6. ASSUME NEW r \in Reviewers, CommitReview(r)
      PROVE  TypeOK'
  BY <1>6, CommitType
<1>7. ASSUME NEW r \in Reviewers, AbortReview(r)
      PROVE  TypeOK'
  BY <1>7, AnswerType DEF AbortReview, TypeOK, Answers
<1>8. ASSUME NEW r \in Reviewers, CloseForm(r)
      PROVE  TypeOK'
  BY <1>8 DEF CloseForm, TypeOK, Session
<1>9. CASE UNCHANGED vars
  BY <1>9 DEF vars, TypeOK
<1>10. QED
  BY <1>1, <1>2, <1>3, <1>4, <1>5, <1>6, <1>7, <1>8, <1>9
     DEF Next, ReviewStep

(***************************************************************************)
(* Every reachable state of the review handlers is well typed.             *)
(***************************************************************************)
THEOREM TypeCorrect == Spec => []TypeOK
<1>1. Init => TypeOK
  BY InitType
<1>2. TypeOK /\ [Next]_vars => TypeOK'
  BY NextType
<1>3. QED
  BY <1>1, <1>2, PTL DEF Spec

-----------------------------------------------------------------------------
(* ReviewInv is preserved.                                                 *)

LEMMA InitInv == Init => ReviewInv
<1> SUFFICES ASSUME Init PROVE ReviewInv
  OBVIOUS
<1>1. TypeOK
  BY InitType
<1>2. ReviewHistoryIsLinear /\ ReopeningsAreImpacts
  BY DEF Init, ReviewHistoryIsLinear, ReopeningsAreImpacts
<1>3. \A r \in Reviewers : /\ session[r].pc = "idle"
                            /\ session[r].answer = "none"
                            /\ session[r].expected = 0
                            /\ session[r].target \in Assessments
  BY <1>1 DEF Init, NoSession, TypeOK, Session
<1>4. \A r \in Reviewers : FollowsTheRow(session[r])
  BY <1>3 DEF FollowsTheRow
<1>5. \A r \in Reviewers : ConflictLasts(session[r])
  BY <1>3 DEF ConflictLasts, Init
<1>6. QED
  BY <1>1, <1>2, <1>4, <1>5 DEF ReviewInv

(* A step that leaves the rows alone only has to answer for its session.   *)
LEMMA SessionStep ==
  ASSUME ReviewInv, NEW r \in Reviewers, TypeOK',
         UNCHANGED <<stored, status, revision, audit, impacts, reopenedAt>>,
         \A q \in Reviewers \ {r} : session'[q] = session[q],
         FollowsTheRow(session[r])', ConflictLasts(session[r])'
  PROVE  ReviewInv'
<1>1. ReviewHistoryIsLinear' /\ ReopeningsAreImpacts'
  BY DEF ReviewInv, ReviewHistoryIsLinear, ReopeningsAreImpacts
<1>2. ASSUME NEW q \in Reviewers
      PROVE  FollowsTheRow(session[q])' /\ ConflictLasts(session[q])'
  <2>1. CASE q = r
    BY <2>1
  <2>2. CASE q # r
    BY <2>2 DEF ReviewInv, FollowsTheRow, ConflictLasts
  <2>3. QED
    BY <2>1, <2>2
<1>3. QED
  BY <1>1, <1>2 DEF ReviewInv

LEMMA AnswerInv ==
  ASSUME ReviewInv, NEW r \in Reviewers, NEW code \in Answers,
         Answer(r, code), TypeOK',
         UNCHANGED <<stored, status, revision, audit, impacts, reopenedAt>>,
         code = "concurrent_change" =>
           LET s == session[r]
               a == session[r].target
           IN /\ a \in stored
              /\ s.expected = revision[a] =>
                   s.status = "reviewed" /\ status[a] = "review_required"
  PROVE  ReviewInv'
<1>1. session[r] \in Session /\ session \in [Reviewers -> Session]
  BY DEF ReviewInv, TypeOK
<1>2. session'[r] = [session[r] EXCEPT !.pc = "open", !.form = <<>>,
                                       !.before = NoSession.before, !.seen = 0,
                                       !.answer = code]
  BY <1>1 DEF Answer
<1>3. \A q \in Reviewers \ {r} : session'[q] = session[q]
  BY <1>1 DEF Answer
<1>4. /\ session'[r].pc = "open"
      /\ session'[r].answer = code
      /\ session'[r].expected = session[r].expected
      /\ session'[r].target = session[r].target
      /\ session'[r].status = session[r].status
  BY <1>1, <1>2 DEF Session
<1>5. FollowsTheRow(session[r])'
  BY <1>4 DEF FollowsTheRow
<1>6. ConflictLasts(session[r])
  BY DEF ReviewInv
<1>7. ConflictLasts(session[r])'
  BY <1>4, <1>6 DEF ConflictLasts
<1>8. QED
  BY <1>3, <1>5, <1>7, SessionStep

LEMMA LoadErrorsAreConflicts ==
  ASSUME TypeOK, NEW r \in Reviewers, NEW form
  PROVE  /\ LoadErrors(r, form) = {} =>
              /\ session[r].target \in stored
              /\ revision[session[r].target] = session[r].expected
         /\ "concurrent_change" \in LoadErrors(r, form) =>
              /\ session[r].target \in stored
              /\ revision[session[r].target] # session[r].expected
BY DEF LoadErrors, OverrideErrors

LEMMA LoadInv ==
  ASSUME ReviewInv, NEW r \in Reviewers, NEW form \in Forms,
         LoadAssessment(r, form), TypeOK'
  PROVE  ReviewInv'
<1> DEFINE a == session[r].target
<1>1. /\ TypeOK /\ session[r] \in Session
      /\ session \in [Reviewers -> Session] /\ a \in Assessments
  BY DEF ReviewInv, TypeOK, Session
<1>2. UNCHANGED <<stored, status, revision, audit, impacts, reopenedAt>>
  BY DEF LoadAssessment
<1>3. CASE \E code \in LoadErrors(r, form) : Answer(r, code)
  <2>1. PICK code \in LoadErrors(r, form) : Answer(r, code)
    BY <1>3
  <2>2. code \in Answers
    BY LoadErrorsType
  <2>3. code = "concurrent_change" => a \in stored /\ session[r].expected # revision[a]
    BY <1>1, LoadErrorsAreConflicts
  <2>4. QED
    BY <1>2, <2>1, <2>2, <2>3, AnswerInv
<1>4. CASE /\ LoadErrors(r, form) = {}
           /\ session' = [session EXCEPT ![r].pc = "loaded",
                            ![r].form = form,
                            ![r].status = status[a],
                            ![r].revision = revision[a],
                            ![r].seen = impacts[a],
                            ![r].answer = "none"]
  <2>1. a \in stored /\ revision[a] = session[r].expected
    BY <1>1, <1>4, LoadErrorsAreConflicts
  <2>2. /\ session'[r].pc = "loaded"
        /\ session'[r].answer = "none"
        /\ session'[r].expected = session[r].expected
        /\ session'[r].target = a
        /\ session'[r].status = status[a]
        /\ session'[r].revision = revision[a]
        /\ session'[r].seen = impacts[a]
    BY <1>1, <1>4 DEF Session
  <2>3. \A q \in Reviewers \ {r} : session'[q] = session[q]
    BY <1>1, <1>4
  <2>4. impacts[a] >= reopenedAt[a]
    BY <1>1 DEF ReviewInv, ReopeningsAreImpacts, TypeOK
  <2>5. FollowsTheRow(session[r])'
    BY <1>2, <2>1, <2>2, <2>4 DEF FollowsTheRow
  <2>6. ConflictLasts(session[r])'
    <3>1. ConflictLasts(session[r])
      BY DEF ReviewInv
    <3>2. QED
      BY <1>2, <2>2, <3>1 DEF ConflictLasts
  <2>7. QED
    BY <1>2, <2>3, <2>5, <2>6, SessionStep
<1>5. QED
  BY <1>3, <1>4 DEF LoadAssessment

LEMMA ReadAuditInv ==
  ASSUME ReviewInv, NEW r \in Reviewers, ReadAudit(r), TypeOK'
  PROVE  ReviewInv'
<1> DEFINE a == session[r].target
           s == session[r]
           prior == audit[a][Len(audit[a])].after
<1>1. /\ TypeOK /\ s \in Session
      /\ session \in [Reviewers -> Session] /\ a \in Assessments
  BY DEF ReviewInv, TypeOK, Session
<1>2. UNCHANGED <<stored, status, revision, audit, impacts, reopenedAt>>
  BY DEF ReadAudit
<1>3. FollowsTheRow(s) /\ ConflictLasts(s) /\ s.pc = "loaded"
  BY DEF ReviewInv, ReadAudit
<1>4. ASSUME NEW before,
             session' = [session EXCEPT ![r].pc = "checked",
                                        ![r].before = before],
             before.revision = s.revision,
             audit[a] # <<>> => before = prior
      PROVE  ReviewInv'
  <2>1. /\ session'[r].pc = "checked"
        /\ session'[r].answer = s.answer
        /\ session'[r].expected = s.expected
        /\ session'[r].target = a
        /\ session'[r].status = s.status
        /\ session'[r].revision = s.revision
        /\ session'[r].seen = s.seen
        /\ session'[r].before = before
    BY <1>1, <1>4 DEF Session
  <2>2. \A q \in Reviewers \ {r} : session'[q] = session[q]
    BY <1>1, <1>4
  <2>3. FollowsTheRow(session[r])'
    BY <1>2, <1>3, <1>4, <2>1 DEF FollowsTheRow
  <2>4. ConflictLasts(session[r])'
    BY <1>2, <1>3, <2>1 DEF ConflictLasts
  <2>5. QED
    BY <1>2, <2>2, <2>3, <2>4, SessionStep
<1>5. CASE /\ audit[a] = <<>>
           /\ session' = [session EXCEPT
                ![r].pc = "checked",
                ![r].before = AutomaticSnapshot(a, s.status, s.revision)]
  <2>1. AutomaticSnapshot(a, s.status, s.revision).revision = s.revision
    BY DEF AutomaticSnapshot, ReviewSnapshot
  <2>2. QED
    BY <1>4, <1>5, <2>1
<1>6. CASE /\ audit[a] # <<>>
           /\ AfterStateAgrees(prior, s.status, s.revision)
           /\ session' = [session EXCEPT ![r].pc = "checked",
                                         ![r].before = prior]
  BY <1>4, <1>6 DEF AfterStateAgrees
<1>7. CASE Answer(r, "malformed_audit")
  BY <1>2, <1>7, AnswerInv DEF Answers
<1>8. QED
  BY <1>5, <1>6, <1>7 DEF ReadAudit

LEMMA CommitInv ==
  ASSUME ReviewInv, NEW r \in Reviewers, CommitReview(r), TypeOK'
  PROVE  ReviewInv'
<1> DEFINE a    == session[r].target
           s    == session[r]
           next == session[r].revision + 1
           done == CompletedSnapshot(a, next, SubmittedOverrides(r))
           event == [before |-> s.before, after |-> done]
<1>1. /\ TypeOK /\ s \in Session
      /\ session \in [Reviewers -> Session] /\ a \in Assessments
      /\ s.revision \in Nat
  BY DEF ReviewInv, TypeOK, Session
<1>2. FollowsTheRow(s) /\ s.pc = "checked"
  BY DEF ReviewInv, CommitReview
<1>3. CASE ~RowUnchanged(r)
  <2>1. s.expected = revision[a] =>
          s.status = "reviewed" /\ status[a] = "review_required"
    BY <1>2, <1>3 DEF FollowsTheRow, RowUnchanged
  <2>2. a \in stored
    BY <1>2 DEF FollowsTheRow
  <2>3. QED
    BY <1>3, <2>1, <2>2, AnswerInv DEF CommitReview, Answers
<1>4. CASE RowUnchanged(r)
  <2>1. s.revision = revision[a] /\ s.expected = revision[a]
    BY <1>2, <1>4 DEF RowUnchanged, FollowsTheRow
  <2>2. /\ status' = [status EXCEPT ![a] = "reviewed"]
        /\ revision' = [revision EXCEPT ![a] = next]
        /\ audit' = [audit EXCEPT ![a] = Append(@, event)]
        /\ Answer(r, "reviewed")
        /\ UNCHANGED <<stored, impacts, reopenedAt>>
    BY <1>4 DEF CommitReview
  <2>3. /\ audit[a] \in Seq(AuditEvent)
        /\ revision[a] = Len(audit[a])
        /\ event.before = s.before /\ event.after = done
    BY <1>1 DEF ReviewInv, TypeOK, ReviewHistoryIsLinear
  <2>4. done.revision = next /\ done.status = "reviewed"
    BY DEF CompletedSnapshot, ReviewSnapshot
  <2>5. /\ s.before.revision = Len(audit[a])
        /\ audit[a] # <<>> => s.before = audit[a][Len(audit[a])].after
    BY <1>2, <2>1, <2>3 DEF FollowsTheRow
  <2>6. /\ audit'[a] = Append(audit[a], event)
        /\ Len(audit'[a]) = Len(audit[a]) + 1
        /\ audit'[a] # <<>>
        /\ audit'[a][Len(audit[a]) + 1] = event
        /\ \A i \in 1..Len(audit[a]) : audit'[a][i] = audit[a][i]
    <3>1. audit'[a] = Append(audit[a], event)
      BY <1>1, <2>2 DEF TypeOK
    <3>2. ASSUME NEW q \in Seq(AuditEvent), NEW e
          PROVE  /\ Len(Append(q, e)) = Len(q) + 1
                 /\ Append(q, e) # <<>>
                 /\ Append(q, e)[Len(q) + 1] = e
                 /\ \A i \in 1..Len(q) : Append(q, e)[i] = q[i]
      OBVIOUS
    <3>3. QED
      BY <2>3, <3>1, <3>2
  <2>7. ReviewHistoryIsLinear'
    <3> SUFFICES ASSUME NEW b \in Assessments
                 PROVE  /\ revision'[b] = Len(audit'[b])
                        /\ status'[b] = "reviewed" => audit'[b] # <<>>
                        /\ \A i \in 1..Len(audit'[b]) :
                             /\ audit'[b][i].before.revision = i - 1
                             /\ audit'[b][i].after.revision = i
                             /\ audit'[b][i].after.status = "reviewed"
                             /\ i > 1 => audit'[b][i].before
                                            = audit'[b][i - 1].after
      BY DEF ReviewHistoryIsLinear
    <3>1. CASE b # a
      BY <1>1, <2>2, <3>1 DEF ReviewInv, ReviewHistoryIsLinear, TypeOK
    <3>2. CASE b = a
      <4>1. revision'[a] = Len(audit'[a])
        BY <1>1, <2>1, <2>2, <2>3, <2>6 DEF TypeOK
      <4>2. ASSUME NEW i \in 1..Len(audit'[a])
            PROVE  /\ audit'[a][i].before.revision = i - 1
                   /\ audit'[a][i].after.revision = i
                   /\ audit'[a][i].after.status = "reviewed"
                   /\ i > 1 => audit'[a][i].before = audit'[a][i - 1].after
        <5>0. Len(audit[a]) \in Nat
          BY <2>3
        <5>1. CASE i \in 1..Len(audit[a])
          <6>1. audit'[a][i] = audit[a][i]
            BY <2>6, <5>1
          <6>2. i > 1 => audit'[a][i - 1] = audit[a][i - 1]
            BY <2>6, <5>0, <5>1
          <6>3. QED
            BY <1>1, <5>1, <6>1, <6>2 DEF ReviewInv, ReviewHistoryIsLinear
        <5>2. CASE i = Len(audit[a]) + 1
          <6>1. i > 1 => audit[a] # <<>> /\ audit'[a][i - 1] = audit[a][Len(audit[a])]
            BY <2>3, <2>6, <5>0, <5>2
          <6>2. QED
            BY <2>1, <2>3, <2>4, <2>5, <2>6, <5>0, <5>2, <6>1
        <5>3. QED
          BY <2>6, <5>0, <5>1, <5>2
      <4>3. QED
        BY <2>6, <3>2, <4>1, <4>2
    <3>3. QED
      BY <3>1, <3>2
  <2>8. ReopeningsAreImpacts'
    BY <2>2 DEF ReviewInv, ReopeningsAreImpacts
  <2>9. ASSUME NEW q \in Reviewers
        PROVE  FollowsTheRow(session[q])' /\ ConflictLasts(session[q])'
    <3> DEFINE t == session[q]
    <3>1. /\ t \in Session /\ t.target \in Assessments
          /\ t.expected \in Nat /\ t.revision \in Nat
          /\ revision[a] \in Nat
      BY <1>1 DEF TypeOK, Session
    <3>2. FollowsTheRow(t) /\ ConflictLasts(t)
      BY DEF ReviewInv
    <3>3. /\ session'[q].target = t.target
          /\ session'[q].expected = t.expected
          /\ session'[q].status = t.status
          /\ session'[q].revision = t.revision
          /\ q # r => session'[q] = t
          /\ q = r => session'[q].pc = "open" /\ session'[q].answer = "reviewed"
      BY <1>1, <2>2, <3>1 DEF Session, Answer
    <3>4. CASE t.target # a
      <4>1. /\ status'[t.target] = status[t.target]
            /\ revision'[t.target] = revision[t.target]
            /\ audit'[t.target] = audit[t.target]
        BY <1>1, <2>2, <3>1, <3>4 DEF TypeOK
      <4>2. FollowsTheRow(session[q])'
        <5>1. session'[q] = session[q]
          BY <3>3, <3>4
        <5>2. stored' = stored /\ reopenedAt' = reopenedAt
          BY <2>2
        <5>3. QED
          BY <3>2, <4>1, <5>1, <5>2 DEF FollowsTheRow
      <4>3. ConflictLasts(session[q])'
        BY <2>2, <3>2, <3>3, <4>1 DEF ConflictLasts
      <4>4. QED
        BY <4>2, <4>3
    <3>5. CASE t.target = a
      <4>1. revision'[a] = revision[a] + 1
        BY <1>1, <2>1, <2>2 DEF TypeOK
      <4>2. t.expected <= revision[a]
        BY <3>2, <3>5 DEF ConflictLasts
      <4>3. t.expected # revision'[a] /\ t.expected <= revision'[a]
        BY <3>1, <4>1, <4>2
      <4>4. FollowsTheRow(session[q])'
        BY <2>2, <3>2, <3>3, <3>5, <4>3 DEF FollowsTheRow
      <4>5. ConflictLasts(session[q])'
        BY <2>2, <3>2, <3>3, <3>5, <4>3 DEF ConflictLasts
      <4>6. QED
        BY <4>4, <4>5
    <3>6. QED
      BY <3>4, <3>5
  <2>10. QED
    BY <2>7, <2>8, <2>9 DEF ReviewInv
<1>5. QED
  BY <1>3, <1>4

(* A change leaves revisions and ledgers alone and reopens reviewed rows.  *)
LEMMA ChangeInv ==
  ASSUME ReviewInv, NEW p \in Programs, RecordChange(p), TypeOK'
  PROVE  ReviewInv'
<1>1. TypeOK /\ UNCHANGED <<stored, revision, audit, session>>
  BY DEF ReviewInv, RecordChange
<1>2. ASSUME NEW a \in Assessments, a \in Reopened(p)
      PROVE  /\ a \in stored /\ status[a] = "reviewed"
             /\ status'[a] = "review_required"
             /\ impacts'[a] = impacts[a] + 1
             /\ reopenedAt'[a] = impacts[a] + 1
  BY <1>2 DEF RecordChange, Reopened, Impacted
<1>3. ASSUME NEW a \in Assessments, a \notin Reopened(p)
      PROVE  /\ status'[a] = status[a]
             /\ reopenedAt'[a] = reopenedAt[a]
             /\ impacts'[a] \in {impacts[a], impacts[a] + 1}
  BY <1>3 DEF RecordChange
<1>4. ReviewHistoryIsLinear'
  <2>1. \A a \in Assessments : status'[a] = "reviewed" => status[a] = "reviewed"
    BY <1>2, <1>3
  <2>2. QED
    BY <1>1, <2>1 DEF ReviewInv, ReviewHistoryIsLinear
<1>5. ReopeningsAreImpacts'
  <2> SUFFICES ASSUME NEW a \in Assessments
               PROVE  reopenedAt'[a] <= impacts'[a]
    BY DEF ReopeningsAreImpacts
  <2>1. reopenedAt[a] <= impacts[a] /\ impacts[a] \in Nat /\ reopenedAt[a] \in Nat
    BY <1>1 DEF ReviewInv, ReopeningsAreImpacts, TypeOK
  <2>2. QED
    BY <1>2, <1>3, <2>1
<1>6. ASSUME NEW q \in Reviewers
      PROVE  FollowsTheRow(session[q])' /\ ConflictLasts(session[q])'
  <2> DEFINE t == session[q]
             a == session[q].target
  <2>1. t \in Session /\ a \in Assessments
    BY <1>1 DEF TypeOK, Session
  <2>2. FollowsTheRow(t) /\ ConflictLasts(t)
    BY DEF ReviewInv
  <2>3. CASE a \in Reopened(p)
    <3>1. status[a] = "reviewed" /\ status'[a] = "review_required"
      BY <1>2, <2>1, <2>3
    <3>2. FollowsTheRow(session[q])'
      BY <1>1, <2>2, <3>1 DEF FollowsTheRow
    <3>3. ConflictLasts(session[q])'
      BY <1>1, <2>2, <3>1 DEF ConflictLasts
    <3>4. QED
      BY <3>2, <3>3
  <2>4. CASE a \notin Reopened(p)
    <3>1. status'[a] = status[a] /\ reopenedAt'[a] = reopenedAt[a]
      BY <1>3, <2>1, <2>4
    <3>2. QED
      BY <1>1, <2>2, <3>1 DEF FollowsTheRow, ConflictLasts
  <2>5. QED
    BY <2>3, <2>4
<1>7. QED
  BY <1>4, <1>5, <1>6 DEF ReviewInv

(* A new row has no session past its refresh and no ledger.                *)
LEMMA PersistInv ==
  ASSUME ReviewInv, NEW a \in Assessments, PersistAssessment(a), TypeOK'
  PROVE  ReviewInv'
<1>1. TypeOK
  BY DEF ReviewInv
<1>2. /\ a \notin stored /\ stored' = stored \cup {a}
      /\ UNCHANGED <<revision, audit, impacts, session, reopenedAt>>
      /\ status'[a] # "reviewed"
      /\ \A b \in Assessments \ {a} : status'[b] = status[b]
  BY <1>1 DEF PersistAssessment, TypeOK
<1>3. ReviewHistoryIsLinear'
  <2>1. \A b \in Assessments : status'[b] = "reviewed" => status[b] = "reviewed"
    BY <1>2
  <2>2. QED
    BY <1>2, <2>1 DEF ReviewInv, ReviewHistoryIsLinear
<1>4. ReopeningsAreImpacts'
  BY <1>2 DEF ReviewInv, ReopeningsAreImpacts
<1>5. ASSUME NEW q \in Reviewers
      PROVE  FollowsTheRow(session[q])' /\ ConflictLasts(session[q])'
  <2>1. session[q].target \in Assessments
    BY <1>1 DEF TypeOK, Session
  <2>2. FollowsTheRow(session[q]) /\ ConflictLasts(session[q])
    BY DEF ReviewInv
  <2>3. CASE session[q].target = a
    BY <1>2, <2>2, <2>3 DEF FollowsTheRow, ConflictLasts
  <2>4. CASE session[q].target # a
    <3>1. status'[session[q].target] = status[session[q].target]
      BY <1>2, <2>1, <2>4
    <3>2. QED
      BY <1>2, <2>2, <3>1 DEF FollowsTheRow, ConflictLasts
  <2>5. QED
    BY <2>3, <2>4
<1>6. QED
  BY <1>3, <1>4, <1>5 DEF ReviewInv

LEMMA FormInv ==
  ASSUME ReviewInv, NEW r \in Reviewers, TypeOK',
         \/ \E a \in Assessments : OpenForm(r, a)
         \/ AbortReview(r)
         \/ CloseForm(r)
  PROVE  ReviewInv'
<1>1. TypeOK /\ session[r] \in Session /\ session \in [Reviewers -> Session]
  BY DEF ReviewInv, TypeOK
<1>2. ASSUME NEW a \in Assessments, OpenForm(r, a)
      PROVE  ReviewInv'
  <2>1. UNCHANGED <<stored, status, revision, audit, impacts, reopenedAt>>
    BY <1>2 DEF OpenForm
  <2>2. /\ session'[r].pc = "open" /\ session'[r].answer = "none"
        /\ session'[r].expected = revision[a] /\ session'[r].target = a
        /\ \A q \in Reviewers \ {r} : session'[q] = session[q]
    BY <1>1, <1>2 DEF OpenForm, Session
  <2>3. revision[a] <= revision[a]
    BY <1>1 DEF TypeOK
  <2>4. FollowsTheRow(session[r])' /\ ConflictLasts(session[r])'
    BY <2>1, <2>2, <2>3 DEF FollowsTheRow, ConflictLasts
  <2>5. QED
    BY <2>1, <2>2, <2>4, SessionStep
<1>3. CASE AbortReview(r)
  BY <1>3, AnswerInv DEF AbortReview, Answers
<1>4. CASE CloseForm(r)
  <2>1. UNCHANGED <<stored, status, revision, audit, impacts, reopenedAt>>
    BY <1>4 DEF CloseForm
  <2>2. /\ session'[r].pc = "idle" /\ session'[r].answer = session[r].answer
        /\ session'[r].expected = session[r].expected
        /\ session'[r].target = session[r].target
        /\ session'[r].status = session[r].status
        /\ \A q \in Reviewers \ {r} : session'[q] = session[q]
    BY <1>1, <1>4 DEF CloseForm, Session
  <2>3. ConflictLasts(session[r])
    BY DEF ReviewInv
  <2>4. FollowsTheRow(session[r])' /\ ConflictLasts(session[r])'
    BY <2>1, <2>2, <2>3 DEF FollowsTheRow, ConflictLasts
  <2>5. QED
    BY <2>1, <2>2, <2>4, SessionStep
<1>5. QED
  BY <1>2, <1>3, <1>4

LEMMA NextInv ==
  ASSUME ReviewInv, [Next]_vars
  PROVE  ReviewInv'
<1>1. TypeOK'
  BY NextType DEF ReviewInv
<1>2. CASE \E a \in Assessments : PersistAssessment(a)
  BY <1>1, <1>2, PersistInv
<1>3. CASE \E p \in Programs : RecordChange(p)
  BY <1>1, <1>3, ChangeInv
<1>4. ASSUME NEW r \in Reviewers, ReviewStep(r)
      PROVE  ReviewInv'
  BY <1>1, <1>4, FormInv, LoadInv, ReadAuditInv, CommitInv DEF ReviewStep
<1>5. CASE UNCHANGED vars
  <2>1. UNCHANGED <<stored, status, revision, audit, impacts, session,
                    reopenedAt>>
    BY <1>5 DEF vars
  <2>2. QED
    BY <1>1, <2>1 DEF ReviewInv, ReviewHistoryIsLinear, ReopeningsAreImpacts,
                      FollowsTheRow, ConflictLasts
<1>6. QED
  BY <1>2, <1>3, <1>4, <1>5 DEF Next

(***************************************************************************)
(* The inductive invariant holds in every reachable state.                 *)
(***************************************************************************)
THEOREM ReviewInvariant == Spec => []ReviewInv
<1>1. Init => ReviewInv
  BY InitInv
<1>2. ReviewInv /\ [Next]_vars => ReviewInv'
  BY NextInv
<1>3. QED
  BY <1>1, <1>2, PTL DEF Spec

(***************************************************************************)
(* However reviews, replays and notice changes interleave, the ledger of   *)
(* every assessment is one unbroken line of reviews (the optimistic UPDATE *)
(* of AssessmentRepository.review is what makes it so).                    *)
(***************************************************************************)
THEOREM LinearHistory == Spec => []ReviewHistoryIsLinear
<1>1. ReviewInv => ReviewHistoryIsLinear
  BY DEF ReviewInv
<1>2. QED
  BY <1>1, ReviewInvariant, PTL

(***************************************************************************)
(* A refusal with "concurrent_change" is never spurious, now or later.     *)
(***************************************************************************)
THEOREM RealConflicts == Spec => []ConflictsAreReal
<1>1. ReviewInv => ConflictsAreReal
  BY DEF ReviewInv, ConflictsAreReal, ConflictLasts
<1>2. QED
  BY <1>1, ReviewInvariant, PTL

(* An answer changes one session; only a commit's is "reviewed".                 *)
LEMMA AnswersDoNotLand ==
  ASSUME TypeOK, NEW q \in Reviewers, NEW r \in Reviewers, NEW code,
         Answer(q, code), code # "reviewed",
         session'[r].answer = "reviewed"
  PROVE  session[r].answer = "reviewed"
<1>1. session \in [Reviewers -> Session] /\ session[q] \in Session
  BY DEF TypeOK
<1>2. session'[q].answer = code
  BY <1>1 DEF Answer, Session
<1>3. q # r
  BY <1>2
<1>4. QED
  BY <1>1, <1>3 DEF Answer

(* Only the optimistic UPDATE answers "reviewed".                          *)
LEMMA LandingIsCommit ==
  ASSUME ReviewInv, [Next]_vars, NEW r \in Reviewers, ReviewLands(r)
  PROVE  CommitReview(r) /\ RowUnchanged(r)
<1>1. /\ TypeOK /\ session \in [Reviewers -> Session]
      /\ session[r].pc = "checked" /\ session'[r].answer = "reviewed"
  BY DEF ReviewInv, TypeOK, ReviewLands
<1>2. session[r].answer # "reviewed"
  BY <1>1 DEF ReviewInv, FollowsTheRow
<1>3. PICK q \in Reviewers : ReviewStep(q)
  BY <1>1, <1>2 DEF Next, vars, PersistAssessment, RecordChange
<1>4. session[q] \in Session
  BY <1>1
<1>5. ~ \E a \in Assessments : OpenForm(q, a)
  <2>1. ASSUME NEW a \in Assessments, OpenForm(q, a)
        PROVE  session'[q].answer = "none" /\ (q # r => session'[r] = session[r])
    BY <1>1, <1>4, <2>1 DEF OpenForm, Session
  <2>2. QED
    BY <1>1, <1>2, <2>1
<1>6. ~ \E form \in Forms : LoadAssessment(q, form)
  <2> SUFFICES ASSUME NEW form \in Forms, LoadAssessment(q, form)
               PROVE  FALSE
    OBVIOUS
  <2>1. CASE \E code \in LoadErrors(q, form) : Answer(q, code)
    <3>1. "reviewed" \notin LoadErrors(q, form)
      BY DEF LoadErrors, OverrideErrors
    <3>2. QED
      BY <1>1, <1>2, <2>1, <3>1, AnswersDoNotLand
  <2>2. CASE session' = [session EXCEPT ![q].pc = "loaded",
                          ![q].form = form,
                          ![q].status = status[session[q].target],
                          ![q].revision = revision[session[q].target],
                          ![q].seen = impacts[session[q].target],
                          ![q].answer = "none"]
    <3>1. session'[q].answer = "none" /\ (q # r => session'[r] = session[r])
      BY <1>1, <1>4, <2>2 DEF Session
    <3>2. QED
      BY <1>1, <1>2, <3>1
  <2>3. QED
    BY <2>1, <2>2 DEF LoadAssessment
<1>7. ~ ReadAudit(q)
  <2> SUFFICES ASSUME ReadAudit(q) PROVE FALSE
    OBVIOUS
  <2>1. CASE Answer(q, "malformed_audit")
    BY <1>1, <1>2, <2>1, AnswersDoNotLand
  <2>2. ASSUME NEW before, session' = [session EXCEPT ![q].pc = "checked",
                                                      ![q].before = before]
        PROVE  session'[r].answer = session[r].answer
    BY <1>1, <1>4, <2>2 DEF Session
  <2>3. QED
    BY <1>1, <1>2, <2>1, <2>2 DEF ReadAudit
<1>8. ~ AbortReview(q)
  BY <1>1, <1>2, AnswersDoNotLand DEF AbortReview
<1>9. ~ CloseForm(q)
  <2>1. CloseForm(q) => session'[r].answer = session[r].answer
    BY <1>1, <1>4 DEF CloseForm, Session
  <2>2. QED
    BY <1>1, <1>2, <2>1
<1>10. CommitReview(q)
  BY <1>3, <1>5, <1>6, <1>7, <1>8, <1>9 DEF ReviewStep
<1>11. RowUnchanged(q)
  BY <1>1, <1>2, <1>10, AnswersDoNotLand DEF CommitReview
<1>12. q = r
  BY <1>1, <1>2, <1>10, <1>11 DEF CommitReview, Answer
<1>13. QED
  BY <1>10, <1>11, <1>12

(***************************************************************************)
(* A review that lands has read its assessment after the latest reopening, *)
(* so no reopening by a notice change is ever overwritten unseen.          *)
(***************************************************************************)
THEOREM ReopeningsSurvive == Spec => NoReopeningIsOverwritten
<1>1. ASSUME ReviewInv, [Next]_vars
      PROVE  [\A r \in Reviewers : ReviewLands(r) =>
                session[r].seen >= reopenedAt[session[r].target]]_vars
  <2>1. ASSUME NEW r \in Reviewers, ReviewLands(r)
        PROVE  session[r].seen >= reopenedAt[session[r].target]
    <3>1. CommitReview(r) /\ RowUnchanged(r)
      BY <1>1, <2>1, LandingIsCommit
    <3>2. QED
      BY <1>1, <3>1 DEF ReviewInv, FollowsTheRow, RowUnchanged, CommitReview
  <2>2. QED
    BY <2>1
<1>2. QED
  BY <1>1, ReviewInvariant, PTL DEF Spec, NoReopeningIsOverwritten

-----------------------------------------------------------------------------
(* Accepted overrides.                                                     *)

(* If any override of a form is refused, one of them is the first.         *)
LEMMA FirstIsFound ==
  ASSUME NEW a, NEW form \in Seq(Override), FirstRefused(a, form) = {},
         NEW i \in DOMAIN form
  PROVE  ~IsUnknown(form[i]) /\ ~IsForeign(a, form[i])
<1> DEFINE refused == {k \in DOMAIN form : IsUnknown(form[k]) \/ IsForeign(a, form[k])}
<1>1. DOMAIN form = 1..Len(form) /\ Len(form) \in Nat /\ refused \subseteq Nat
  OBVIOUS
<1>2. SUFFICES ASSUME refused # {} PROVE FALSE
  OBVIOUS
<1>3. PICK m \in refused : \A k \in refused : ~(<<k, m>> \in OpToRel(<, Nat))
  <2> HIDE DEF refused
  <2>1. QED
    BY <1>1, <1>2, NatLessThanWellFounded, WFMin
<1>4. \A k \in 1..(m - 1) : ~IsUnknown(form[k]) /\ ~IsForeign(a, form[k])
  <2>1. SUFFICES ASSUME NEW k \in 1..(m - 1), k \in refused PROVE FALSE
    BY <1>1
  <2>2. k \in Nat /\ m \in Nat /\ k < m
    BY <1>1
  <2>3. QED
    BY <2>1, <2>2, <1>3 DEF OpToRel
<1>5. m \in FirstRefused(a, form)
  BY <1>4 DEF FirstRefused
<1>6. QED
  BY <1>5

(* A form without errors overrides conditions of its assessment, each once. *)
LEMMA AcceptedForms ==
  ASSUME NEW a \in Assessments, NEW form \in Forms, OverrideErrors(a, form) = {}
  PROVE  AreOwn(a, {form[i] : i \in DOMAIN form})
<1>1. form \in Seq(Override)
  BY ReviewAssumption
<1>2. ~HasDuplicate(form) /\ FirstRefused(a, form) = {}
  BY DEF OverrideErrors
<1>3. ASSUME NEW i \in DOMAIN form
      PROVE  form[i].ra \in Conditions(a) /\ form[i].rule = RuleOf[form[i].ra]
  BY <1>1, <1>2, FirstIsFound DEF IsUnknown, IsForeign, Conditions
<1>4. ASSUME NEW i \in DOMAIN form, NEW j \in DOMAIN form, form[i].ra = form[j].ra
      PROVE  form[i] = form[j]
  BY <1>2, <1>4 DEF HasDuplicate
<1>5. QED
  BY <1>3, <1>4 DEF AreOwn

(* A step that writes no audit event only has to answer for its session.   *)
LEMMA NothingAccepted ==
  ASSUME OverridesInv, TypeOK', UNCHANGED audit, NEW r \in Reviewers,
         \A q \in Reviewers \ {r} : session'[q] = session[q],
         LoadedFormIsOwn(r)'
  PROVE  OverridesInv'
<1>1. AcceptedOverridesAreOwn'
  BY DEF OverridesInv, AcceptedOverridesAreOwn, AreOwn
<1>2. ASSUME NEW q \in Reviewers PROVE LoadedFormIsOwn(q)'
  <2>1. CASE q = r
    BY <2>1
  <2>2. CASE q # r
    BY <2>2 DEF OverridesInv, LoadedFormIsOwn, SubmittedOverrides
  <2>3. QED
    BY <2>1, <2>2
<1>3. QED
  BY <1>1, <1>2 DEF OverridesInv

(* An answer opens the form of its session again.                          *)
LEMMA AnswersReopen ==
  ASSUME TypeOK, NEW r \in Reviewers, NEW code, Answer(r, code)
  PROVE  /\ LoadedFormIsOwn(r)'
         /\ \A q \in Reviewers \ {r} : session'[q] = session[q]
<1>1. session \in [Reviewers -> Session] /\ session[r] \in Session
  BY DEF TypeOK
<1>2. session'[r].pc = "open"
  BY <1>1 DEF Answer, Session
<1>3. \A q \in Reviewers \ {r} : session'[q] = session[q]
  BY <1>1 DEF Answer
<1>4. QED
  BY <1>2, <1>3 DEF LoadedFormIsOwn

LEMMA LoadedIsOwn ==
  ASSUME OverridesInv, TypeOK', NEW r \in Reviewers, NEW form \in Forms,
         LoadAssessment(r, form)
  PROVE  OverridesInv'
<1>1. TypeOK /\ session \in [Reviewers -> Session] /\ session[r] \in Session
      /\ session[r].target \in Assessments
  BY DEF OverridesInv, TypeOK, Session
<1>2. UNCHANGED audit
  BY DEF LoadAssessment
<1>3. CASE \E code \in LoadErrors(r, form) : Answer(r, code)
  BY <1>1, <1>2, <1>3, AnswersReopen, NothingAccepted
<1>4. CASE LoadErrors(r, form) = {} /\ ~\E code \in LoadErrors(r, form) : Answer(r, code)
  <2>1. OverrideErrors(session[r].target, form) = {}
    BY <1>4 DEF LoadErrors
  <2>2. /\ session'[r].form = form /\ session'[r].target = session[r].target
        /\ \A q \in Reviewers \ {r} : session'[q] = session[q]
    BY <1>1, <1>4 DEF LoadAssessment, Session
  <2>3. LoadedFormIsOwn(r)'
    BY <1>1, <2>1, <2>2, AcceptedForms DEF LoadedFormIsOwn, SubmittedOverrides, AreOwn
  <2>4. QED
    BY <1>2, <2>2, <2>3, NothingAccepted
<1>5. QED
  BY <1>3, <1>4 DEF LoadAssessment

LEMMA AuditReadIsOwn ==
  ASSUME OverridesInv, TypeOK', NEW r \in Reviewers, ReadAudit(r)
  PROVE  OverridesInv'
<1>1. TypeOK /\ session \in [Reviewers -> Session] /\ session[r] \in Session
  BY DEF OverridesInv, TypeOK
<1>2. UNCHANGED audit /\ session[r].pc = "loaded"
  BY DEF ReadAudit
<1>3. CASE Answer(r, "malformed_audit")
  BY <1>1, <1>2, <1>3, AnswersReopen, NothingAccepted
<1>4. CASE ~Answer(r, "malformed_audit")
  <2>1. PICK before : session' = [session EXCEPT ![r].pc = "checked", ![r].before = before]
    BY <1>4 DEF ReadAudit
  <2>2. /\ session'[r].form = session[r].form /\ session'[r].target = session[r].target
        /\ \A q \in Reviewers \ {r} : session'[q] = session[q]
    BY <1>1, <2>1 DEF Session
  <2>3. LoadedFormIsOwn(r)'
    BY <1>2, <2>2 DEF OverridesInv, LoadedFormIsOwn, SubmittedOverrides
  <2>4. QED
    BY <1>2, <2>2, <2>3, NothingAccepted
<1>5. QED
  BY <1>3, <1>4

LEMMA CommitIsOwn ==
  ASSUME OverridesInv, TypeOK', NEW r \in Reviewers, CommitReview(r)
  PROVE  OverridesInv'
<1> DEFINE a == session[r].target
           next == session[r].revision + 1
           after == CompletedSnapshot(a, next, SubmittedOverrides(r))
           event == [before |-> session[r].before, after |-> after]
<1>1. TypeOK /\ session \in [Reviewers -> Session] /\ session[r] \in Session
      /\ a \in Assessments /\ audit \in [Assessments -> Seq(AuditEvent)]
  BY DEF OverridesInv, TypeOK, Session
<1>2. PICK code : Answer(r, code)
  BY DEF CommitReview
<1>3. LoadedFormIsOwn(r)' /\ \A q \in Reviewers \ {r} : session'[q] = session[q]
  BY <1>1, <1>2, AnswersReopen
<1>4. CASE ~RowUnchanged(r)
  <2>1. UNCHANGED audit
    BY <1>4 DEF CommitReview
  <2>2. QED
    BY <1>3, <2>1, NothingAccepted
<1>5. CASE RowUnchanged(r)
  <2>1. audit' = [audit EXCEPT ![a] = Append(@, event)]
    BY <1>5 DEF CommitReview
  <2>2. event.after.overrides = SubmittedOverrides(r)
    BY DEF CompletedSnapshot, ReviewSnapshot
  <2>3. AreOwn(a, SubmittedOverrides(r))
    BY DEF OverridesInv, LoadedFormIsOwn, CommitReview
  <2> HIDE DEF event
  <2>4. AcceptedOverridesAreOwn'
    <3>1. ASSUME NEW b \in Assessments, NEW i \in 1..Len(audit'[b])
          PROVE  AreOwn(b, audit'[b][i].after.overrides)
      <4>1. CASE b # a
        <5>1. audit'[b] = audit[b]
          BY <1>1, <2>1, <4>1
        <5>2. QED
          BY <5>1, <3>1 DEF OverridesInv, AcceptedOverridesAreOwn
      <4>2. CASE b = a
        <5>1. audit'[b] = Append(audit[b], event) /\ audit[b] \in Seq(AuditEvent)
          BY <1>1, <2>1, <4>2
        <5>2. CASE i \in 1..Len(audit[b])
          <6>1. audit'[b][i] = audit[b][i]
            BY <5>1, <5>2
          <6>2. QED
            BY <5>2, <6>1 DEF OverridesInv, AcceptedOverridesAreOwn
        <5>3. CASE i \notin 1..Len(audit[b])
          <6>1. audit'[b][i] = event
            BY <5>1, <5>3
          <6>2. QED
            BY <6>1, <2>2, <2>3, <4>2
        <5>4. QED
          BY <5>2, <5>3
      <4>3. QED
        BY <4>1, <4>2
    <3>2. QED
      BY <3>1 DEF AcceptedOverridesAreOwn, AreOwn
  <2>5. ASSUME NEW q \in Reviewers PROVE LoadedFormIsOwn(q)'
    <3>1. CASE q = r
      BY <3>1, <1>3
    <3>2. CASE q # r
      BY <3>2, <1>3 DEF OverridesInv, LoadedFormIsOwn, SubmittedOverrides
    <3>3. QED
      BY <3>1, <3>2
  <2>6. QED
    BY <2>4, <2>5 DEF OverridesInv
<1>6. QED
  BY <1>4, <1>5

LEMMA NextIsOwn ==
  ASSUME OverridesInv, [Next]_vars
  PROVE  OverridesInv'
<1>1. TypeOK /\ TypeOK' /\ session \in [Reviewers -> Session]
  BY NextType DEF OverridesInv, TypeOK
<1>2. CASE UNCHANGED <<audit, session>>
  BY <1>1, <1>2 DEF OverridesInv, AcceptedOverridesAreOwn, LoadedFormIsOwn, SubmittedOverrides
<1>3. ASSUME NEW r \in Reviewers, ReviewStep(r) PROVE OverridesInv'
  <2>1. CASE \E x \in Assessments : OpenForm(r, x)
    <3>1. UNCHANGED audit /\ session'[r].pc = "open"
          /\ \A q \in Reviewers \ {r} : session'[q] = session[q]
      BY <1>1, <2>1 DEF OpenForm, Session
    <3>2. LoadedFormIsOwn(r)'
      BY <3>1 DEF LoadedFormIsOwn
    <3>3. QED
      BY <1>1, <3>1, <3>2, NothingAccepted
  <2>2. CASE \E form \in Forms : LoadAssessment(r, form)
    BY <1>1, <2>2, LoadedIsOwn
  <2>3. CASE ReadAudit(r)
    BY <1>1, <2>3, AuditReadIsOwn
  <2>4. CASE CommitReview(r)
    BY <1>1, <2>4, CommitIsOwn
  <2>5. CASE AbortReview(r)
    BY <1>1, <2>5, AnswersReopen, NothingAccepted DEF AbortReview
  <2>6. CASE CloseForm(r)
    <3>1. UNCHANGED audit /\ session'[r].pc = "idle"
          /\ \A q \in Reviewers \ {r} : session'[q] = session[q]
      BY <1>1, <2>6 DEF CloseForm, Session
    <3>2. LoadedFormIsOwn(r)'
      BY <3>1 DEF LoadedFormIsOwn
    <3>3. QED
      BY <1>1, <3>1, <3>2, NothingAccepted
  <2>7. QED
    BY <1>3, <2>1, <2>2, <2>3, <2>4, <2>5, <2>6 DEF ReviewStep
<1>4. CASE \E x \in Assessments : PersistAssessment(x)
  BY <1>2, <1>4 DEF PersistAssessment
<1>5. CASE \E p \in Programs : RecordChange(p)
  BY <1>2, <1>5 DEF RecordChange
<1>6. CASE UNCHANGED vars
  BY <1>2, <1>6 DEF vars
<1>7. QED
  BY <1>3, <1>4, <1>5, <1>6 DEF Next

LEMMA OverridesInvariant == Spec => []OverridesInv
<1>1. Init => OverridesInv
  <2> SUFFICES ASSUME Init PROVE OverridesInv
    OBVIOUS
  <2>1. \A a \in Assessments : Len(audit[a]) = 0
    BY DEF Init
  <2>2. AcceptedOverridesAreOwn
    BY <2>1 DEF AcceptedOverridesAreOwn
  <2>3. \A r \in Reviewers : LoadedFormIsOwn(r)
    BY DEF Init, NoSession, LoadedFormIsOwn
  <2>4. QED
    BY <2>2, <2>3, InitType DEF OverridesInv
<1>2. OverridesInv /\ [Next]_vars => OverridesInv'
  BY NextIsOwn
<1>3. QED
  BY <1>1, <1>2, PTL DEF Spec

(***************************************************************************)
(* Whatever override tuples are submitted, and however reviews interleave, *)
(* the ledger holds overrides of an assessment's own conditions only, and  *)
(* one per condition.                                                      *)
(***************************************************************************)
THEOREM OverridesAreOwn == Spec => []AcceptedOverridesAreOwn
<1>1. OverridesInv => AcceptedOverridesAreOwn
  BY DEF OverridesInv
<1>2. QED
  BY <1>1, OverridesInvariant, PTL

-----------------------------------------------------------------------------
(* Atomicity.                                                              *)

BeforesAreRead ==
  ReviewInv /\ \A r \in Reviewers : BeforeIsRead(session[r])

(* A session that does not get past a read has nothing to show.            *)
LEMMA OthersAreRead ==
  ASSUME BeforesAreRead, NEW r \in Reviewers,
         \A q \in Reviewers \ {r} : session'[q] = session[q],
         BeforeIsRead(session'[r])
  PROVE  \A q \in Reviewers : BeforeIsRead(session'[q])
BY DEF BeforesAreRead

LEMMA AnswerIsRead ==
  ASSUME BeforesAreRead, NEW r \in Reviewers, NEW code, Answer(r, code)
  PROVE  \A q \in Reviewers : BeforeIsRead(session'[q])
<1>1. session \in [Reviewers -> Session] /\ session[r] \in Session
  BY DEF BeforesAreRead, ReviewInv, TypeOK
<1>2. /\ session'[r].pc = "open"
      /\ \A q \in Reviewers \ {r} : session'[q] = session[q]
  BY <1>1 DEF Answer, Session
<1>3. BeforeIsRead(session'[r])
  BY <1>2 DEF BeforeIsRead
<1>4. QED
  BY <1>2, <1>3, OthersAreRead

(***************************************************************************)
(* An audit event that agrees with the row at revision 0 does not exist,   *)
(* so a before-state of revision 0 is the automatic one.                   *)
(***************************************************************************)
LEMMA AuditReadIsRead ==
  ASSUME BeforesAreRead, NEW r \in Reviewers, ReadAudit(r)
  PROVE  \A q \in Reviewers : BeforeIsRead(session'[q])
<1> DEFINE a == session[r].target
           s == session[r]
           prior == audit[a][Len(audit[a])].after
<1>1. /\ TypeOK /\ ReviewInv
      /\ session \in [Reviewers -> Session] /\ s \in Session
      /\ a \in Assessments
      /\ s.pc = "loaded" /\ BeforeIsRead(s)
  BY DEF BeforesAreRead, ReviewInv, TypeOK, Session, ReadAudit
<1>2. ASSUME NEW before,
             session' = [session EXCEPT ![r].pc = "checked",
                                        ![r].before = before],
             before.status = s.status,
             s.revision = 0 => before.overrides = {}
      PROVE  \A q \in Reviewers : BeforeIsRead(session'[q])
  <2>1. /\ session'[r].pc = "checked"
        /\ session'[r].before = before
        /\ session'[r].status = s.status
        /\ session'[r].revision = s.revision
        /\ session'[r].form = s.form
        /\ \A q \in Reviewers \ {r} : session'[q] = session[q]
    BY <1>1, <1>2 DEF Session
  <2>2. BeforeIsRead(session'[r])
    BY <1>1, <1>2, <2>1 DEF BeforeIsRead
  <2>3. QED
    BY <2>1, <2>2, OthersAreRead
<1>3. CASE session' = [session EXCEPT
             ![r].pc = "checked",
             ![r].before = AutomaticSnapshot(a, s.status, s.revision)]
  <2>1. /\ AutomaticSnapshot(a, s.status, s.revision).status = s.status
        /\ AutomaticSnapshot(a, s.status, s.revision).overrides = {}
    BY DEF AutomaticSnapshot, ReviewSnapshot
  <2>2. QED
    BY <1>2, <1>3, <2>1
<1>4. CASE /\ audit[a] # <<>>
           /\ AfterStateAgrees(prior, s.status, s.revision)
           /\ session' = [session EXCEPT ![r].pc = "checked",
                                         ![r].before = prior]
  <2>1. prior.revision = Len(audit[a]) /\ Len(audit[a]) # 0
    <3>1. Len(audit[a]) \in 1..Len(audit[a])
      BY <1>1, <1>4, LastAfterType
    <3>2. QED
      BY <1>1, <3>1 DEF ReviewInv, ReviewHistoryIsLinear
  <2>2. QED
    BY <1>2, <1>4, <2>1 DEF AfterStateAgrees
<1>5. CASE Answer(r, "malformed_audit")
  BY <1>5, AnswerIsRead
<1>6. QED
  BY <1>3, <1>4, <1>5 DEF ReadAudit

LEMMA NextIsRead ==
  ASSUME BeforesAreRead, [Next]_vars
  PROVE  \A q \in Reviewers : BeforeIsRead(session'[q])
<1>1. session \in [Reviewers -> Session]
  BY DEF BeforesAreRead, ReviewInv, TypeOK
<1>2. CASE UNCHANGED session
  BY <1>2 DEF BeforesAreRead
<1>3. ASSUME NEW r \in Reviewers, ReviewStep(r)
      PROVE  \A q \in Reviewers : BeforeIsRead(session'[q])
  <2>1. CASE \E x \in Assessments : OpenForm(r, x)
    <3>1. /\ session'[r].pc = "open"
          /\ \A q \in Reviewers \ {r} : session'[q] = session[q]
      BY <1>1, <2>1 DEF OpenForm, Session
    <3>2. QED
      BY <3>1, OthersAreRead DEF BeforeIsRead
  <2>2. CASE \E form \in Forms : LoadAssessment(r, form)
    <3>1. PICK form \in Forms : LoadAssessment(r, form)
      BY <2>2
    <3>2. CASE \E code \in LoadErrors(r, form) : Answer(r, code)
      BY <3>2, AnswerIsRead
    <3>3. CASE ~\E code \in LoadErrors(r, form) : Answer(r, code)
      <4>1. /\ session'[r].pc = "loaded" /\ session'[r].form = form
            /\ \A q \in Reviewers \ {r} : session'[q] = session[q]
        BY <1>1, <3>1, <3>3 DEF LoadAssessment, Session
      <4>2. QED
        BY <4>1, OthersAreRead DEF BeforeIsRead
    <3>4. QED
      BY <3>2, <3>3
  <2>3. CASE ReadAudit(r)
    BY <2>3, AuditReadIsRead
  <2>4. CASE CommitReview(r)
    BY <2>4, AnswerIsRead DEF CommitReview
  <2>5. CASE AbortReview(r)
    BY <2>5, AnswerIsRead DEF AbortReview
  <2>6. CASE CloseForm(r)
    <3>1. /\ session'[r].pc = "idle"
          /\ \A q \in Reviewers \ {r} : session'[q] = session[q]
      BY <1>1, <2>6 DEF CloseForm, Session
    <3>2. QED
      BY <3>1, OthersAreRead DEF BeforeIsRead
  <2>7. QED
    BY <1>3, <2>1, <2>2, <2>3, <2>4, <2>5, <2>6 DEF ReviewStep
<1>4. QED
  BY <1>2, <1>3 DEF Next, vars, PersistAssessment, RecordChange

LEMMA InitIsRead == Init => \A r \in Reviewers : BeforeIsRead(session[r])
BY DEF Init, NoSession, BeforeIsRead

(***************************************************************************)
(* The inductive invariant of the refinement: besides ReviewInv, the       *)
(* before-state of a checked session is made of the row it read.           *)
(***************************************************************************)
THEOREM BeforesInvariant == Spec => []BeforesAreRead
<1>1. Init => BeforesAreRead
  BY InitInv, InitIsRead DEF BeforesAreRead
<1>2. BeforesAreRead /\ ReviewInv' /\ [Next]_vars => BeforesAreRead'
  BY NextIsRead DEF BeforesAreRead
<1>3. QED
  BY <1>1, <1>2, ReviewInvariant, PTL DEF Spec

(* The entries of a ledger, position by position.                          *)
LEMMA EntriesAppend ==
  ASSUME NEW q \in Seq(AuditEvent), NEW e \in AuditEvent
  PROVE  Entries(Append(q, e)) = Append(Entries(q), Entry(e))
<1> DEFINE p == Append(q, e)
<1>1. /\ Len(q) \in Nat /\ Len(p) = Len(q) + 1
      /\ p[Len(q) + 1] = e /\ \A i \in 1..Len(q) : p[i] = q[i]
  <2> HIDE DEF p
  <2>1. QED
    BY DEF p
<1> DEFINE S == {Entry(x) : x \in AuditEvent}
<1>2. \A i \in 1..Len(q) : Entry(q[i]) \in S
  OBVIOUS
<1>3. Entries(q) \in Seq(S) /\ Len(Entries(q)) = Len(q)
  BY <1>1, <1>2 DEF Entries
<1> HIDE DEF p, S
<1>4. \A i \in 1..(Len(q) + 1) : p[i] \in AuditEvent
  BY <1>1
<1>5. /\ Entries(p) \in Seq(S) /\ Len(Entries(p)) = Len(q) + 1
      /\ Entries(p)[Len(q) + 1] = Entry(e)
      /\ \A i \in 1..Len(q) : Entries(p)[i] = Entries(q)[i]
  <2>1. Entries(p) = [i \in 1..(Len(q) + 1) |-> Entry(p[i])]
    BY <1>1 DEF Entries
  <2>2. \A i \in 1..(Len(q) + 1) : Entry(p[i]) \in S
    BY <1>4 DEF S
  <2>3. Entries(p) \in Seq(S) /\ Len(Entries(p)) = Len(q) + 1
    BY <1>1, <2>1, <2>2
  <2>4. \A i \in 1..Len(q) : Entries(q)[i] = Entry(q[i])
    BY DEF Entries
  <2>5. QED
    BY <1>1, <2>1, <2>3, <2>4
<1>6. Entry(e) \in S
  BY DEF S
<1>7. ASSUME NEW T, NEW u \in Seq(T), NEW v \in T, NEW w \in Seq(T),
             Len(w) = Len(u) + 1, w[Len(u) + 1] = v,
             \A i \in 1..Len(u) : w[i] = u[i]
      PROVE  w = Append(u, v)
  BY <1>7
<1>8. QED
  BY <1>3, <1>5, <1>6, <1>7 DEF p

LEMMA EntriesEnd ==
  ASSUME NEW q \in Seq(AuditEvent)
  PROVE  /\ Entries(q) = <<>> <=> q = <<>>
         /\ q # <<>> => Entries(q)[Len(Entries(q))] = Entry(q[Len(q)])
<1> DEFINE S == {Entry(x) : x \in AuditEvent}
<1>1. Len(q) \in Nat /\ \A i \in 1..Len(q) : Entry(q[i]) \in S
  OBVIOUS
<1>2. Entries(q) \in Seq(S) /\ Len(Entries(q)) = Len(q)
  BY <1>1 DEF Entries
<1>3. q = <<>> <=> Len(q) = 0
  OBVIOUS
<1>4. Entries(q) = <<>> <=> Len(Entries(q)) = 0
  BY <1>2
<1>5. q # <<>> => Len(q) \in 1..Len(q)
  BY <1>1, <1>3
<1>6. QED
  BY <1>2, <1>3, <1>4, <1>5 DEF Entries

(***************************************************************************)
(* A commit whose WHERE clause holds is a review of the abstract ledger:   *)
(* the row has the revision and the status that were read, so the ledger   *)
(* is the one that was read, and ends with the before-state.               *)
(***************************************************************************)
LEMMA CommitIsReview ==
  ASSUME BeforesAreRead, NEW r \in Reviewers, CommitReview(r),
         RowUnchanged(r), LoadedFormIsOwn(r)
  PROVE  Ledger!Next
<1> DEFINE a == session[r].target
           s == session[r]
           overrides == SubmittedOverrides(r)
           done == CompletedSnapshot(a, s.revision + 1, overrides)
           event == [before |-> s.before, after |-> done]
           bar == [x \in Assessments |-> Entries(audit[x])]
<1>1. /\ ReviewInv /\ TypeOK /\ s \in Session /\ a \in Assessments
      /\ audit \in [Assessments -> Seq(AuditEvent)]
      /\ status \in [Assessments -> ReviewStatus]
      /\ s.pc = "checked" /\ FollowsTheRow(s) /\ BeforeIsRead(s)
      /\ s.revision \in Nat /\ s.before \in Snapshot
  BY DEF BeforesAreRead, ReviewInv, TypeOK, Session, CommitReview
<1>2. /\ s.revision = revision[a] /\ s.status = status[a]
      /\ revision[a] = Len(audit[a])
      /\ a \in stored
  BY <1>1 DEF FollowsTheRow, RowUnchanged, ReviewInv, ReviewHistoryIsLinear
<1>3. overrides \in Verdicts[a]
  <2>1. s.form \in Forms
    BY <1>1 DEF BeforeIsRead
  <2>2. AreOwn(a, overrides)
    BY <1>1 DEF LoadedFormIsOwn
  <2>3. QED
    BY <1>1, <2>1, <2>2 DEF Verdicts, SubmittedOverrides
<1>4. Ledger!Latest(a) = Shown(s.before)
  <2>1. audit[a] \in Seq(AuditEvent) /\ bar[a] = Entries(audit[a])
    BY <1>1
  <2>2. CASE audit[a] = <<>>
    <3>1. s.revision = 0
      BY <1>2, <2>2
    <3>2. s.before.status = status[a] /\ s.before.overrides = {}
      BY <1>1, <1>2, <3>1 DEF BeforeIsRead
    <3>3. bar[a] = <<>>
      BY <2>1, <2>2, EntriesEnd
    <3>4. QED
      BY <3>2, <3>3 DEF Ledger!Latest, Shown
  <2>3. CASE audit[a] # <<>>
    <3>1. s.before = audit[a][Len(audit[a])].after
      BY <1>1, <1>2, <2>3 DEF FollowsTheRow
    <3>2. /\ bar[a] # <<>>
          /\ bar[a][Len(bar[a])] = Entry(audit[a][Len(audit[a])])
      BY <2>1, <2>3, EntriesEnd
    <3>3. QED
      BY <3>1, <3>2 DEF Ledger!Latest, Entry
  <2>4. QED
    BY <2>2, <2>3
<1>5. Ledger!Latest(a).status = status[a]
  BY <1>1, <1>2, <1>4 DEF BeforeIsRead, Shown
<1>6. done \in Snapshot
  <2>1. overrides \in SUBSET Override
    BY <1>1, OverridesType
  <2>2. s.revision + 1 \in Nat /\ "reviewed" \in ReviewStatus
    BY <1>1 DEF ReviewStatus
  <2> HIDE DEF overrides
  <2>3. QED
    BY <1>1, <2>1, <2>2, SnapshotType DEF CompletedSnapshot
<1>7. event \in AuditEvent
  BY <1>1, <1>6 DEF AuditEvent
<1>8. Entry(event) = [before |-> Shown(s.before),
                      after |-> [status |-> "reviewed",
                                 overrides |-> overrides]]
  BY DEF Entry, Shown, CompletedSnapshot, ReviewSnapshot
<1>9. /\ audit' = [audit EXCEPT ![a] = Append(@, event)]
      /\ status' = [status EXCEPT ![a] = "reviewed"]
      /\ UNCHANGED stored
  BY DEF CommitReview
<1>10. bar' = [bar EXCEPT ![a] = Append(@, Entry(event))]
  <2>1. audit[a] \in Seq(AuditEvent) /\ audit'[a] = Append(audit[a], event)
    BY <1>1, <1>9
  <2> HIDE DEF event
  <2>2. Entries(audit'[a]) = Append(Entries(audit[a]), Entry(event))
    BY <1>7, <2>1, EntriesAppend
  <2>3. \A x \in Assessments \ {a} : audit'[x] = audit[x]
    BY <1>1, <1>9
  <2>4. QED
    BY <1>1, <2>2, <2>3
<1> HIDE DEF event, overrides
<1>11. Ledger!Review(a, overrides)
  BY <1>2, <1>4, <1>5, <1>8, <1>9, <1>10 DEF Ledger!Review
<1>12. QED
  BY <1>1, <1>3, <1>11 DEF Ledger!Next

(***************************************************************************)
(* AssessmentRepository.review implements ReviewLedger: for any reviewers, *)
(* forms and changes, every accepted review happens as if in one instant.  *)
(***************************************************************************)
THEOREM ImplementsLedger == Spec => ReviewsAreAtomic
<1>1. Init => Ledger!Init
  BY DEF Init, Ledger!Init, Entries
<1>2. ASSUME BeforesAreRead, OverridesInv, [Next]_vars
      PROVE  [Ledger!Next]_(Ledger!vars)
  <2>1. CASE UNCHANGED <<stored, status, audit>>
    BY <2>1 DEF Ledger!vars
  <2>2. ASSUME NEW a \in Assessments, PersistAssessment(a)
        PROVE  Ledger!Next
    BY <2>2 DEF PersistAssessment, Ledger!Persist, Ledger!Next
  <2>3. ASSUME NEW p \in Programs, RecordChange(p)
        PROVE  Ledger!Next
    <3>1. Ledger!Change(p)
      BY <2>3 DEF RecordChange, Reopened, Impacted, Ledger!Change
    <3>2. QED
      BY <3>1 DEF Ledger!Next
  <2>4. ASSUME NEW r \in Reviewers, CommitReview(r), RowUnchanged(r)
        PROVE  Ledger!Next
    BY <1>2, <2>4, CommitIsReview DEF OverridesInv
  <2>5. \/ UNCHANGED <<stored, status, audit>>
        \/ \E a \in Assessments : PersistAssessment(a)
        \/ \E p \in Programs : RecordChange(p)
        \/ \E r \in Reviewers : CommitReview(r) /\ RowUnchanged(r)
    <3>1. ASSUME NEW r \in Reviewers, ReviewStep(r), ~CommitReview(r)
          PROVE  UNCHANGED <<stored, status, audit>>
      BY <3>1 DEF ReviewStep, OpenForm, LoadAssessment, ReadAudit,
                  AbortReview, CloseForm
    <3>2. ASSUME NEW r \in Reviewers, CommitReview(r), ~RowUnchanged(r)
          PROVE  UNCHANGED <<stored, status, audit>>
      BY <3>2 DEF CommitReview
    <3>3. UNCHANGED vars => UNCHANGED <<stored, status, audit>>
      BY DEF vars
    <3>4. QED
      BY <1>2, <3>1, <3>2, <3>3 DEF Next
  <2>6. QED
    BY <2>1, <2>2, <2>3, <2>4, <2>5
<1>3. QED
  BY <1>1, <1>2, BeforesInvariant, OverridesInvariant, PTL
  DEF Spec, ReviewsAreAtomic, Ledger!Spec
=============================================================================

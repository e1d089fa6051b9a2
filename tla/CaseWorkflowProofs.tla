------------------------- MODULE CaseWorkflowProofs -------------------------
(***************************************************************************)
(* For any cases, requests and clock values: type correctness, the ledger  *)
(* that replays to the row, the honesty of refusals, and the refinement of *)
(* CaseLifecycle.  CaseInv is the inductive invariant.                     *)
(***************************************************************************)
EXTENDS CaseWorkflow, TLAPS

LEMMA NoSessionType ==
  /\ NoSession \in Session
  /\ NoSession.target \in Cases
  /\ NoSession.pc = "idle" /\ NoSession.answer = "none"
BY CaseAssumption DEF NoSession, Session, CaseState, CaseStage

LEMMA InitInv == Init => CaseInv
<1> SUFFICES ASSUME Init PROVE CaseInv
  OBVIOUS
<1>1. row \in [Cases -> {[stage |-> "recommended", at |-> t] : t \in Times}]
  BY DEF Init
<1>2. \A c \in Cases : row[c] \in CaseState /\ row[c].stage = "recommended"
  <2> TAKE c \in Cases
  <2>1. PICK t \in Times : row[c] = [stage |-> "recommended", at |-> t]
    BY <1>1
  <2>2. QED
    BY <2>1 DEF CaseState, CaseStage
<1>3. TypeOK
  BY <1>1, <1>2, NoSessionType DEF Init, TypeOK
<1>4. LedgerReplaysToRow
  BY <1>2 DEF Init, LedgerReplaysToRow
<1>5. \A k \in Clerks : session[k] = NoSession
  BY DEF Init
<1>6. QED
  BY <1>3, <1>4, <1>5, NoSessionType
     DEF CaseInv, ReadsTheRow

(* What CaseInv says of one session, from which a step restores it.        *)
SessionInv(s) ==
  /\ s \in Session
  /\ s.target \in Cases
  /\ ReadsTheRow(s)

LEMMA InvBySession ==
  CaseInv <=> /\ row \in [Cases -> CaseState]
              /\ audit \in [Cases -> Seq(CaseEvent)]
              /\ session \in [Clerks -> Session]
              /\ LedgerReplaysToRow
              /\ \A k \in Clerks : SessionInv(session[k])
BY DEF CaseInv, TypeOK, SessionInv

(* A step that leaves the rows alone only has to answer for its session.   *)
LEMMA SessionStep ==
  ASSUME CaseInv, NEW k \in Clerks, NEW s,
         session' = [session EXCEPT ![k] = s],
         UNCHANGED <<row, audit>>,
         SessionInv(s)
  PROVE  CaseInv'
<1>1. /\ session \in [Clerks -> Session]
      /\ \A q \in Clerks : SessionInv(session[q])
  BY InvBySession
<1>2. s \in Session
  BY DEF SessionInv
<1>3. session' \in [Clerks -> Session]
  BY <1>1, <1>2
<1>4. ASSUME NEW q \in Clerks
      PROVE  SessionInv(session[q])'
  <2>1. session'[q] = s \/ session'[q] = session[q]
    BY <1>1
  <2>2. SessionInv(session'[q])
    BY <1>1, <2>1
  <2>3. QED
    BY <2>2 DEF SessionInv, ReadsTheRow
<1>5. LedgerReplaysToRow'
  BY InvBySession DEF LedgerReplaysToRow
<1>6. /\ row' \in [Cases -> CaseState]
      /\ audit' \in [Cases -> Seq(CaseEvent)]
  BY InvBySession
<1>7. /\ TypeOK'
      /\ \A q \in Clerks : session'[q].target \in Cases
      /\ \A q \in Clerks : ReadsTheRow(session[q])'
  BY <1>3, <1>4, <1>6 DEF TypeOK, SessionInv
<1>8. QED
  BY <1>5, <1>7 DEF CaseInv

(* An answered session holds nothing that could be wrong.                  *)
LEMMA FinishStep ==
  ASSUME CaseInv, NEW k \in Clerks, NEW code \in {"moved"} \cup Refusals,
         Finish(k, code), UNCHANGED <<row, audit>>
  PROVE  CaseInv'
<1> DEFINE s == [NoSession EXCEPT !.answer = code]
<1>1. s \in Session /\ s.pc = "idle" /\ s.target \in Cases
  BY NoSessionType DEF Session
<1>2. SessionInv(s)
  BY <1>1 DEF SessionInv, ReadsTheRow
<1>3. QED
  BY <1>2, SessionStep DEF Finish

LEMMA GetInv ==
  ASSUME CaseInv, NEW k \in Clerks, NEW c \in CaseIds, NEW to \in CaseStage,
         GetCase(k, c, to)
  PROVE  CaseInv'
<1>1. CASE c \notin Cases
  BY <1>1, FinishStep DEF GetCase, Refusals
<1>2. CASE c \in Cases
  <2> DEFINE s == [pc |-> "got", target |-> c, to |-> to, read |-> row[c],
                   answer |-> "none", began |-> Len(audit[c])]
  <2>1. row[c] \in CaseState /\ Len(audit[c]) \in Nat
    BY <1>2, InvBySession
  <2>2. SessionInv(s)
    BY <1>2, <2>1 DEF SessionInv, ReadsTheRow, Session
  <2>3. QED
    BY <1>2, <2>2, SessionStep DEF GetCase
<1>3. QED
  BY <1>1, <1>2

LEMMA CheckInv ==
  ASSUME CaseInv, NEW k \in Clerks, CheckStage(k)
  PROVE  CaseInv'
<1> DEFINE s == session[k]
<1>1. /\ SessionInv(s) /\ s.pc = "got" /\ session \in [Clerks -> Session]
      /\ s.began \in Nat /\ Len(audit[s.target]) \in Nat
  BY InvBySession DEF CheckStage, SessionInv, Session
<1>2. CASE Finish(k, "concurrent_change")
  BY <1>2, FinishStep DEF CheckStage, Refusals
<1>3. CASE Finish(k, "invalid_transition")
  BY <1>3, FinishStep DEF CheckStage, Refusals
<1>4. CASE /\ CanMove(s.read.stage, s.to)
           /\ session' = [session EXCEPT ![k].pc = "staged"]
  <2>1. SessionInv([s EXCEPT !.pc = "staged"])
    BY <1>1, <1>4 DEF SessionInv, ReadsTheRow, Session
  <2>2. QED
    BY <1>1, <1>4, <2>1, SessionStep DEF CheckStage
<1>5. QED
  BY <1>2, <1>3, <1>4 DEF CheckStage

LEMMA RefreshInv ==
  ASSUME CaseInv, NEW k \in Clerks, RefreshCase(k)
  PROVE  CaseInv'
<1> DEFINE s == session[k]
<1>1. /\ SessionInv(s) /\ s.pc = "staged" /\ session \in [Clerks -> Session]
      /\ s.began \in Nat /\ Len(audit[s.target]) \in Nat
      /\ row[s.target] \in CaseState
  BY InvBySession DEF RefreshCase, SessionInv, Session
<1>2. CASE Finish(k, "concurrent_change")
  BY <1>2, FinishStep DEF RefreshCase, Refusals
<1>3. CASE /\ row[s.target].stage = s.read.stage
           /\ session' = [session EXCEPT ![k].pc = "refreshed",
                                         ![k].read = row[s.target]]
  <2>1. SessionInv([s EXCEPT !.pc = "refreshed", !.read = row[s.target]])
    BY <1>1, <1>3 DEF SessionInv, ReadsTheRow, Session
  <2>2. QED
    BY <1>1, <1>3, <2>1, SessionStep DEF RefreshCase
<1>4. QED
  BY <1>2, <1>3 DEF RefreshCase

LEMMA ReadAuditInv ==
  ASSUME CaseInv, NEW k \in Clerks, ReadAudit(k)
  PROVE  CaseInv'
<1> DEFINE s == session[k]
<1>1. /\ SessionInv(s) /\ s.pc = "refreshed" /\ session \in [Clerks -> Session]
      /\ s.began \in Nat /\ Len(audit[s.target]) \in Nat
  BY InvBySession DEF ReadAudit, SessionInv, Session
<1>2. CASE LedgerAgrees(audit[s.target], s.read)
  <2>1. SessionInv([s EXCEPT !.pc = "checked"])
    BY <1>1 DEF SessionInv, ReadsTheRow, Session
  <2>2. QED
    BY <1>1, <1>2, <2>1, SessionStep DEF ReadAudit
<1>3. CASE ~LedgerAgrees(audit[s.target], s.read)
  BY <1>3, FinishStep DEF ReadAudit, Refusals
<1>4. QED
  BY <1>2, <1>3
(* What appending an event to a ledger does.                               *)
LEMMA AppendEvent ==
  ASSUME NEW q \in Seq(CaseEvent), NEW e \in CaseEvent
  PROVE  /\ Append(q, e) \in Seq(CaseEvent)
         /\ Append(q, e) # <<>>
         /\ Len(Append(q, e)) = Len(q) + 1
         /\ Append(q, e)[Len(q) + 1] = e
         /\ \A i \in 1..Len(q) : Append(q, e)[i] = q[i]
OBVIOUS

LEMMA CommitInv ==
  ASSUME CaseInv, NEW k \in Clerks, NEW at \in Times, CommitTransition(k, at)
  PROVE  CaseInv'
<1> DEFINE s == session[k]
           c == session[k].target
           e == TransitionEvent(s.read, s.to, at)
           q == audit[session[k].target]
<1>1. /\ SessionInv(s) /\ s.pc = "checked" /\ session \in [Clerks -> Session]
      /\ s.began \in Nat /\ Len(q) \in Nat /\ c \in Cases
      /\ s.read \in CaseState /\ s.to \in CaseStage
      /\ row \in [Cases -> CaseState] /\ audit \in [Cases -> Seq(CaseEvent)]
  BY InvBySession DEF CommitTransition, SessionInv, Session
<1>2. CASE ~RowUnchanged(k)
  BY <1>2, FinishStep DEF CommitTransition, Refusals
<1>3. CASE RowUnchanged(k)
  <2>1. /\ row' = [row EXCEPT ![c] = [stage |-> s.to, at |-> at]]
        /\ audit' = [audit EXCEPT ![c] = Append(@, e)]
        /\ Finish(k, "moved")
        /\ row[c] = s.read
    BY <1>3 DEF CommitTransition, RowUnchanged
  <2>2. /\ e \in CaseEvent
        /\ e.before = row[c] /\ e.after = [stage |-> s.to, at |-> at]
        /\ e.after \in CaseState
    BY <1>1, <2>1 DEF TransitionEvent, CaseEvent, CaseState
  <2>3. /\ audit'[c] = Append(q, e) /\ row'[c] = e.after
        /\ \A d \in Cases \ {c} : audit'[d] = audit[d] /\ row'[d] = row[d]
    BY <1>1, <2>1, <2>2
  <2>4. /\ audit'[c] # <<>>
        /\ Len(audit'[c]) = Len(q) + 1
        /\ audit'[c][Len(q) + 1] = e
        /\ \A i \in 1..Len(q) : audit'[c][i] = q[i]
    BY <1>1, <2>2, <2>3, AppendEvent
  <2>5. /\ row' \in [Cases -> CaseState]
        /\ audit' \in [Cases -> Seq(CaseEvent)]
    BY <1>1, <2>1, <2>2, AppendEvent
  <2>6. LedgerReplaysToRow'
    <3> SUFFICES ASSUME NEW d \in Cases
                 PROVE  IF audit'[d] = <<>> THEN row'[d].stage = "recommended"
                        ELSE /\ audit'[d][1].before.stage = "recommended"
                             /\ audit'[d][Len(audit'[d])].after = row'[d]
                             /\ \A i \in 1..(Len(audit'[d]) - 1) :
                                  audit'[d][i].after = audit'[d][i + 1].before
      BY DEF LedgerReplaysToRow
    <3>1. CASE d # c
      BY <2>3, <3>1 DEF CaseInv, LedgerReplaysToRow
    <3>2. CASE d = c
      <4>1. audit'[c][1].before.stage = "recommended"
        <5>1. CASE q = <<>>
          <6>1. audit'[c][1] = e
            BY <2>4, <5>1
          <6>2. row[c].stage = "recommended"
            BY <1>1, <5>1 DEF CaseInv, LedgerReplaysToRow
          <6>3. QED
            BY <2>2, <6>1, <6>2
        <5>2. CASE q # <<>>
          <6>1. audit'[c][1] = q[1]
            BY <1>1, <2>4, <5>2
          <6>2. QED
            BY <1>1, <5>2, <6>1 DEF CaseInv, LedgerReplaysToRow
        <5>3. QED
          BY <5>1, <5>2
      <4>2. audit'[c][Len(audit'[c])].after = row'[c]
        BY <2>3, <2>4
      <4>3. ASSUME NEW i \in 1..Len(q)
            PROVE  audit'[c][i].after = audit'[c][i + 1].before
        <5>1. q # <<>> /\ audit'[c][i] = q[i]
          BY <2>4
        <5>2. CASE i = Len(q)
          <6>1. q[i].after = row[c]
            BY <1>1, <5>1, <5>2 DEF CaseInv, LedgerReplaysToRow
          <6>2. QED
            BY <2>2, <2>4, <5>1, <5>2, <6>1
        <5>3. CASE i # Len(q)
          <6>1. i \in 1..(Len(q) - 1) /\ i + 1 \in 1..Len(q)
            BY <1>1, <5>3
          <6>2. q[i].after = q[i + 1].before
            BY <1>1, <5>1, <6>1 DEF CaseInv, LedgerReplaysToRow
          <6>3. QED
            BY <2>4, <5>1, <6>1, <6>2
        <5>4. QED
          BY <5>2, <5>3
      <4>4. 1..(Len(audit'[c]) - 1) = 1..Len(q)
        BY <1>1, <2>4
      <4>5. QED
        BY <2>4, <3>2, <4>1, <4>2, <4>3, <4>4
    <3>3. QED
      BY <3>1, <3>2
  <2>7. \A p \in Clerks : /\ SessionInv(session[p])
                          /\ session[p].began \in Nat
                          /\ Len(audit[session[p].target]) \in Nat
    BY <1>1, InvBySession DEF SessionInv, Session
  <2>8. /\ session'[k] \in Session /\ session'[k].target \in Cases
        /\ session'[k].pc = "idle"
        /\ \A p \in Clerks \ {k} : session'[p] = session[p]
    BY <1>1, <2>1, NoSessionType, CaseAssumption DEF Finish, Session
  <2>9. session' \in [Clerks -> Session]
    BY <1>1, <2>1, <2>8 DEF Finish
  <2>10. ASSUME NEW p \in Clerks
         PROVE  SessionInv(session[p])'
    <3>1. CASE p = k
      BY <1>1, <2>8, <3>1 DEF SessionInv, ReadsTheRow
    <3>2. CASE p # k /\ session[p].target = c
      <4>1. Len(audit'[c]) > Len(audit[c])
        BY <1>1, <2>4
      <4>2. QED
        BY <1>1, <2>7, <2>8, <3>2, <2>4, <4>1 DEF SessionInv, ReadsTheRow
    <3>3. CASE p # k /\ session[p].target # c
      <4>1. /\ audit'[session[p].target] = audit[session[p].target]
            /\ row'[session[p].target] = row[session[p].target]
        BY <2>3, <2>7, <3>3 DEF SessionInv
      <4>2. QED
        BY <2>7, <2>8, <3>3, <4>1 DEF SessionInv, ReadsTheRow
    <3>4. QED
      BY <3>1, <3>2, <3>3
  <2>11. QED
    BY <2>5, <2>6, <2>9, <2>10
       DEF CaseInv, TypeOK, SessionInv
<1>4. QED
  BY <1>2, <1>3

LEMMA NextInv ==
  ASSUME CaseInv, [Next]_vars
  PROVE  CaseInv'
<1>1. ASSUME NEW k \in Clerks, TransitionStep(k)
      PROVE  CaseInv'
  <2>1. CASE AbortTransition(k)
    BY <2>1, FinishStep DEF AbortTransition, Refusals
  <2>2. QED
    BY <1>1, <2>1, GetInv, CheckInv, RefreshInv, ReadAuditInv, CommitInv
       DEF TransitionStep
<1>2. CASE UNCHANGED vars
  BY <1>2 DEF vars, CaseInv, TypeOK, LedgerReplaysToRow, ReadsTheRow
<1>3. QED
  BY <1>1, <1>2 DEF Next

THEOREM CaseInvariant == Spec => []CaseInv
<1>1. Init => CaseInv
  BY InitInv
<1>2. CaseInv /\ [Next]_vars => CaseInv'
  BY NextInv
<1>3. QED
  BY <1>1, <1>2, PTL DEF Spec

(* The rows, the ledger and the sessions keep their types.                 *)
THEOREM TypeCorrect == Spec => []TypeOK
<1>1. CaseInv => TypeOK
  BY DEF CaseInv
<1>2. QED
  BY <1>1, CaseInvariant, PTL

(***************************************************************************)
(* However transitions interleave, replaying the ledger of a case gives    *)
(* its row.                                                                *)
(***************************************************************************)
THEOREM LedgerReplays == Spec => []LedgerReplaysToRow
<1>1. CaseInv => LedgerReplaysToRow
  BY DEF CaseInv
<1>2. QED
  BY <1>1, CaseInvariant, PTL

(* A session that was under way and is now idle has been answered.         *)
LEMMA Answered ==
  ASSUME CaseInv, NEW p \in Clerks, NEW k \in Clerks, NEW code,
         Finish(p, code), RefusedForConflict(k)
  PROVE  p = k /\ code \in Conflicts
<1>1. session \in [Clerks -> Session]
  BY InvBySession
<1>2. session'[k] # session[k]
  BY DEF RefusedForConflict
<1>3. p = k
  BY <1>1, <1>2 DEF Finish
<1>4. session'[k] = [NoSession EXCEPT !.answer = code]
  BY <1>1, <1>3 DEF Finish
<1>5. session'[k].answer = code
  BY <1>4, NoSessionType DEF Session
<1>6. QED
  BY <1>3, <1>5 DEF RefusedForConflict

(* No step but a refusal ends a session.                                   *)
LEMMA OnlyFinishEnds ==
  ASSUME CaseInv, NEW p \in Clerks, NEW k \in Clerks, NEW s,
         session' = [session EXCEPT ![p] = s], s.pc # "idle",
         RefusedForConflict(k)
  PROVE  FALSE
<1>1. session \in [Clerks -> Session]
  BY InvBySession
<1>2. QED
  BY <1>1 DEF RefusedForConflict

LEMMA RefusalIsOvertaken ==
  ASSUME CaseInv, [Next]_vars, NEW k \in Clerks, RefusedForConflict(k)
  PROVE  Overtaken(k)
<1> DEFINE s == session[k]
<1>1. /\ SessionInv(s) /\ s.pc # "idle" /\ session \in [Clerks -> Session]
      /\ s.began \in Nat /\ Len(audit[s.target]) \in Nat
      /\ s.target \in Cases
  BY InvBySession DEF SessionInv, Session, RefusedForConflict
<1>2. s.read # row[s.target] => Overtaken(k)
  BY <1>1 DEF SessionInv, ReadsTheRow, Overtaken
<1>3. LedgerAgrees(audit[s.target], row[s.target])
  BY <1>1 DEF CaseInv, LedgerReplaysToRow, LedgerAgrees
<1>4. PICK p \in Clerks : TransitionStep(p)
  BY <1>1 DEF Next, vars, RefusedForConflict
<1>5. session[p] \in Session
  BY <1>1
<1>6. ASSUME NEW c \in CaseIds, NEW to \in CaseStage, GetCase(p, c, to)
      PROVE  Overtaken(k)
  <2>1. CASE Finish(p, "case_not_found")
    BY <2>1, Answered DEF Conflicts
  <2>2. CASE session' = [session EXCEPT ![p] =
               [pc |-> "got", target |-> c, to |-> to, read |-> row[c],
                answer |-> "none", began |-> Len(audit[c])]]
    <3> DEFINE n == [pc |-> "got", target |-> c, to |-> to, read |-> row[c],
                     answer |-> "none", began |-> Len(audit[c])]
    <3>1. n.pc # "idle"
      OBVIOUS
    <3>2. session' = [session EXCEPT ![p] = n]
      BY <2>2
    <3> HIDE DEF n
    <3>3. QED
      BY <3>1, <3>2, OnlyFinishEnds
  <2>3. QED
    BY <1>6, <2>1, <2>2 DEF GetCase
<1>7. CASE CheckStage(p)
  <2>1. CASE /\ row[session[p].target].stage # session[p].read.stage
             /\ Finish(p, "concurrent_change")
    BY <1>2, <2>1, Answered
  <2>2. CASE Finish(p, "invalid_transition")
    BY <2>2, Answered DEF Conflicts
  <2>3. CASE session' = [session EXCEPT ![p].pc = "staged"]
    <3>1. [session[p] EXCEPT !.pc = "staged"].pc # "idle"
      BY <1>5 DEF Session
    <3>2. QED
      BY <1>1, <2>3, <3>1, OnlyFinishEnds
  <2>4. QED
    BY <1>7, <2>1, <2>2, <2>3 DEF CheckStage
<1>8. CASE RefreshCase(p)
  <2>1. CASE /\ row[session[p].target].stage # session[p].read.stage
             /\ Finish(p, "concurrent_change")
    BY <1>2, <2>1, Answered
  <2>2. CASE session' = [session EXCEPT ![p].pc = "refreshed",
                                        ![p].read = row[session[p].target]]
    <3>1. [session[p] EXCEPT !.pc = "refreshed",
                             !.read = row[session[p].target]].pc # "idle"
      BY <1>5 DEF Session
    <3>2. QED
      BY <1>1, <2>2, <3>1, OnlyFinishEnds
  <2>3. QED
    BY <1>8, <2>1, <2>2 DEF RefreshCase
<1>9. CASE ReadAudit(p)
  <2>1. CASE LedgerAgrees(audit[session[p].target], session[p].read)
    <3>1. [session[p] EXCEPT !.pc = "checked"].pc # "idle"
      BY <1>5 DEF Session
    <3>2. QED
      BY <1>1, <1>9, <2>1, <3>1, OnlyFinishEnds DEF ReadAudit
  <2>2. CASE ~LedgerAgrees(audit[session[p].target], session[p].read)
    BY <1>2, <1>3, <1>9, <2>2, Answered DEF ReadAudit
  <2>3. QED
    BY <2>1, <2>2
<1>10. ASSUME NEW at \in Times, CommitTransition(p, at)
       PROVE  Overtaken(k)
  <2>1. CASE RowUnchanged(p)
    BY <1>10, <2>1, Answered DEF CommitTransition, Conflicts
  <2>2. CASE ~RowUnchanged(p)
    BY <1>2, <1>10, <2>2, Answered DEF CommitTransition, RowUnchanged
  <2>3. QED
    BY <2>1, <2>2
<1>11. CASE AbortTransition(p)
  BY <1>11, Answered DEF AbortTransition, Conflicts
<1>12. QED
  BY <1>4, <1>6, <1>7, <1>8, <1>9, <1>10, <1>11 DEF TransitionStep

(***************************************************************************)
(* A transition refused as a conflict or for a malformed ledger really was *)
(* overtaken by another one.                                               *)
(***************************************************************************)
THEOREM RefusalsAreHonest == Spec => OnlyOvertakenIsRefused
<1>1. ASSUME CaseInv, [Next]_vars
      PROVE  [\A k \in Clerks : RefusedForConflict(k) => Overtaken(k)]_vars
  BY <1>1, RefusalIsOvertaken
<1>2. QED
  BY <1>1, CaseInvariant, PTL DEF Spec, OnlyOvertakenIsRefused

-----------------------------------------------------------------------------
(* The refinement of CaseLifecycle.                                        *)

LEMMA PathIsSequence ==
  ASSUME NEW q \in Seq(CaseEvent)
  PROVE  LET f == [i \in 1..Len(q) |-> q[i].after.stage] IN
         /\ Len(q) \in Nat
         /\ f \in Seq(CaseStage)
         /\ Len(f) = Len(q)
<1>1. Len(q) \in Nat
  OBVIOUS
<1>2. ASSUME NEW i \in 1..Len(q)
      PROVE  q[i].after.stage \in CaseStage
  <2>1. q[i] \in CaseEvent
    OBVIOUS
  <2>2. QED
    BY <2>1 DEF CaseEvent, CaseState
<1>3. [i \in 1..Len(q) |-> q[i].after.stage] \in [1..Len(q) -> CaseStage]
  BY <1>2
<1>4. QED
  BY <1>1, <1>3

LEMMA PathEnds ==
  ASSUME NEW q \in Seq(CaseEvent)
  PROVE  /\ Len(Path(q)) = Len(q) + 1
         /\ Path(q)[Len(q) + 1] =
              IF q = <<>> THEN "recommended" ELSE q[Len(q)].after.stage
<1> DEFINE f == [i \in 1..Len(q) |-> q[i].after.stage]
<1>1. Len(q) \in Nat /\ f \in Seq(CaseStage) /\ Len(f) = Len(q)
  BY PathIsSequence
<1>2. /\ Len(Path(q)) = Len(q) + 1
      /\ Path(q)[Len(q) + 1] = IF Len(q) = 0 THEN "recommended" ELSE f[Len(q)]
  BY <1>1 DEF Path
<1>3. QED
  BY <1>1, <1>2

LEMMA PathGrows ==
  ASSUME NEW q \in Seq(CaseEvent), NEW e \in CaseEvent
  PROVE  Path(Append(q, e)) = Append(Path(q), e.after.stage)
<1> DEFINE p == Append(q, e)
           f == [i \in 1..Len(q) |-> q[i].after.stage]
           g == [i \in 1..Len(p) |-> p[i].after.stage]
<1>1. /\ Len(q) \in Nat /\ Len(p) = Len(q) + 1
      /\ p[Len(q) + 1] = e /\ \A i \in 1..Len(q) : p[i] = q[i]
      /\ p \in Seq(CaseEvent)
  BY AppendEvent
<1>2. /\ f \in Seq(CaseStage) /\ Len(f) = Len(q)
      /\ g \in Seq(CaseStage) /\ Len(g) = Len(q) + 1
      /\ e.after.stage \in CaseStage
  <2>1. e.after.stage \in CaseStage
    BY DEF CaseEvent, CaseState
  <2>2. QED
    BY <1>1, <2>1, PathIsSequence
<1>3. g = Append(f, e.after.stage)
  BY <1>1, <1>2
<1>4. <<"recommended">> \o Append(f, e.after.stage)
        = Append(<<"recommended">> \o f, e.after.stage)
  BY <1>2 DEF CaseStage
<1>5. QED
  BY <1>3, <1>4 DEF Path

(***************************************************************************)
(* CaseRepository.transition implements CaseLifecycle: every case walks    *)
(* one path through the stage graph, whatever requests race.               *)
(***************************************************************************)
THEOREM ImplementsLifecycle == Spec => FollowsLifecycle
<1> DEFINE bar == [c \in Cases |-> Path(audit[c])]
<1>1. Init => Lifecycle!Init
  <2> SUFFICES ASSUME Init PROVE bar = [c \in Cases |-> <<"recommended">>]
    BY DEF Lifecycle!Init
  <2>1. Path(<<>>) = <<"recommended">>
    BY DEF Path
  <2>2. QED
    BY <2>1 DEF Init
<1>2. ASSUME CaseInv, [Next]_vars
      PROVE  [Lifecycle!Next]_bar
  <2>1. CASE audit' = audit
    BY <2>1
  <2>2. CASE audit' # audit
    <3>1. PICK k \in Clerks, at \in Times : CommitTransition(k, at)
      BY <1>2, <2>2 DEF Next, vars, TransitionStep, GetCase, CheckStage,
         RefreshCase, ReadAudit, AbortTransition
    <3> DEFINE s == session[k]
               c == session[k].target
               e == TransitionEvent(s.read, s.to, at)
               q == audit[session[k].target]
    <3>2. /\ audit' = [audit EXCEPT ![c] = Append(@, e)]
          /\ row[c] = s.read /\ s.pc = "checked"
      BY <2>2, <3>1 DEF CommitTransition, RowUnchanged
    <3>3. /\ c \in Cases /\ q \in Seq(CaseEvent)
          /\ audit \in [Cases -> Seq(CaseEvent)]
          /\ s.read \in CaseState /\ s.to \in CaseStage
          /\ CanMove(s.read.stage, s.to)
      BY <1>2, <3>2, InvBySession DEF SessionInv, ReadsTheRow, Session
    <3>4. e \in CaseEvent /\ e.after.stage = s.to
      BY <3>3 DEF TransitionEvent, CaseEvent, CaseState
    <3>5. bar[c][Len(bar[c])] = row[c].stage
      <4>1. IF q = <<>> THEN row[c].stage = "recommended"
                        ELSE q[Len(q)].after = row[c]
        BY <1>2, <3>3 DEF CaseInv, LedgerReplaysToRow
      <4>2. QED
        BY <3>3, <4>1, PathEnds
    <3>6. s.to \in NextStages[bar[c][Len(bar[c])]]
      BY <3>2, <3>3, <3>5 DEF CanMove
    <3>7. bar' = [bar EXCEPT ![c] = Append(@, s.to)]
      <4>1. Path(audit'[c]) = Append(Path(audit[c]), s.to)
        BY <3>2, <3>3, <3>4, PathGrows
      <4>2. \A d \in Cases \ {c} : audit'[d] = audit[d]
        BY <3>2, <3>3
      <4>3. QED
        BY <3>3, <4>1, <4>2
    <3>8. Lifecycle!Move(c)
      BY <3>6, <3>7 DEF Lifecycle!Move, Lifecycle!NextStages, NextStages
    <3>9. QED
      BY <3>3, <3>8 DEF Lifecycle!Next
  <2>3. QED
    BY <2>1, <2>2
<1>3. QED
  BY <1>1, <1>2, CaseInvariant, PTL
     DEF Spec, FollowsLifecycle, Lifecycle!Spec
=============================================================================

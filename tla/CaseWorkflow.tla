---------------------------- MODULE CaseWorkflow ----------------------------
(***************************************************************************)
(* CaseRepository.transition under concurrent requests.  As in             *)
(* AssessmentReview, every SELECT sees the database of its own instant and *)
(* the UPDATE, the audit INSERT and the COMMIT are one atomic step, so a   *)
(* transition is five steps of its request: GetCase, CheckStage,           *)
(* RefreshCase, ReadAudit and CommitTransition.                            *)
(*                                                                         *)
(* The clock of a request is not monotone: occurred_at is any of Times.    *)
(* Assignee and note are never edited by the program and are left out.     *)
(***************************************************************************)
EXTENDS Naturals, Sequences, CaseStages

CONSTANTS
  Cases,    \* ids of cases rows
  CaseIds,  \* ids a request may name
  Clerks,   \* concurrent transition requests
  Times     \* values of occurred_at and updated_at

ASSUME CaseAssumption == Cases # {} /\ Cases \subseteq CaseIds /\ Times # {}

VARIABLES
  row,      \* cases.stage and cases.updated_at
  audit,    \* audit_events of entity_type "case", oldest first
  session   \* state of each request

vars == <<row, audit, session>>

CaseState == [stage: CaseStage, at: Times]

Refusals ==
  {"case_not_found", "concurrent_change", "invalid_transition",
   "malformed_audit", "aborted"}

Session == [pc: {"idle", "got", "staged", "refreshed", "checked"},
            target: CaseIds,
            to: CaseStage,      \* requested stage
            read: CaseState,    \* the row as this session last read it
            answer: {"none", "moved"} \cup Refusals,
            began: Nat]         \* history: moves of the case at GetCase

NoSession ==
  [pc |-> "idle", target |-> CHOOSE c \in Cases : TRUE, to |-> "closed",
   read |-> [stage |-> "recommended", at |-> CHOOSE t \in Times : TRUE],
   answer |-> "none", began |-> 0]

(* Rows are created outside the program, as recommended cases.             *)
Init ==
  /\ row \in [Cases -> {[stage |-> "recommended", at |-> t] : t \in Times}]
  /\ audit = [c \in Cases |-> <<>>]
  /\ session = [k \in Clerks |-> NoSession]

(* The session ends with an answer; what it read is dropped with it.       *)
Finish(k, code) ==
  session' = [session EXCEPT ![k] = [NoSession EXCEPT !.answer = code]]

(* session.get(CaseRow, case_id) in a fresh session.                       *)
GetCase(k, c, to) ==
  /\ session[k].pc = "idle"
  /\ \/ /\ c \notin Cases
        /\ Finish(k, "case_not_found")
     \/ /\ c \in Cases
        /\ session' = [session EXCEPT ![k] =
             [pc |-> "got", target |-> c, to |-> to, read |-> row[c],
              answer |-> "none", began |-> Len(audit[c])]]
  /\ UNCHANGED <<row, audit>>

(* Seeded fault: any other stage may follow.                               *)
FaultAnyMove(from, to) == from # to

CanMove(from, to) == to \in NextStages[from]

(* The second SELECT of the stage, then the graph check.                   *)
CheckStage(k) ==
  LET s == session[k] IN
  /\ s.pc = "got"
  /\ \/ /\ row[s.target].stage # s.read.stage
        /\ Finish(k, "concurrent_change")
     \/ /\ row[s.target].stage = s.read.stage
        /\ ~CanMove(s.read.stage, s.to)
        /\ Finish(k, "invalid_transition")
     \/ /\ row[s.target].stage = s.read.stage
        /\ CanMove(s.read.stage, s.to)
        /\ session' = [session EXCEPT ![k].pc = "staged"]
  /\ UNCHANGED <<row, audit>>

RefreshCase(k) ==
  LET s == session[k] IN
  /\ s.pc = "staged"
  /\ \/ /\ row[s.target].stage # s.read.stage
        /\ Finish(k, "concurrent_change")
     \/ /\ row[s.target].stage = s.read.stage
        /\ session' = [session EXCEPT ![k].pc = "refreshed",
                                      ![k].read = row[s.target]]
  /\ UNCHANGED <<row, audit>>

(* validate_case_after_state on the newest audit event, if there is one.   *)
LedgerAgrees(ledger, state) ==
  ledger = <<>> \/ ledger[Len(ledger)].after = state

ReadAudit(k) ==
  LET s == session[k] IN
  /\ s.pc = "refreshed"
  /\ IF LedgerAgrees(audit[s.target], s.read)
     THEN session' = [session EXCEPT ![k].pc = "checked"]
     ELSE Finish(k, "malformed_audit")
  /\ UNCHANGED <<row, audit>>

(* Seeded fault: only the time stamp is compared.                          *)
FaultSameTime(k) == row[session[k].target].at = session[k].read.at

(* The WHERE clause of the optimistic UPDATE.                              *)
RowUnchanged(k) == row[session[k].target] = session[k].read

(* Seeded fault: the old time stamp is kept.                               *)
FaultOldTime(before, to, at) ==
  [before |-> before, after |-> [stage |-> to, at |-> before.at]]

TransitionEvent(before, to, at) ==
  [before |-> before, after |-> [stage |-> to, at |-> at]]

CommitTransition(k, at) ==
  LET s == session[k] IN
  /\ s.pc = "checked"
  /\ IF RowUnchanged(k)
     THEN /\ row' = [row EXCEPT ![s.target] = [stage |-> s.to, at |-> at]]
          /\ audit' = [audit EXCEPT ![s.target] =
                         Append(@, TransitionEvent(s.read, s.to, at))]
          /\ Finish(k, "moved")
     ELSE /\ Finish(k, "concurrent_change")
          /\ UNCHANGED <<row, audit>>

(* Any failure before COMMIT rolls the unit of work back.                  *)
AbortTransition(k) ==
  /\ session[k].pc # "idle"
  /\ Finish(k, "aborted")
  /\ UNCHANGED <<row, audit>>

TransitionStep(k) ==
  \/ \E c \in CaseIds, to \in CaseStage : GetCase(k, c, to)
  \/ CheckStage(k)
  \/ RefreshCase(k)
  \/ ReadAudit(k)
  \/ \E at \in Times : CommitTransition(k, at)
  \/ AbortTransition(k)

Next == \E k \in Clerks : TransitionStep(k)

Spec == Init /\ [][Next]_vars

-----------------------------------------------------------------------------
(* Properties.                                                             *)

CaseEvent == [before: CaseState, after: CaseState]

(* Every variable keeps the shape of the rows and requests it stands for.  *)
TypeOK ==
  /\ row \in [Cases -> CaseState]
  /\ audit \in [Cases -> Seq(CaseEvent)]
  /\ session \in [Clerks -> Session]

(***************************************************************************)
(* Replaying the ledger of a case from "recommended" gives the row the     *)
(* table holds, time stamp included: no move is missing from the ledger,   *)
(* none is there twice, and no two start from the same state.              *)
(***************************************************************************)
LedgerReplaysToRow ==
  \A c \in Cases :
    LET ledger == audit[c] IN
    IF ledger = <<>> THEN row[c].stage = "recommended"
    ELSE /\ ledger[1].before.stage = "recommended"
         /\ ledger[Len(ledger)].after = row[c]
         /\ \A i \in 1..(Len(ledger) - 1) :
              ledger[i].after = ledger[i + 1].before

(***************************************************************************)
(* A request refused for a conflict, or because its ledger disagrees with  *)
(* its row, really was overtaken: another request moved the case since it  *)
(* began.  A case nobody else is moving can always be moved.               *)
(***************************************************************************)
Conflicts == {"concurrent_change", "malformed_audit"}

RefusedForConflict(k) ==
  session[k].pc # "idle" /\ session'[k].pc = "idle"
    /\ session'[k].answer \in Conflicts

Overtaken(k) == Len(audit[session[k].target]) > session[k].began

OnlyOvertakenIsRefused ==
  [][\A k \in Clerks : RefusedForConflict(k) => Overtaken(k)]_vars

(***************************************************************************)
(* The repository implements the one-path promise of CaseLifecycle: the    *)
(* stages the ledger tells are the path each case has walked.              *)
(***************************************************************************)
Path(ledger) ==
  <<"recommended">> \o [i \in 1..Len(ledger) |-> ledger[i].after.stage]

Lifecycle ==
  INSTANCE CaseLifecycle WITH trail <- [c \in Cases |-> Path(audit[c])]

FollowsLifecycle == Lifecycle!Spec

(***************************************************************************)
(* The strengthening.  While nobody has moved the case since GetCase, the  *)
(* row is what the session read up to the refreshed time stamp; a session  *)
(* past CheckStage asks for a move of the graph from the stage it read.    *)
(***************************************************************************)
ReadsTheRow(s) ==
  s.pc # "idle" =>
    /\ s.target \in Cases
    /\ s.began <= Len(audit[s.target])
    /\ s.began = Len(audit[s.target]) => s.read = row[s.target]
    /\ s.pc # "got" => CanMove(s.read.stage, s.to)

CaseInv ==
  /\ TypeOK
  /\ LedgerReplaysToRow
  /\ \A k \in Clerks : session[k].target \in Cases
  /\ \A k \in Clerks : ReadsTheRow(session[k])
=============================================================================

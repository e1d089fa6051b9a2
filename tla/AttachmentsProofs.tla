-------------------------- MODULE AttachmentsProofs --------------------------
(***************************************************************************)
(* For any number of attachments, collectors and parses: type correctness, *)
(* documents behind finished attachments only, survival of assessed rules, *)
(* and exactness for attachments one collector at a time works on.         *)
(* AttachmentInv is the inductive invariant.  Last, the download of one    *)
(* attachment (Download), with DownloadInv, and what its document becomes  *)
(* (DocumentIngest), with StoredIsExtracted.                               *)
(***************************************************************************)
EXTENDS Attachments, Download, DocumentIngest, FiniteSetTheorems,
        WellFoundedInduction, TLAPS

LEMMA StatusSets == Retryable \cap Finished = {}
BY DEF Retryable, Finished

(* The part of the invariant that is about what sessions hold.             *)
SessionsInv ==
  /\ row \in [Attachments -> Row]
  /\ DOMAIN session = Collectors
  /\ \A c \in Collectors : IsSession(session[c])
  /\ overlapped \subseteq Attachments
  /\ HoldsRetryable /\ SoleHolder /\ HolderIsUpToDate

LEMMA InvHasSessions == AttachmentInv => SessionsInv
BY DEF AttachmentInv, SessionsInv, TypeOK

LEMMA InitInv == Init => AttachmentInv
<1> SUFFICES ASSUME Init PROVE AttachmentInv
  OBVIOUS
<1>1. \A c \in Collectors : session[c] = NoSession /\ Held(c) = {}
  BY DEF Init, NoSession, Held
<1>2. DOMAIN NoSession.loaded = {} /\ NoSession.loaded \in [{} -> Row]
  BY DEF NoSession
<1>3. IsSession(NoSession)
  BY <1>2 DEF IsSession, NoSession
<1>4. \A a \in Attachments : row[a] = [status |-> "pending", attempts |-> 0]
  BY DEF Init
<1>5. [status |-> "pending", attempts |-> 0] \in Row
  BY DEF Row, Retryable
<1>6. TypeOK
  BY <1>1, <1>3, <1>5 DEF Init, TypeOK
<1>7. DocumentsAreFinished /\ SoleCollectorIsExact
  BY <1>4 DEF Init, DocumentsAreFinished, SoleCollectorIsExact, Finished
<1>8. AssessedRulesSurvive /\ HoldsRetryable /\ SoleHolder /\ HolderIsUpToDate
  BY <1>1 DEF Init, AssessedRulesSurvive, HoldsRetryable, SoleHolder,
              HolderIsUpToDate
<1>9. QED
  BY <1>6, <1>7, <1>8 DEF AttachmentInv

-----------------------------------------------------------------------------
(* Actions that neither store an outcome nor assess.                       *)

LEMMA SelectInv ==
  ASSUME AttachmentInv, NEW c \in Collectors, Select(c)
  PROVE  AttachmentInv'
<1> DEFINE new == [pc |-> "selected", loaded |-> [a \in Selected |-> row[a]]]
<1>1. SessionsInv /\ TypeOK
  BY InvHasSessions DEF AttachmentInv
<1>2. Selected \subseteq Attachments
  BY DEF Selected, Open
<1>3. \A a \in Selected : row[a] \in Row /\ row[a].status \in Retryable
  BY <1>1, <1>2 DEF Selected, Open, TypeOK
<1>4. IsSession(new) /\ DOMAIN new.loaded = Selected
  BY <1>2, <1>3 DEF IsSession
<1>5. session' = [session EXCEPT ![c] = new]
  BY DEF Select
<1>6. session'[c] = new /\ \A d \in Collectors \ {c} : session'[d] = session[d]
  BY <1>1, <1>5 DEF TypeOK
<1>7. Held(c)' = Selected /\ \A d \in Collectors \ {c} : Held(d)' = Held(d)
  BY <1>4, <1>6 DEF Held
<1>8. TypeOK'
  <2>1. overlapped' \subseteq Attachments
    BY <1>1, <1>2 DEF Select, TypeOK
  <2>2. clean' \in BOOLEAN
    BY <1>1 DEF Select, TypeOK
  <2>3. DOMAIN session' = Collectors /\ \A d \in Collectors : IsSession(session'[d])
    BY <1>1, <1>4, <1>5, <1>6 DEF TypeOK
  <2>4. QED
    BY <1>1, <2>1, <2>2, <2>3 DEF Select, TypeOK
<1>9. DocumentsAreFinished' /\ AssessedRulesSurvive'
  BY DEF AttachmentInv, Select, DocumentsAreFinished, AssessedRulesSurvive
<1>10. SoleCollectorIsExact'
  BY DEF AttachmentInv, Select, SoleCollectorIsExact
<1>11. HoldsRetryable'
  BY <1>1, <1>3, <1>6, <1>7 DEF SessionsInv, HoldsRetryable
<1>12. \A a \in Selected : \A d \in Collectors \ {c} :
         a \in Held(d) => a \in overlapped'
  BY DEF Select
<1>13. overlapped \subseteq overlapped'
  BY DEF Select
<1>14. SoleHolder'
  BY <1>1, <1>7, <1>12, <1>13 DEF SessionsInv, SoleHolder
<1>15. HolderIsUpToDate'
  <2>1. \A a \in Selected : session'[c].loaded[a] = row[a] /\ row' = row
    BY <1>6 DEF Select
  <2>2. QED
    BY <1>1, <1>6, <1>7, <1>13, <2>1 DEF SessionsInv, HolderIsUpToDate, Select
<1>16. QED
  BY <1>8, <1>9, <1>10, <1>11, <1>14, <1>15 DEF AttachmentInv

LEMMA BumpInv ==
  ASSUME AttachmentInv, NEW c \in Collectors, Bump(c)
  PROVE  AttachmentInv'
<1> DEFINE bumped == [a \in Held(c) |->
                        [session[c].loaded[a] EXCEPT !.attempts = @ + 1]]
           new    == [pc |-> "working", loaded |-> bumped]
<1>1. SessionsInv /\ TypeOK
  BY InvHasSessions DEF AttachmentInv
<1>2. /\ Held(c) \subseteq Attachments
      /\ \A a \in Held(c) : session[c].loaded[a] \in Row
  BY <1>1 DEF SessionsInv, IsSession, Held
<1>3. \A a \in Held(c) :
        /\ bumped[a] \in Row
        /\ bumped[a].status = session[c].loaded[a].status
  BY <1>2 DEF Row
<1>4. IsSession(new) /\ DOMAIN new.loaded = Held(c)
  BY <1>2, <1>3 DEF IsSession
<1>5. session' = [session EXCEPT ![c] = new]
  BY DEF Bump, Held
<1>6. session'[c] = new /\ \A d \in Collectors \ {c} : session'[d] = session[d]
  BY <1>1, <1>5 DEF TypeOK
<1>7. \A d \in Collectors : Held(d)' = Held(d)
  BY <1>4, <1>6 DEF Held
<1>8. row' = [a \in Attachments |->
        IF a \in Held(c) THEN [row[a] EXCEPT !.attempts = bumped[a].attempts]
        ELSE row[a]]
  BY DEF Bump, Held
<1>9. \A a \in Attachments : row'[a] \in Row /\ row'[a].status = row[a].status
  BY <1>1, <1>3, <1>8 DEF TypeOK, Row
<1>10. TypeOK'
  <2>1. row' \in [Attachments -> Row]
    BY <1>8, <1>9
  <2>2. DOMAIN session' = Collectors /\ \A d \in Collectors : IsSession(session'[d])
    BY <1>1, <1>4, <1>5, <1>6 DEF TypeOK
  <2>3. QED
    BY <1>1, <2>1, <2>2 DEF Bump, TypeOK
<1>11. DocumentsAreFinished' /\ AssessedRulesSurvive' /\ SoleCollectorIsExact'
  BY <1>9 DEF AttachmentInv, Bump, DocumentsAreFinished, AssessedRulesSurvive,
              SoleCollectorIsExact
<1>12. \A d \in Collectors : \A a \in Held(d) :
         session'[d].loaded[a].status = session[d].loaded[a].status
  BY <1>3, <1>6
<1>13. HoldsRetryable' /\ SoleHolder'
  BY <1>1, <1>7, <1>12 DEF SessionsInv, HoldsRetryable, SoleHolder, Bump
<1>14. HolderIsUpToDate'
  BY <1>1, <1>7, <1>9, <1>12 DEF SessionsInv, HolderIsUpToDate, Bump
<1>15. QED
  BY <1>10, <1>11, <1>13, <1>14 DEF AttachmentInv

LEMMA AbortInv ==
  ASSUME AttachmentInv, NEW c \in Collectors, AbortCollection(c)
  PROVE  AttachmentInv'
<1>1. SessionsInv /\ TypeOK
  BY InvHasSessions DEF AttachmentInv
<1>2. IsSession(NoSession) /\ DOMAIN NoSession.loaded = {}
  BY DEF IsSession, NoSession
<1>3. /\ session'[c] = NoSession
      /\ \A d \in Collectors \ {c} : session'[d] = session[d]
      /\ DOMAIN session' = Collectors
  BY <1>1 DEF AbortCollection, TypeOK
<1>4. Held(c)' = {} /\ \A d \in Collectors \ {c} : Held(d)' = Held(d)
  BY <1>2, <1>3 DEF Held
<1>5. TypeOK'
  BY <1>1, <1>2, <1>3 DEF AbortCollection, TypeOK
<1>6. DocumentsAreFinished' /\ AssessedRulesSurvive' /\ SoleCollectorIsExact'
  BY DEF AttachmentInv, AbortCollection, DocumentsAreFinished,
         AssessedRulesSurvive, SoleCollectorIsExact
<1>7. HoldsRetryable' /\ SoleHolder' /\ HolderIsUpToDate'
  BY <1>1, <1>3, <1>4 DEF SessionsInv, AbortCollection, HoldsRetryable,
                          SoleHolder, HolderIsUpToDate
<1>8. QED
  BY <1>5, <1>6, <1>7 DEF AttachmentInv

-----------------------------------------------------------------------------
(* Outcomes.                                                               *)

(* The flush of a held row.                                                *)
LEMMA FlushedRow ==
  ASSUME SessionsInv, NEW c \in Collectors, NEW a \in Held(c),
         NEW status \in Retryable \cup Finished
  PROVE  /\ a \in Attachments
         /\ Flushed(c, a, status) \in Row
         /\ status \in Finished => Flushed(c, a, status).status = status
         /\ a \notin overlapped => Flushed(c, a, status).status = status
<1>1. a \in Attachments /\ row[a] \in Row
  BY DEF SessionsInv, IsSession, Held
<1>2. session[c].loaded[a].status \in Retryable
  BY DEF SessionsInv, HoldsRetryable
<1>3. a \notin overlapped => session[c].loaded[a].status = row[a].status
  BY <1>1 DEF SessionsInv, HolderIsUpToDate
<1>4. Flushed(c, a, status) =
        [row[a] EXCEPT !.status =
           IF session[c].loaded[a].status = status THEN row[a].status
           ELSE status]
  BY <1>1 DEF Flushed, Row
<1>5. /\ Flushed(c, a, status) \in Row
      /\ Flushed(c, a, status).status =
           IF session[c].loaded[a].status = status THEN row[a].status
           ELSE status
  BY <1>1, <1>4 DEF Row
<1>6. QED
  BY <1>1, <1>2, <1>3, <1>5, StatusSets

(* What an outcome leaves of the sessions.                                 *)
LEMMA OutcomeSessions ==
  ASSUME SessionsInv, NEW c \in Collectors, NEW a, IsNext(c, a), Drop(c, a),
         NEW status \in Retryable \cup Finished, UNCHANGED overlapped,
         row' = [row EXCEPT ![a] = Flushed(c, a, status)]
  PROVE  SessionsInv'
<1> DEFINE rest == Held(c) \ {a}
           new  == IF rest = {} THEN NoSession
                   ELSE [pc     |-> "working",
                         loaded |-> [b \in rest |-> session[c].loaded[b]]]
<1>1. a \in Held(c)
  BY DEF IsNext
<1>2. Held(c) \subseteq Attachments /\ session[c].loaded \in [Held(c) -> Row]
  BY DEF SessionsInv, IsSession, Held
<1>3. DOMAIN new.loaded = rest
  BY DEF NoSession
<1>4. \A b \in rest : new.loaded[b] = session[c].loaded[b]
  OBVIOUS
<1>5. IsSession(new)
  <2>1. CASE rest = {}
    BY <2>1 DEF IsSession, NoSession
  <2>2. CASE rest # {}
    BY <2>2, <1>2 DEF IsSession
  <2>3. QED
    BY <2>1, <2>2
<1>6. session' = [session EXCEPT ![c] = new]
  BY DEF Drop
<1>7. /\ session'[c] = new /\ DOMAIN session' = Collectors
      /\ \A d \in Collectors \ {c} : session'[d] = session[d]
  BY <1>6 DEF SessionsInv
<1>8. Held(c)' = rest /\ \A d \in Collectors \ {c} : Held(d)' = Held(d)
  BY <1>3, <1>7 DEF Held
<1>9. \A d \in Collectors : \A b \in Held(d)' :
        b \in Held(d) /\ session'[d].loaded[b] = session[d].loaded[b]
  BY <1>4, <1>7, <1>8
<1>10. /\ row' \in [Attachments -> Row]
       /\ \A b \in Attachments \ {a} : row'[b] = row[b]
  BY <1>1, FlushedRow DEF SessionsInv
<1>11. HoldsRetryable' /\ SoleHolder'
  BY <1>9 DEF SessionsInv, HoldsRetryable, SoleHolder
<1>12. HolderIsUpToDate'
  <2> SUFFICES ASSUME NEW b \in Attachments \ overlapped, NEW d \in Collectors,
                      b \in Held(d)'
               PROVE  session'[d].loaded[b].status = row'[b].status
    BY DEF HolderIsUpToDate
  <2>1. b \in Held(d)
    BY <1>9
  <2>2. b # a
    BY <1>1, <1>8, <2>1 DEF SessionsInv, SoleHolder
  <2>3. QED
    BY <1>9, <1>10, <2>1, <2>2 DEF SessionsInv, HolderIsUpToDate
<1>13. QED
  BY <1>5, <1>7, <1>10, <1>11, <1>12 DEF SessionsInv

LEMMA FailInv ==
  ASSUME AttachmentInv, NEW c \in Collectors, NEW a \in Attachments,
         FailAttachment(c, a)
  PROVE  AttachmentInv'
<1>1. PICK status \in {"missing", "failed"} : StoreFailure(c, a, status)
  BY DEF FailAttachment
<1>2. a \in Held(c) /\ document[a] \notin assessed
  BY DEF FailAttachment, IsNext, Deletable
<1>3. status \in Retryable /\ status \in Retryable \cup Finished
  BY DEF Retryable
<1>4. SessionsInv'
  BY <1>1, <1>3, InvHasSessions, OutcomeSessions DEF FailAttachment, StoreFailure
<1>5. /\ row' = [row EXCEPT ![a] = Flushed(c, a, status)]
      /\ document' = [document EXCEPT ![a] = 0]
      /\ UNCHANGED <<ruled, assessed, parses, overlapped, clean>>
  BY <1>1 DEF StoreFailure, FailAttachment
<1>6. TypeOK /\ document'[a] = 0
      /\ \A b \in Attachments \ {a} : document'[b] = document[b]
  BY <1>5 DEF AttachmentInv, TypeOK
<1>7. /\ row' \in [Attachments -> Row] /\ row'[a] = Flushed(c, a, status)
      /\ \A b \in Attachments \ {a} : row'[b] = row[b]
  BY <1>4, <1>5, <1>6 DEF SessionsInv, TypeOK
<1>8. TypeOK'
  BY <1>4, <1>5, <1>6 DEF TypeOK, SessionsInv
<1>9. DocumentsAreFinished'
  BY <1>6, <1>7 DEF AttachmentInv, DocumentsAreFinished
<1>10. AssessedRulesSurvive'
  BY <1>2, <1>5, <1>6 DEF AttachmentInv, AssessedRulesSurvive
<1>11. a \notin overlapped => row'[a].status = status
  BY <1>2, <1>3, <1>7, FlushedRow, InvHasSessions
<1>12. SoleCollectorIsExact'
  BY <1>3, <1>5, <1>6, <1>7, <1>11, StatusSets
     DEF AttachmentInv, SoleCollectorIsExact
<1>13. QED
  BY <1>4, <1>8, <1>9, <1>10, <1>12 DEF AttachmentInv, SessionsInv

LEMMA StoreInv ==
  ASSUME AttachmentInv, NEW c \in Collectors, NEW a \in Attachments,
         StoreParsed(c, a)
  PROVE  AttachmentInv'
<1>1. PICK warned \in BOOLEAN, rules \in BOOLEAN :
        /\ row' = [row EXCEPT ![a] = Flushed(c, a, ParsedStatus(warned))]
        /\ ruled' = IF rules THEN ruled \cup {parses + 1} ELSE ruled
  BY DEF StoreParsed
<1> DEFINE status == ParsedStatus(warned)
<1>2. a \in Held(c) /\ document[a] \notin assessed
  BY DEF StoreParsed, IsNext, Deletable
<1>3. status \in Finished /\ status \in Retryable \cup Finished
  BY DEF ParsedStatus, Finished
<1>4. /\ document' = [document EXCEPT ![a] = parses + 1]
      /\ parses' = parses + 1
      /\ UNCHANGED <<assessed, overlapped, clean>>
  BY DEF StoreParsed
<1>5. SessionsInv'
  <2>1. IsNext(c, a) /\ Drop(c, a)
    BY DEF StoreParsed
  <2>2. QED
    BY <1>1, <1>3, <1>4, <2>1, InvHasSessions, OutcomeSessions
<1>6. /\ TypeOK /\ document'[a] = parses + 1
      /\ \A b \in Attachments \ {a} : document'[b] = document[b]
  BY <1>4 DEF AttachmentInv, TypeOK
<1>7. /\ row' \in [Attachments -> Row] /\ row'[a] = Flushed(c, a, status)
      /\ \A b \in Attachments \ {a} : row'[b] = row[b]
  BY <1>1, <1>5, <1>6 DEF SessionsInv, TypeOK
<1>8. row'[a].status = status
  BY <1>2, <1>3, <1>7, FlushedRow, InvHasSessions
<1>9. TypeOK'
  <2>1. document' \in [Attachments -> 0..parses']
    BY <1>4, <1>6 DEF TypeOK
  <2>2. ruled' \subseteq 1..parses' /\ assessed' \subseteq ruled' /\ parses' \in Nat
    BY <1>1, <1>4, <1>6 DEF TypeOK
  <2>3. QED
    BY <1>4, <1>5, <1>6, <2>1, <2>2 DEF TypeOK, SessionsInv
<1>10. DocumentsAreFinished'
  BY <1>3, <1>6, <1>7, <1>8 DEF AttachmentInv, DocumentsAreFinished
<1>11. AssessedRulesSurvive'
  BY <1>2, <1>4, <1>6 DEF AttachmentInv, AssessedRulesSurvive
<1>12. SoleCollectorIsExact'
  <2>1. document'[a] # 0
    BY <1>6 DEF TypeOK
  <2>2. QED
    BY <1>3, <1>4, <1>6, <1>7, <1>8, <2>1 DEF AttachmentInv, SoleCollectorIsExact
<1>13. QED
  BY <1>5, <1>9, <1>10, <1>11, <1>12 DEF AttachmentInv, SessionsInv

LEMMA AssessInv ==
  ASSUME AttachmentInv, NEW a \in Attachments, Assess(a)
  PROVE  AttachmentInv'
<1>1. TypeOK'
  BY DEF AttachmentInv, TypeOK, Assess
<1>2. AssessedRulesSurvive'
  BY DEF AttachmentInv, Assess, AssessedRulesSurvive
<1>3. DocumentsAreFinished' /\ SoleCollectorIsExact'
  BY DEF AttachmentInv, Assess, DocumentsAreFinished, SoleCollectorIsExact
<1>4. HoldsRetryable' /\ SoleHolder' /\ HolderIsUpToDate'
  BY DEF AttachmentInv, Assess, HoldsRetryable, SoleHolder, HolderIsUpToDate, Held
<1>5. QED
  BY <1>1, <1>2, <1>3, <1>4 DEF AttachmentInv

LEMMA StutterInv == AttachmentInv /\ UNCHANGED vars => AttachmentInv'
BY DEF AttachmentInv, vars, TypeOK, DocumentsAreFinished, AssessedRulesSurvive,
       SoleCollectorIsExact, HoldsRetryable, SoleHolder, HolderIsUpToDate, Held

LEMMA NextInv == AttachmentInv /\ [Next]_vars => AttachmentInv'
<1> SUFFICES ASSUME AttachmentInv, [Next]_vars PROVE AttachmentInv'
  OBVIOUS
<1>1. CASE \E c \in Collectors : CollectorStep(c)
  BY <1>1, SelectInv, BumpInv, FailInv, StoreInv, AbortInv DEF CollectorStep
<1>2. CASE \E a \in Attachments : Assess(a)
  BY <1>2, AssessInv
<1>3. QED
  BY <1>1, <1>2, StutterInv DEF Next

-----------------------------------------------------------------------------
(* AttachmentInv holds of every reachable state of the attachment tables.  *)
THEOREM AttachmentInvariant == Spec => []AttachmentInv
BY InitInv, NextInv, PTL DEF Spec

(* Rows, documents and sessions keep their types.                          *)
THEOREM TypeCorrect == Spec => []TypeOK
<1>1. AttachmentInv => TypeOK
  BY DEF AttachmentInv
<1>2. QED
  BY <1>1, AttachmentInvariant, PTL

(* No document is left behind an attachment that will be retried.          *)
THEOREM NoDocumentIsRetried == Spec => []DocumentsAreFinished
<1>1. AttachmentInv => DocumentsAreFinished
  BY DEF AttachmentInv
<1>2. QED
  BY <1>1, AttachmentInvariant, PTL

(* Rules that were assessed are never deleted by a collector.              *)
THEOREM AssessedRulesStay == Spec => []AssessedRulesSurvive
<1>1. AttachmentInv => AssessedRulesSurvive
  BY DEF AttachmentInv
<1>2. QED
  BY <1>1, AttachmentInvariant, PTL

(* One collector at a time keeps status and document in step.              *)
THEOREM OneCollectorIsExact == Spec => []SoleCollectorIsExact
<1>1. AttachmentInv => SoleCollectorIsExact
  BY DEF AttachmentInv
<1>2. QED
  BY <1>1, AttachmentInvariant, PTL

-----------------------------------------------------------------------------
(* The order of the selection.                                             *)

LEMMA RowFacts ==
  ASSUME TypeOK, NEW a \in Attachments
  PROVE  /\ a \in Nat /\ row[a] \in Row /\ row[a].attempts \in Nat
         /\ Rank(row[a]) \in {0, 1}
         /\ row[a].status = "pending" <=> Rank(row[a]) = 0
BY AttachmentAssumption DEF TypeOK, Row, Rank

LEMMA PrecedesIsTotal ==
  ASSUME TypeOK, NEW a \in Attachments, NEW b \in Attachments, a # b
  PROVE  Precedes(row, a, b) \/ Precedes(row, b, a)
BY RowFacts DEF Precedes

LEMMA PrecedesIsTransitive ==
  ASSUME TypeOK, NEW a \in Attachments, NEW b \in Attachments, NEW d \in Attachments,
         Precedes(row, a, b), Precedes(row, b, d)
  PROVE  Precedes(row, a, d)
BY RowFacts DEF Precedes

(* No open attachment comes before one that is selected, without being so. *)
LEMMA SelectedPrecede ==
  ASSUME TypeOK, NEW a \in Selected, NEW b \in Open \ Selected
  PROVE  Precedes(row, a, b)
<1> DEFINE before(x) == {y \in Open : Precedes(row, y, x)}
<1>1. a \in Open /\ b \in Open /\ Open \subseteq Attachments /\ a # b
      /\ Cardinality(before(a)) < Limit /\ ~(Cardinality(before(b)) < Limit)
  BY DEF Selected, Open
<1>2. SUFFICES ASSUME Precedes(row, b, a) PROVE FALSE
  BY <1>1, PrecedesIsTotal
<1>3. before(b) \subseteq before(a)
  BY <1>1, <1>2, PrecedesIsTransitive
<1>4. IsFiniteSet(before(a))
  <2>1. before(a) \in SUBSET Attachments
    BY <1>1
  <2> HIDE DEF before
  <2>2. QED
    BY <2>1, AttachmentAssumption, FS_Subset
<1> HIDE DEF before
<1>5. IsFiniteSet(before(b)) /\ Cardinality(before(b)) <= Cardinality(before(a))
  BY <1>3, <1>4, FS_Subset
<1>6. Cardinality(before(a)) \in Nat /\ Cardinality(before(b)) \in Nat /\ Limit \in Nat
  BY <1>4, <1>5, FS_CardinalityType, AttachmentAssumption
<1>7. QED
  BY <1>1, <1>5, <1>6

-----------------------------------------------------------------------------
(* Collections that run one after the other and to their end.              *)

LEMMA SelectIsClean ==
  ASSUME TypeOK, IdleHoldsNothing, CleanInv, NEW c \in Collectors, Select(c),
         \A d \in Collectors : session[d].pc = "idle"
  PROVE  CleanInv'
<1>1. DOMAIN session = Collectors /\ UNCHANGED row
  BY DEF TypeOK, Select
<1>2. /\ session'[c] = [pc |-> "selected", loaded |-> [a \in Selected |-> row[a]]]
      /\ \A d \in Collectors \ {c} : session'[d] = session[d]
  BY <1>1 DEF Select
<1>3. /\ session'[c].pc = "selected" /\ Held(c)' = Selected
      /\ \A a \in Selected : session'[c].loaded[a] = row[a]
  BY <1>2 DEF Held
<1>4. \A d \in Collectors \ {c} : session'[d].pc = "idle" /\ Held(d)' = {}
  BY <1>2 DEF IdleHoldsNothing, Held
<1>5. OneAtATime'
  BY <1>4 DEF OneAtATime
<1>6. HoldsTheRows'
  BY <1>1, <1>3, <1>4 DEF HoldsTheRows
<1>7. SelectedComeFirst'
  <2>1. Open' = Open /\ \A a \in Selected, b \in Open \ Selected : Precedes(row, a, b)
    BY <1>1, SelectedPrecede DEF Open
  <2>2. QED
    BY <1>1, <1>3, <1>4, <2>1 DEF SelectedComeFirst
<1>8. PendingIsUntried'
  <2>1. \A a \in Attachments : row[a].status = "pending" => row[a].attempts = 0
    BY DEF CleanInv, PendingIsUntried
  <2>2. QED
    BY <1>1, <2>1 DEF PendingIsUntried
<1>9. TriesAreFair'
  BY <1>1 DEF CleanInv, TriesAreFair, Open
<1>10. QED
  BY <1>5, <1>6, <1>7, <1>8, <1>9 DEF CleanInv

LEMMA BumpIsClean ==
  ASSUME AttachmentInv, IdleHoldsNothing, CleanInv, NEW c \in Collectors, Bump(c)
  PROVE  CleanInv'
<1> DEFINE bumped == [a \in Held(c) |->
                        [session[c].loaded[a] EXCEPT !.attempts = @ + 1]]
<1>1. TypeOK /\ DOMAIN session = Collectors /\ session[c].pc = "selected"
  BY DEF AttachmentInv, TypeOK, Bump
<1>2. /\ session'[c] = [pc |-> "working", loaded |-> bumped]
      /\ \A d \in Collectors \ {c} : session'[d] = session[d]
  BY <1>1 DEF Bump, Held
<1>3. session'[c].pc = "working" /\ Held(c)' = Held(c)
      /\ \A a \in Held(c) : session'[c].loaded[a] = bumped[a]
  BY <1>2 DEF Held
<1>4. \A d \in Collectors \ {c} :
        session[d].pc = "idle" /\ session'[d].pc = "idle" /\ Held(d)' = {} /\ Held(d) = {}
  BY <1>1, <1>2 DEF CleanInv, OneAtATime, IdleHoldsNothing, Held
<1>5. ASSUME NEW a \in Held(c)
      PROVE  /\ a \in Attachments /\ session[c].loaded[a] = row[a]
             /\ bumped[a] \in Row /\ bumped[a].status = row[a].status
             /\ bumped[a].attempts = row[a].attempts + 1
             /\ row'[a] = bumped[a]
  <2>1. a \in Attachments
    BY InvHasSessions DEF SessionsInv, IsSession, Held
  <2>2. session[c].loaded[a] = row[a]
    BY DEF CleanInv, HoldsTheRows
  <2>3. row[a] \in Row
    BY <1>1, <2>1, RowFacts
  <2>4. bumped[a] = [row[a] EXCEPT !.attempts = row[a].attempts + 1]
    BY <2>2, <2>3 DEF Row
  <2>5. row'[a] = [row[a] EXCEPT !.attempts = bumped[a].attempts]
    BY <2>1 DEF Bump, Held
  <2>6. QED
    BY <2>1, <2>2, <2>3, <2>4, <2>5 DEF Row
<1>6. \A a \in Attachments \ Held(c) : row'[a] = row[a]
  BY DEF Bump
<1> HIDE DEF bumped
<1>7. \A a \in Attachments : row'[a].status = row[a].status
  BY <1>5, <1>6
<1>8. Open' = Open /\ Open \subseteq Attachments
  BY <1>7 DEF Open
<1>9. \A a \in Attachments : row'[a].attempts = IF a \in Held(c) THEN row[a].attempts + 1
                                                             ELSE row[a].attempts
  BY <1>5, <1>6
<1>10. OneAtATime'
  BY <1>4 DEF OneAtATime
<1>11. HoldsTheRows'
  BY <1>3, <1>4, <1>5 DEF HoldsTheRows
<1>12. SelectedComeFirst'
  BY <1>3, <1>4 DEF SelectedComeFirst
<1>13. PendingIsUntried'
  <2>1. \A a \in Attachments : row[a].status = "pending" => row[a].attempts = 0
    <3>1. \A d \in Collectors : session[d].pc # "working"
      BY <1>1, <1>4
    <3>2. QED
      BY <3>1 DEF CleanInv, PendingIsUntried
  <2>2. QED
    BY <1>3, <1>7, <1>9, <2>1 DEF PendingIsUntried
<1>14. TriesAreFair'
  <2>1. ASSUME NEW a \in Open, NEW b \in Open, row[a].status # "pending"
        PROVE  row'[a].attempts <= row'[b].attempts + 1
    <3>1. row[a].attempts \in Nat /\ row[b].attempts \in Nat
          /\ row[a].attempts <= row[b].attempts + 1
      BY <1>1, <1>8, <2>1, RowFacts DEF CleanInv, TriesAreFair
    <3>2. CASE a \in Held(c) /\ b \notin Held(c)
      <4>1. Precedes(row, a, b)
        BY <1>1, <3>2 DEF CleanInv, SelectedComeFirst
      <4>2. Rank(row[a]) = 1 /\ Rank(row[b]) \in {0, 1}
        BY <2>1 DEF Rank
      <4>3. row[a].attempts <= row[b].attempts
        BY <3>1, <4>1, <4>2 DEF Precedes
      <4>4. QED
        BY <1>8, <1>9, <3>1, <3>2, <4>3
    <3>3. CASE ~(a \in Held(c) /\ b \notin Held(c))
      BY <1>8, <1>9, <3>1, <3>3
    <3>4. QED
      BY <3>2, <3>3
  <2>2. QED
    BY <1>7, <1>8, <2>1 DEF TriesAreFair
<1>15. QED
  BY <1>10, <1>11, <1>12, <1>13, <1>14 DEF CleanInv

LEMMA OutcomeIsClean ==
  ASSUME AttachmentInv, IdleHoldsNothing, CleanInv, NEW c \in Collectors,
         NEW a \in Attachments, IsNext(c, a), Drop(c, a),
         NEW status \in {"missing", "failed"} \cup Finished,
         row' = [row EXCEPT ![a] = Flushed(c, a, status)]
  PROVE  CleanInv'
<1> DEFINE rest == Held(c) \ {a}
<1>1. TypeOK /\ DOMAIN session = Collectors /\ session[c].pc = "working" /\ a \in Held(c)
  BY DEF AttachmentInv, TypeOK, IsNext
<1>2. /\ session'[c] = IF rest = {} THEN NoSession
                       ELSE [pc |-> "working", loaded |-> [b \in rest |-> session[c].loaded[b]]]
      /\ \A d \in Collectors \ {c} : session'[d] = session[d]
  BY <1>1 DEF Drop
<1>3. /\ Held(c)' = rest /\ \A b \in rest : session'[c].loaded[b] = session[c].loaded[b]
      /\ session'[c].pc = IF rest = {} THEN "idle" ELSE "working"
  BY <1>2 DEF Held, NoSession
<1>4. \A d \in Collectors \ {c} :
        session[d].pc = "idle" /\ session'[d].pc = "idle" /\ Held(d)' = {} /\ Held(d) = {}
  BY <1>1, <1>2 DEF CleanInv, OneAtATime, IdleHoldsNothing, Held
<1>5. row[a] \in Row /\ row \in [Attachments -> Row] /\ session[c].loaded[a] = row[a]
  BY <1>1 DEF TypeOK, CleanInv, HoldsTheRows
<1>6. row'[a] = [row[a] EXCEPT !.status = status]
  BY <1>5 DEF Flushed, Row
<1>7. row'[a].status = status /\ row'[a].attempts = row[a].attempts /\ status # "pending"
      /\ \A b \in Attachments \ {a} : row'[b] = row[b]
  BY <1>5, <1>6 DEF Row, Finished
<1> HIDE DEF rest
<1>8. rest \subseteq Attachments \ {a} /\ rest \subseteq Held(c)
  BY InvHasSessions DEF SessionsInv, IsSession, Held, rest
<1>9. OneAtATime'
  BY <1>4 DEF OneAtATime
<1>10. HoldsTheRows'
  BY <1>3, <1>4, <1>7, <1>8 DEF CleanInv, HoldsTheRows
<1>11. SelectedComeFirst'
  BY <1>3, <1>4 DEF SelectedComeFirst
<1>12. PendingIsUntried'
  <2>1. SUFFICES ASSUME NEW b \in Attachments, row'[b].status = "pending"
                 PROVE  \/ row'[b].attempts = 0
                        \/ /\ row'[b].attempts = 1
                           /\ session'[c].pc = "working" /\ b \in Held(c)'
    BY DEF PendingIsUntried
  <2>2. b # a /\ row'[b] = row[b]
    BY <1>7, <2>1
  <2>3. \/ row[b].attempts = 0
        \/ row[b].attempts = 1 /\ b \in Held(c)
    BY <1>4, <2>1, <2>2 DEF CleanInv, PendingIsUntried
  <2>4. QED
    BY <1>3, <2>2, <2>3 DEF rest
<1>13. TriesAreFair'
  <2>1. \A b \in Attachments : row'[b].attempts = row[b].attempts /\ row[b].attempts \in Nat
    BY <1>1, <1>7, RowFacts
  <2>2. a \in Open
    <3>1. session[c].loaded[a].status \in Retryable
      BY <1>1 DEF AttachmentInv, HoldsRetryable
    <3>2. QED
      BY <1>5, <3>1 DEF Open
  <2>3. Open' \subseteq Open /\ Open \subseteq Attachments
    BY <1>7, <2>2 DEF Open
  <2>4. ASSUME NEW x \in Open', NEW b \in Open', row'[x].status # "pending"
        PROVE  row[x].attempts <= row[b].attempts + 1
    <3>1. CASE row[x].status # "pending"
      BY <2>3, <3>1 DEF CleanInv, TriesAreFair
    <3>2. CASE row[x].status = "pending"
      <4>1. row[x].attempts = 0 \/ row[x].attempts = 1
        BY <2>3, <3>2 DEF CleanInv, PendingIsUntried
      <4>2. QED
        BY <2>1, <2>3, <4>1
    <3>3. QED
      BY <3>1, <3>2
  <2>5. QED
    BY <2>1, <2>3, <2>4 DEF TriesAreFair
<1>14. QED
  BY <1>9, <1>10, <1>11, <1>12, <1>13 DEF CleanInv

(* An idle collector holds nothing.                                        *)
LEMMA IdleStaysEmpty ==
  ASSUME AttachmentInv, IdleHoldsNothing, NEW c \in Collectors, CollectorStep(c)
  PROVE  IdleHoldsNothing'
<1>1. DOMAIN session = Collectors
  BY DEF AttachmentInv, TypeOK
<1>2. DOMAIN NoSession.loaded = {}
  BY DEF NoSession
<1>3. ASSUME NEW new, session' = [session EXCEPT ![c] = new],
             new.pc # "idle" \/ DOMAIN new.loaded = {}
      PROVE  IdleHoldsNothing'
  BY <1>1, <1>3 DEF IdleHoldsNothing, Held
<1>4. CASE Select(c)
  <2>1. PICK new : new = [pc |-> "selected", loaded |-> [a \in Selected |-> row[a]]]
    OBVIOUS
  <2>2. session' = [session EXCEPT ![c] = new] /\ new.pc # "idle"
    BY <1>4, <2>1 DEF Select
  <2>3. QED
    BY <2>2, <1>3
<1>5. CASE Bump(c)
  <2>1. PICK new : new =
          [pc |-> "working",
           loaded |-> [a \in DOMAIN session[c].loaded |->
                         [session[c].loaded[a] EXCEPT !.attempts = @ + 1]]]
    OBVIOUS
  <2>2. session' = [session EXCEPT ![c] = new] /\ new.pc # "idle"
    BY <1>5, <2>1 DEF Bump
  <2>3. QED
    BY <2>2, <1>3
<1>6. ASSUME NEW a \in Attachments, Drop(c, a) PROVE IdleHoldsNothing'
  <2> DEFINE rest == Held(c) \ {a}
  <2>1. PICK new : new =
          IF rest = {} THEN NoSession
          ELSE [pc |-> "working", loaded |-> [b \in rest |-> session[c].loaded[b]]]
    OBVIOUS
  <2>2. session' = [session EXCEPT ![c] = new]
    BY <1>6, <2>1 DEF Drop
  <2>3. new = NoSession \/ new.pc # "idle"
    BY <2>1
  <2>4. QED
    BY <2>2, <2>3, <1>2, <1>3
<1>7. CASE AbortCollection(c)
  BY <1>2, <1>3, <1>7 DEF AbortCollection
<1>8. QED
  BY <1>4, <1>5, <1>6, <1>7 DEF CollectorStep, FailAttachment, StoreParsed

LEMMA FairInit == Init => FairInv
<1> SUFFICES ASSUME Init PROVE FairInv
  OBVIOUS
<1>1. \A c \in Collectors : session[c].pc = "idle" /\ Held(c) = {}
  BY DEF Init, NoSession, Held
<1>2. \A a \in Attachments : row[a].status = "pending" /\ row[a].attempts = 0
  BY DEF Init
<1>3. IdleHoldsNothing /\ OneAtATime /\ HoldsTheRows /\ SelectedComeFirst
  BY <1>1 DEF IdleHoldsNothing, OneAtATime, HoldsTheRows, SelectedComeFirst
<1>4. PendingIsUntried /\ TriesAreFair
  BY <1>2 DEF PendingIsUntried, TriesAreFair, Open
<1>5. QED
  BY <1>3, <1>4 DEF FairInv, CleanInv

LEMMA FairNext ==
  ASSUME AttachmentInv, FairInv, [Next]_vars
  PROVE  FairInv'
<1>1. TypeOK /\ IdleHoldsNothing /\ (clean => CleanInv)
  BY DEF AttachmentInv, FairInv
<1>2. ASSUME NEW c \in Collectors, CollectorStep(c) PROVE FairInv'
  <2>1. IdleHoldsNothing'
    BY <1>1, <1>2, IdleStaysEmpty
  <2>2. ASSUME clean' PROVE CleanInv'
    <3>1. CASE Select(c)
      <4>1. clean /\ \A d \in Collectors : session[d].pc = "idle"
        BY <2>2, <3>1 DEF Select
      <4>2. QED
        BY <1>1, <3>1, <4>1, SelectIsClean
    <3>2. CASE Bump(c)
      BY <1>1, <2>2, <3>2, BumpIsClean DEF Bump
    <3>3. ASSUME NEW a \in Attachments, FailAttachment(c, a) PROVE CleanInv'
      <4>1. PICK status \in {"missing", "failed"} : StoreFailure(c, a, status)
        BY <3>3 DEF FailAttachment
      <4>2. clean /\ IsNext(c, a) /\ Drop(c, a)
            /\ row' = [row EXCEPT ![a] = Flushed(c, a, status)]
        BY <2>2, <3>3, <4>1 DEF FailAttachment, StoreFailure
      <4>3. QED
        BY <1>1, <4>2, OutcomeIsClean
    <3>4. ASSUME NEW a \in Attachments, StoreParsed(c, a) PROVE CleanInv'
      <4>1. PICK status \in Finished : row' = [row EXCEPT ![a] = Flushed(c, a, status)]
        BY <3>4 DEF StoreParsed, ParsedStatus, Finished
      <4>2. clean /\ IsNext(c, a) /\ Drop(c, a)
        BY <2>2, <3>4 DEF StoreParsed
      <4>3. QED
        BY <1>1, <4>1, <4>2, OutcomeIsClean
    <3>5. CASE AbortCollection(c)
      BY <2>2, <3>5 DEF AbortCollection
    <3>6. QED
      BY <1>2, <3>1, <3>2, <3>3, <3>4, <3>5 DEF CollectorStep
  <2>3. QED
    BY <2>1, <2>2 DEF FairInv
<1>3. CASE UNCHANGED <<row, session, clean>>
  <2>1. IdleHoldsNothing' /\ (CleanInv => CleanInv')
    BY <1>1, <1>3 DEF IdleHoldsNothing, CleanInv, OneAtATime, HoldsTheRows, SelectedComeFirst,
                      PendingIsUntried, TriesAreFair, Open, Held
  <2>2. QED
    BY <1>1, <1>3, <2>1 DEF FairInv
<1>4. CASE \E a \in Attachments : Assess(a)
  BY <1>3, <1>4 DEF Assess
<1>5. CASE UNCHANGED vars
  BY <1>3, <1>5 DEF vars
<1>6. QED
  BY <1>2, <1>4, <1>5 DEF Next

(* Collections that run one after the other and to their end starve nobody. *)
THEOREM RetriesStayFair == Spec => []RetriesAreFair
<1>1. AttachmentInv /\ FairInv /\ [Next]_vars => FairInv'
  BY FairNext
<1>2. FairInv => RetriesAreFair
  BY DEF FairInv, CleanInv, RetriesAreFair
<1>3. QED
  BY <1>1, <1>2, FairInit, AttachmentInvariant, PTL DEF Spec
-----------------------------------------------------------------------------
(***************************************************************************)
(* The download of one attachment: its types, its budgets and its          *)
(* responses, for any number of targets, redirects and bytes.              *)
(* DownloadInv is the inductive invariant.                                 *)
(***************************************************************************)

(* A target that was not requested before adds one to the requested ones.  *)
LEMMA NewTarget ==
  ASSUME IsFiniteSet(visited), url \notin visited
  PROVE  /\ IsFiniteSet(visited \cup {url})
         /\ Cardinality(visited \cup {url}) = Cardinality(visited) + 1
  BY FS_AddElement

LEMMA FetchInitInv == FetchInit => DownloadInv
<1> SUFFICES ASSUME FetchInit PROVE DownloadInv
  OBVIOUS
<1> USE DownloadAssumption DEF FetchInit
<1>1. Cardinality(visited) = 0 /\ IsFiniteSet(visited)
  BY FS_EmptySet
<1>2. FetchTypeOK
  BY <1>1 DEF FetchTypeOK, Outcomes
<1>3. BudgetsHold
  BY <1>1 DEF BudgetsHold
<1>4. ResponsesAreClosed
  BY DEF ResponsesAreClosed
<1>5. HopsAreCounted
  BY DEF HopsAreCounted
<1>6. QED
  BY <1>2, <1>3, <1>4, <1>5 DEF DownloadInv

(* What every step preserves, from the whole invariant.                    *)
LEMMA FetchStepInv == DownloadInv /\ [FetchNext]_fetchVars => DownloadInv'
<1> SUFFICES ASSUME DownloadInv, [FetchNext]_fetchVars PROVE DownloadInv'
  OBVIOUS
<1> USE DownloadAssumption
        DEF DownloadInv, FetchTypeOK, BudgetsHold, ResponsesAreClosed,
            HopsAreCounted, Raise, Unwind, Outcomes, Codes
<1>1. CASE Start
  BY <1>1 DEF Start
<1>2. CASE RefuseTarget
  BY <1>2 DEF RefuseTarget
<1>3. CASE AcceptTarget
  <2>1. CASE url \in visited
    BY <1>3, <2>1 DEF AcceptTarget
  <2>2. CASE url \notin visited
    <3>1. /\ IsFiniteSet(visited')
          /\ Cardinality(visited') = Cardinality(visited) + 1
      BY <1>3, <2>2, NewTarget DEF AcceptTarget
    <3>2. QED
      BY <1>3, <2>2, <3>1 DEF AcceptTarget
  <2>3. QED
    BY <2>1, <2>2
<1>4. CASE SendFails
  BY <1>4 DEF SendFails
<1>5. CASE AnswerRefused
  BY <1>5 DEF AnswerRefused
<1>6. CASE Redirect
  BY <1>6 DEF Redirect
<1>7. CASE AnswerAccepted
  BY <1>7 DEF AnswerAccepted
<1>8. CASE ReadChunk
  BY <1>8 DEF ReadChunk
<1>9. CASE EndOfBody
  BY <1>9 DEF EndOfBody
<1>10. CASE BodyBreaksOff
  BY <1>10 DEF BodyBreaksOff
<1>11. CASE Close
  BY <1>11 DEF Close
<1>12. CASE Deadline
  BY <1>12 DEF Deadline
<1>13. CASE LocationUnreadable
  BY <1>13 DEF LocationUnreadable
<1>14. CASE UNCHANGED fetchVars
  BY <1>14 DEF fetchVars
<1>15. QED
  BY <1>1, <1>2, <1>3, <1>4, <1>5, <1>6, <1>7, <1>8, <1>9, <1>10, <1>11,
     <1>12, <1>13, <1>14 DEF FetchNext

(***************************************************************************)
(* The inductive invariant of a fetch: types, budgets, responses, and the  *)
(* count of hops that ties requests to redirects.                          *)
(***************************************************************************)
THEOREM DownloadInvariant == FetchSpec => []DownloadInv
  BY FetchInitInv, FetchStepInv, PTL DEF FetchSpec

(* Type correctness of the downloader's state.                             *)
THEOREM FetchTypeCorrect == FetchSpec => []FetchTypeOK
<1>1. DownloadInv => FetchTypeOK
  BY DEF DownloadInv
<1>2. QED
  BY <1>1, DownloadInvariant, PTL

(* For any limits, no fetch exceeds its requests or its bytes.             *)
THEOREM FetchStaysInBudget == FetchSpec => []BudgetsHold
<1>1. DownloadInv => BudgetsHold
  BY DEF DownloadInv
<1>2. QED
  BY <1>1, DownloadInvariant, PTL

(* For any limits, a fetch that ended has closed every response.           *)
THEOREM NoResponseLeaks == FetchSpec => []ResponsesAreClosed
<1>1. DownloadInv => ResponsesAreClosed
  BY DEF DownloadInv
<1>2. QED
  BY <1>1, DownloadInvariant, PTL

-----------------------------------------------------------------------------
(* Which passages of a text become rules.                                  *)

LEMMA LeastNumber ==
  ASSUME NEW T, T \subseteq Nat, T # {}
  PROVE  \E m \in T : \A n \in T : m <= n
<1>1. PICK m \in T : \A n \in T : ~(<<n, m>> \in OpToRel(<, Nat))
  BY NatLessThanWellFounded, WFMin
<1>2. \A n \in T : ~(n < m)
  BY <1>1 DEF OpToRel
<1>3. \A n \in T : n \in Nat /\ m \in Nat
  OBVIOUS
<1>4. QED
  BY <1>2, <1>3

(***************************************************************************)
(* Candidates may be numbered in the order of preference, and whoever can  *)
(* be numbered so has something kept of it, and only in one way: up to a   *)
(* number, then up to the next one.                                        *)
(***************************************************************************)
IsRanked(S, rank, bound) ==
  /\ rank \in [S -> Nat] /\ bound \in Nat
  /\ \A a \in S : rank[a] < bound
  /\ \A a, b \in S : Preferred(a, b) <=> rank[a] < rank[b]

LEMMA GreedyExists ==
  ASSUME NEW S, NEW rank, NEW bound, IsRanked(S, rank, bound)
  PROVE  \E kept : IsGreedy(kept, S)
<1> DEFINE below(n) == {c \in S : rank[c] < n}
           bad == {n \in Nat : ~ \E kept : IsGreedy(kept, below(n))}
<1>1. \A c \in S : rank[c] \in Nat
  BY DEF IsRanked
<1>2. SUFFICES ASSUME bad # {} PROVE FALSE
  <2>1. bound \in Nat /\ below(bound) = S
    BY DEF IsRanked
  <2>2. \E kept : IsGreedy(kept, below(bound))
    BY <1>2, <2>1
  <2>3. QED
    BY <2>1, <2>2
<1>3. PICK n \in bad : \A m \in bad : n <= m
  <2>1. bad \subseteq Nat
    OBVIOUS
  <2> HIDE DEF bad
  <2>2. QED
    BY <1>2, <2>1, LeastNumber
<1>4. n \in Nat /\ n # 0
  <2>1. below(0) = {}
    BY <1>1
  <2>2. IsGreedy({}, below(0))
    BY <2>1 DEF IsGreedy
  <2>3. QED
    BY <2>2, <1>3
<1>5. PICK kept : IsGreedy(kept, below(n - 1))
  <2>1. n - 1 \in Nat /\ ~(n <= n - 1)
    BY <1>4
  <2>2. n - 1 \notin bad
    BY <1>3, <2>1
  <2>3. QED
    BY <2>1, <2>2
<1> DEFINE new == {c \in S : rank[c] = n - 1 /\
                     \A k \in kept : Preferred(k, c) => ~Overlaps(k, c)}
           more == kept \cup new
<1>6. \A a, b \in S : Preferred(a, b) <=> rank[a] < rank[b]
  BY DEF IsRanked
<1>7. /\ \A c \in S : c \in below(n) <=> c \in below(n - 1) \/ rank[c] = n - 1
      /\ \A c \in below(n - 1) : c \in S /\ rank[c] < n - 1
      /\ kept \subseteq below(n - 1) /\ below(n - 1) \subseteq S
  BY <1>1, <1>4, <1>5 DEF IsGreedy
<1>8. \A c \in below(n) : \A k \in new : ~Preferred(k, c)
  <2>1. SUFFICES ASSUME NEW c \in below(n), NEW k \in new PROVE ~Preferred(k, c)
    OBVIOUS
  <2>2. c \in S /\ k \in S /\ rank[c] < n /\ rank[k] = n - 1
    BY <2>1
  <2>3. QED
    BY <2>2, <1>1, <1>4, <1>6
<1>9. more \subseteq below(n)
  BY <1>7
<1>10. ASSUME NEW c \in below(n)
       PROVE  c \in more <=> \A k \in more : Preferred(k, c) => ~Overlaps(k, c)
  <2>1. (\A k \in more : Preferred(k, c) => ~Overlaps(k, c))
          <=> \A k \in kept : Preferred(k, c) => ~Overlaps(k, c)
    BY <1>8, <1>10
  <2>2. CASE c \in below(n - 1)
    <3>1. c \notin new
      BY <1>7, <2>2, <1>4
    <3>2. c \in kept <=> \A k \in kept : Preferred(k, c) => ~Overlaps(k, c)
      BY <1>5, <2>2 DEF IsGreedy
    <3>3. QED
      BY <2>1, <3>1, <3>2
  <2>3. CASE rank[c] = n - 1
    <3>1. c \notin kept
      BY <1>7, <2>3, <1>4
    <3>2. c \in new <=> \A k \in kept : Preferred(k, c) => ~Overlaps(k, c)
      BY <2>3, <1>10
    <3>3. QED
      BY <2>1, <3>1, <3>2
  <2>4. QED
    BY <1>7, <1>10, <2>2, <2>3
<1>11. IsGreedy(more, below(n))
  <2> HIDE DEF more, below
  <2>1. QED
    BY <1>9, <1>10 DEF IsGreedy
<1>12. QED
  BY <1>11, <1>3

LEMMA GreedyIsUnique ==
  ASSUME NEW S, NEW rank, NEW bound, IsRanked(S, rank, bound),
         NEW A, NEW B, IsGreedy(A, S), IsGreedy(B, S)
  PROVE  A = B
<1> DEFINE differ == {c \in S : (c \in A) # (c \in B)}
           ranks == {rank[c] : c \in differ}
<1>1. \A c \in S : rank[c] \in Nat
  BY DEF IsRanked
<1>2. A \subseteq S /\ B \subseteq S
  BY DEF IsGreedy
<1>3. SUFFICES ASSUME differ # {} PROVE FALSE
  BY <1>2
<1>4. ranks \subseteq Nat /\ ranks # {}
  BY <1>1, <1>3
<1>5. PICK m \in ranks : \A n \in ranks : m <= n
  <2> HIDE DEF ranks
  <2>1. QED
    BY <1>4, LeastNumber
<1>6. PICK c \in differ : rank[c] = m
  BY <1>5
<1>7. \A k \in S : Preferred(k, c) => (k \in A <=> k \in B)
  <2>1. SUFFICES ASSUME NEW k \in S, Preferred(k, c), k \in differ PROVE FALSE
    BY <1>6
  <2>2. rank[k] < rank[c]
    BY <2>1, <1>6 DEF IsRanked
  <2>3. rank[k] \in ranks
    BY <2>1
  <2>4. rank[k] \in Nat /\ rank[c] \in Nat /\ rank[c] <= rank[k]
    BY <1>1, <1>5, <1>6, <2>1, <2>3
  <2>5. QED
    BY <2>2, <2>4
<1>8. /\ c \in S
      /\ c \in A <=> \A k \in A : Preferred(k, c) => ~Overlaps(k, c)
      /\ c \in B <=> \A k \in B : Preferred(k, c) => ~Overlaps(k, c)
  BY <1>6 DEF IsGreedy
<1>9. (c \in A) = (c \in B)
  BY <1>2, <1>7, <1>8
<1>10. QED
  BY <1>6, <1>9

-----------------------------------------------------------------------------
(* Candidates of a text.                                                   *)

LEMMA AfterIsNext ==
  ASSUME NEW text, NEW i \in Nat, NEW words
  PROVE  After(text, i, words) \in {i, i + 1}
BY DEF After

LEMMA ExclusionIsNear ==
  ASSUME NEW text, NEW i \in Nat, NEW between
  PROVE  Exclusion(text, i, between) \in Nat /\ Exclusion(text, i, between) >= i
<1> DEFINE j == After(text, i, {"particle"})
<1>1. j \in Nat /\ j >= i
  BY AfterIsNext
<1>2. After(text, j, between) \in {j, j + 1}
  <2> HIDE DEF j
  <2>1. QED
    BY <1>1, AfterIsNext
<1>3. QED
  BY <1>1, <1>2 DEF Exclusion

(* A candidate is a passage of the text.                                   *)
LEMMA CandidatesAreInside ==
  ASSUME NEW text \in Seq(STRING), NEW c \in Candidates(text)
  PROVE  /\ c.first \in 1..Len(text) /\ c.last \in 1..Len(text)
         /\ c.first <= c.last
<1>1. DOMAIN text = 1..Len(text) /\ Len(text) \in Nat
  OBVIOUS
<1>2. CASE c \in BusinessAges(text)
  BY <1>1, <1>2 DEF BusinessAges, Match, Has
<1>3. CASE c \in RepresentativeAges(text)
  BY <1>1, <1>3 DEF RepresentativeAges, Match, Has
<1>4. CASE c \in RegionInclusions(text)
  BY <1>1, <1>4 DEF RegionInclusions, Match, Has
<1>5. CASE c \in RegionExclusions(text)
  <2>1. PICK i \in DOMAIN text :
          /\ Has(text, Exclusion(text, i + 2, Punctuation), {"exclude"})
          /\ c = Match("region", "not_in", i, Exclusion(text, i + 2, Punctuation))
    BY <1>5 DEF RegionExclusions
  <2>2. Exclusion(text, i + 2, Punctuation) >= i + 2
    BY <1>1, ExclusionIsNear
  <2>3. Exclusion(text, i + 2, Punctuation) \in DOMAIN text
    BY <2>1 DEF Has
  <2>4. c.first = i /\ c.last = Exclusion(text, i + 2, Punctuation)
    BY <2>1 DEF Match
  <2>5. QED
    BY <1>1, <2>2, <2>3, <2>4
<1>6. CASE c \in IndustryExclusions(text)
  <2>1. PICK i \in DOMAIN text :
          /\ Has(text, Exclusion(text, i + 1, {}), {"exclude"})
          /\ c = Match("industry", "not_in", i, Exclusion(text, i + 1, {}))
    BY <1>6 DEF IndustryExclusions
  <2>2. Exclusion(text, i + 1, {}) >= i + 1
    BY <1>1, ExclusionIsNear
  <2>3. Exclusion(text, i + 1, {}) \in DOMAIN text
    BY <2>1 DEF Has
  <2>4. c.first = i /\ c.last = Exclusion(text, i + 1, {})
    BY <2>1 DEF Match
  <2>5. QED
    BY <1>1, <2>2, <2>3, <2>4
<1>7. QED
  BY <1>2, <1>3, <1>4, <1>5, <1>6 DEF Candidates

(* Numbers written with two digits are ordered as the digits are.          *)
LEMMA Digits ==
  ASSUME NEW base \in Nat, NEW a \in Nat, NEW b \in Nat,
         NEW x \in 0..(base - 1), NEW y \in 0..(base - 1)
  PROVE  a * base + x < b * base + y <=> a < b \/ (a = b /\ x < y)
<1>1. ASSUME NEW m \in Nat, NEW n \in Nat, m < n
      PROVE  m * base + base <= n * base
  <2>1. PICK d \in Nat : n = m + 1 + d
    <3>1. n - m - 1 \in Nat /\ n = m + 1 + (n - m - 1)
      BY <1>1
    <3>2. QED
      BY <3>1
  <2>2. n * base = m * base + base + d * base
    BY <2>1
  <2>3. d * base \in Nat /\ m * base \in Nat
    OBVIOUS
  <2>4. QED
    BY <2>2, <2>3
<1>2. a * base \in Nat /\ b * base \in Nat
  OBVIOUS
<1>3. CASE a < b
  <2>1. a * base + base <= b * base
    BY <1>1, <1>3
  <2>2. QED
    BY <1>2, <1>3, <2>1
<1>4. CASE b < a
  <2>1. b * base + base <= a * base
    BY <1>1, <1>4
  <2>2. QED
    BY <1>2, <1>4, <2>1
<1>5. CASE a = b
  BY <1>2, <1>5
<1>6. QED
  BY <1>3, <1>4, <1>5

LEMMA CandidatesAreRanked ==
  ASSUME NEW text \in Seq(STRING)
  PROVE  \E rank, bound : IsRanked(Candidates(text), rank, bound)
<1> DEFINE S == Candidates(text)
           base == Len(text) + 1
           digit(c) == Len(text) - c.last
           rank == [c \in S |-> c.first * base + digit(c)]
<1>1. base \in Nat /\ Len(text) \in Nat
  OBVIOUS
<1>2. \A c \in S : /\ c.first \in Nat /\ c.last \in Nat /\ c.first < base
                  /\ digit(c) \in 0..(base - 1)
  BY <1>1, CandidatesAreInside
<1>3. \A c \in S : c.first * base \in Nat
  <2> SUFFICES ASSUME NEW c \in S PROVE c.first * base \in Nat
    OBVIOUS
  <2> HIDE DEF base, S
  <2>1. QED
    BY <1>1, <1>2
<1>4. rank \in [S -> Nat]
  <2>1. \A c \in S : c.first * base + digit(c) \in Nat
    <3> HIDE DEF base, S, digit
    <3>1. QED
      BY <1>1, <1>2, <1>3
  <2> HIDE DEF base, S, digit
  <2>2. QED
    BY <2>1
<1>5. \A a, b \in S : Preferred(a, b) <=> rank[a] < rank[b]
  <2> SUFFICES ASSUME NEW a \in S, NEW b \in S
               PROVE  Preferred(a, b) <=> rank[a] < rank[b]
    OBVIOUS
  <2>1. rank[a] < rank[b] <=>
          a.first < b.first \/ (a.first = b.first /\ digit(a) < digit(b))
    <3> HIDE DEF base, S, digit
    <3>1. /\ a.first \in Nat /\ b.first \in Nat
          /\ digit(a) \in 0..(base - 1) /\ digit(b) \in 0..(base - 1)
      BY <1>2
    <3>2. \A x, y \in 0..(base - 1) :
            a.first * base + x < b.first * base + y <=>
              a.first < b.first \/ (a.first = b.first /\ x < y)
      BY <1>1, <3>1, Digits
    <3>3. QED
      BY <3>1, <3>2
  <2>2. digit(a) < digit(b) <=> a.last > b.last
    BY <1>1, <1>2
  <2>3. QED
    BY <2>1, <2>2 DEF Preferred
<1>6. \A c \in S : rank[c] < base * base
  <2> SUFFICES ASSUME NEW c \in S PROVE rank[c] < base * base
    OBVIOUS
  <2>1. /\ c.first \in Nat /\ c.first < base
        /\ digit(c) \in 0..(base - 1) /\ 0 \in 0..(base - 1)
    BY <1>1, <1>2
  <2>2. c.first * base + digit(c) < base * base + 0
    <3> HIDE DEF base, S, digit
    <3>1. QED
      BY <1>1, <2>1, Digits
  <2>3. base * base \in Nat
    BY <1>1
  <2>4. rank[c] = c.first * base + digit(c)
    OBVIOUS
  <2> HIDE DEF base, S, digit, rank
  <2>5. QED
    BY <2>2, <2>3, <2>4
<1>7. base * base \in Nat
  BY <1>1
<1>8. IsRanked(S, rank, base * base)
  <2> HIDE DEF base, S, digit, rank
  <2>1. QED
    BY <1>4, <1>5, <1>6, <1>7 DEF IsRanked
<1>9. QED
  <2> HIDE DEF base, rank
  <2>1. QED
    BY <1>8

(* What _matches keeps is what the greedy pass keeps.                      *)
LEMMA ChosenIsGreedy ==
  ASSUME NEW text \in Seq(STRING)
  PROVE  IsGreedy(Chosen(text), Candidates(text))
<1>1. PICK kept : IsGreedy(kept, Candidates(text))
  BY CandidatesAreRanked, GreedyExists
<1>2. kept \in SUBSET Candidates(text)
  BY <1>1 DEF IsGreedy
<1>3. QED
  BY <1>1, <1>2 DEF Chosen

(***************************************************************************)
(* The order in which _matches sorts leaves no choice: of the candidates   *)
(* of a text exactly one set is kept.                                      *)
(***************************************************************************)
THEOREM ChoiceIsDetermined ==
  ASSUME NEW text \in Seq(STRING), NEW kept
  PROVE  IsGreedy(kept, Candidates(text)) <=> kept = Chosen(text)
<1>1. PICK rank, bound : IsRanked(Candidates(text), rank, bound)
  BY CandidatesAreRanked
<1>2. IsGreedy(Chosen(text), Candidates(text))
  BY ChosenIsGreedy
<1>3. IsGreedy(kept, Candidates(text)) => kept = Chosen(text)
  BY <1>1, <1>2, GreedyIsUnique
<1>4. QED
  BY <1>2, <1>3

-----------------------------------------------------------------------------
(* Refusals.                                                               *)

(***************************************************************************)
(* A refused requirement that is not one of the known misses is never      *)
(* alone: a longer exclusion begins at the same place.                     *)
(***************************************************************************)
LEMMA RefusedHasRival ==
  ASSUME NEW text \in Seq(STRING), NEW c \in Candidates(text),
         c.operator # "not_in", Refused(text, c), ~IsKnownMiss(text, c)
  PROVE  \E e \in Candidates(text) : e.first = c.first /\ e.last > c.last
<1>1. DOMAIN text = 1..Len(text) /\ Len(text) \in Nat
  OBVIOUS
<1> DEFINE unjoined(i) == ~Has(text, i, {"particle"})
<1>2. ASSUME NEW i \in Nat, c.last + 1 = i, unjoined(i) PROVE HasNegation(text, i)
  <2>1. After(text, i, {"particle"}) = i
    BY <1>2 DEF After
  <2>2. QED
    BY <1>2, <2>1 DEF Refused, HasNegation
<1>3. CASE c \in BusinessAges(text)
  <2>1. PICK i \in DOMAIN text :
          ~HasNegation(text, i + 2) /\ c = Match("business_age", "bound", i, i + 1)
    BY <1>3 DEF BusinessAges
  <2>2. c.kind = "business_age" /\ c.last + 1 = i + 2 /\ i + 2 \in Nat
    BY <1>1, <2>1 DEF Match
  <2>3. unjoined(i + 2)
    BY <2>2 DEF IsKnownMiss
  <2>4. QED
    BY <1>2, <2>1, <2>2, <2>3
<1>4. CASE c \in RepresentativeAges(text)
  <2>1. PICK i \in DOMAIN text :
          ~HasNegation(text, i + 1) /\ c = Match("representative_age", "bound", i, i)
    BY <1>4 DEF RepresentativeAges
  <2>2. c.kind = "representative_age" /\ c.last + 1 = i + 1 /\ i + 1 \in Nat
    BY <1>1, <2>1 DEF Match
  <2>3. unjoined(i + 1)
    BY <2>2 DEF IsKnownMiss
  <2>4. QED
    BY <1>2, <2>1, <2>2, <2>3
<1>5. CASE c \in RegionInclusions(text)
  <2>1. PICK i \in DOMAIN text :
          /\ Has(text, i, {"region"}) /\ Has(text, i + 1, {"located"})
          /\ c = Match("region", "in", i, i + 1)
    BY <1>5 DEF RegionInclusions
  <2> DEFINE last == Exclusion(text, i + 2, Punctuation)
             e == Match("region", "not_in", i, last)
  <2>2. c.kind = "region" /\ c.first = i /\ c.last = i + 1 /\ c.last + 1 = i + 2
    BY <1>1, <2>1 DEF Match
  <2>3. Has(text, last, {"exclude"})
    BY <2>2 DEF IsKnownMiss
  <2>4. e \in RegionExclusions(text)
    BY <2>1, <2>3 DEF RegionExclusions
  <2>5. last >= i + 2 /\ last \in Nat
    BY <1>1, ExclusionIsNear
  <2>6. e.first = i /\ e.last = last
    BY DEF Match
  <2>7. e.last > c.last
    BY <1>1, <2>2, <2>5, <2>6
  <2>8. QED
    BY <2>2, <2>4, <2>6, <2>7 DEF Candidates
<1>6. c \notin RegionExclusions(text) /\ c \notin IndustryExclusions(text)
  BY DEF RegionExclusions, IndustryExclusions, Match
<1>7. QED
  BY <1>3, <1>4, <1>5, <1>6 DEF Candidates

(***************************************************************************)
(* For every text: a requirement that is kept of a refused passage is one  *)
(* of the known misses.  If the longer exclusion is kept, it overlaps; if  *)
(* it is not, then what it overlaps begins no later, and so overlaps the   *)
(* requirement as well.                                                    *)
(***************************************************************************)
THEOREM RefusalsReachRules ==
  ASSUME NEW text \in Seq(STRING), NEW c \in Chosen(text),
         c.operator # "not_in", Refused(text, c)
  PROVE  IsKnownMiss(text, c)
<1>1. IsGreedy(Chosen(text), Candidates(text)) /\ c \in Candidates(text)
  BY ChosenIsGreedy DEF IsGreedy
<1>2. SUFFICES ASSUME ~IsKnownMiss(text, c) PROVE FALSE
  OBVIOUS
<1>3. PICK e \in Candidates(text) : e.first = c.first /\ e.last > c.last
  BY <1>1, <1>2, RefusedHasRival
<1>4. \A x \in Candidates(text) :
        x.first \in Nat /\ x.last \in Nat /\ x.first <= x.last
  BY CandidatesAreInside
<1>5. \A k \in Chosen(text) : Preferred(k, c) => ~Overlaps(k, c)
  BY <1>1 DEF IsGreedy
<1>6. CASE e \in Chosen(text)
  <2>1. Preferred(e, c)
    BY <1>3 DEF Preferred
  <2>2. Overlaps(e, c)
    BY <1>1, <1>3, <1>4 DEF Overlaps
  <2>3. QED
    BY <1>5, <1>6, <2>1, <2>2
<1>7. CASE e \notin Chosen(text)
  <2>1. PICK k \in Chosen(text) : Preferred(k, e) /\ Overlaps(k, e)
    BY <1>1, <1>7 DEF IsGreedy
  <2>2. k \in Candidates(text)
    BY <1>1 DEF IsGreedy
  <2>3. Preferred(k, c)
    BY <1>1, <1>3, <1>4, <2>1, <2>2 DEF Preferred
  <2>4. Overlaps(k, c)
    BY <1>1, <1>3, <1>4, <2>1, <2>2 DEF Preferred, Overlaps
  <2>5. QED
    BY <1>5, <2>3, <2>4
<1>8. QED
  BY <1>6, <1>7

-----------------------------------------------------------------------------
(* Pages of PDF files.                                                     *)

LEMMA CharsOfNothing ==
  ASSUME NEW blocks, Len(blocks) = 0
  PROVE  Chars(blocks) = 0
<1> DEFINE step(f) == [i \in 0..Len(blocks) |->
                         IF i = 0 THEN 0 ELSE f[i - 1] + Len(blocks[i].text)]
           zero == [i \in 0..0 |-> 0]
           upTo == CHOOSE f : f = step(f)
<1>1. zero = step(zero)
  BY 0..0 = {0}
<1>2. upTo = step(upTo)
  <2> HIDE DEF zero, step
  <2>1. QED
    BY <1>1
<1>3. upTo[0] = 0
  <2>1. 0 \in 0..Len(blocks)
    OBVIOUS
  <2>2. step(upTo)[0] = 0
    <3> HIDE DEF upTo
    <3>1. QED
      BY <2>1
  <2> HIDE DEF step, upTo
  <2>3. QED
    BY <1>2, <2>2
<1>4. Chars(blocks) = upTo[Len(blocks)]
  BY DEF Chars
<1>5. QED
  <2> HIDE DEF upTo
  <2>1. QED
    BY <1>3, <1>4

LEMMA KindOfPage ==
  ASSUME NEW page, NEW provider
  PROVE  Kind(page, provider) \in {"ocr", "text"}
BY DEF Kind

LEMMA PageBlocksAreOnPage ==
  ASSUME NEW page, NEW n, NEW provider, NEW id \in PageBlocks(page, n, provider)
  PROVE  /\ id[1] = n /\ id[2] \in {"ocr", "text", "cell"}
         /\ id[3] \in DOMAIN OnPage(page)[id[2]]
<1>1. CASE id \in {n} \X {Kind(page, provider)} \X DOMAIN OnPage(page)[Kind(page, provider)]
  BY <1>1, KindOfPage
<1>2. CASE id \in {n} \X {"cell"} \X OwnCells(page)
  <2>1. OwnCells(page) \subseteq DOMAIN OnPage(page).cell
    BY DEF OwnCells, OnPage
  <2>2. QED
    BY <1>2, <2>1
<1>3. QED
  BY <1>1, <1>2 DEF PageBlocks

LEMMA TextsOfSequence ==
  ASSUME NEW L, NEW s \in Seq(L), NEW i \in DOMAIN s
  PROVE  s[i] \in L
OBVIOUS

LEMMA TextsOnPage ==
  ASSUME NEW page \in PdfPage, NEW kind \in {"ocr", "text", "cell"},
         NEW i \in DOMAIN OnPage(page)[kind]
  PROVE  OnPage(page)[kind][i].text \in Texts
<1>1. CASE kind = "ocr"
  <2>1. /\ page.ocr.blocks \in Seq([text : Texts, valid : BOOLEAN])
        /\ OnPage(page)[kind] = page.ocr.blocks
    BY <1>1 DEF OnPage, PdfPage
  <2>2. page.ocr.blocks[i] \in [text : Texts, valid : BOOLEAN]
    BY <2>1, TextsOfSequence, Zenon
  <2>3. QED
    BY <2>1, <2>2
<1>2. CASE kind = "text"
  <2>1. page.native \in Seq([text : Texts]) /\ OnPage(page)[kind] = page.native
    BY <1>2 DEF OnPage, PdfPage
  <2>2. page.native[i] \in [text : Texts]
    BY <2>1, TextsOfSequence, Zenon
  <2>3. QED
    BY <2>1, <2>2
<1>3. CASE kind = "cell"
  <2>1. /\ page.cells \in Seq([text : Texts, native : BOOLEAN])
        /\ OnPage(page)[kind] = page.cells
    BY <1>3 DEF OnPage, PdfPage
  <2>2. page.cells[i] \in [text : Texts, native : BOOLEAN]
    BY <2>1, TextsOfSequence, Zenon
  <2>3. QED
    BY <2>1, <2>2
<1>4. QED
  BY <1>1, <1>2, <1>3

(* A page without a block has a warning of its own.                        *)
LEMMA UnreadPageWarns ==
  ASSUME NEW page \in PdfPage, NEW n, NEW provider,
         PageBlocks(page, n, provider) = {}
  PROVE  PageWarning(page, provider) # "none"
<1>1. DOMAIN OnPage(page)[Kind(page, provider)] = {}
  <2>1. SUFFICES ASSUME NEW i \in DOMAIN OnPage(page)[Kind(page, provider)]
                 PROVE  FALSE
    OBVIOUS
  <2>2. <<n, Kind(page, provider), i>> \in PageBlocks(page, n, provider)
    BY <2>1 DEF PageBlocks
  <2>3. QED
    BY <2>2
<1>2. CASE Kind(page, provider) = "ocr"
  <2>1. DOMAIN page.ocr.blocks = {}
    BY <1>1, <1>2 DEF OnPage
  <2>2. IsDeficient(page) /\ PageWarning(page, provider) = "none"
    BY <1>2 DEF Kind
  <2>3. OcrWarning(page, provider) = "none"
    BY <2>2 DEF PageWarning
  <2>4. IsEvidence(page.ocr)
    BY <2>3 DEF OcrWarning
  <2>5. page.ocr.blocks \in Seq([text : Texts, valid : BOOLEAN])
    BY DEF PdfPage
  <2>6. page.ocr.blocks = <<>>
    BY <2>1, <2>5
  <2>7. QED
    BY <2>4, <2>6 DEF IsEvidence
<1>3. CASE Kind(page, provider) = "text"
  <2>1. DOMAIN page.native = {} /\ page.native \in Seq([text : Texts])
    BY <1>1, <1>3 DEF OnPage, PdfPage
  <2>2. Len(page.native) = 0
    <3> DEFINE L == [text : Texts]
               native == page.native
    <3>1. native \in Seq(L) /\ DOMAIN native = {}
      BY <2>1
    <3> HIDE DEF L, native
    <3>2. DOMAIN native = 1..Len(native) /\ Len(native) \in Nat
      BY <3>1
    <3>3. Len(native) # 0 => 1 \in 1..Len(native)
      BY <3>2
    <3>4. Len(native) = 0
      BY <3>1, <3>2, <3>3
    <3>5. QED
      BY <3>4 DEF native
  <2>3. IsDeficient(page)
    BY <2>2, CharsOfNothing, PdfAssumption DEF IsDeficient
  <2>4. QED
    BY <1>3, <2>3 DEF Kind
<1>4. QED
  BY <1>2, <1>3, KindOfPage

(* The first warning of a file is a warning of one of its pages.           *)
LEMMA FirstWarningIsOne ==
  ASSUME NEW pages \in Seq(PdfPage), NEW provider, NEW n \in DOMAIN pages,
         PageWarning(pages[n], provider) # "none"
  PROVE  /\ FirstWarning(pages, provider) # "none"
         /\ \E m \in DOMAIN pages :
              FirstWarning(pages, provider) = PageWarning(pages[m], provider)
<1> DEFINE warned == {m \in DOMAIN pages : PageWarning(pages[m], provider) # "none"}
           first == CHOOSE m \in warned : \A k \in warned : m <= k
<1>1. warned # {} /\ warned \subseteq Nat
  OBVIOUS
<1>2. \E m \in warned : \A k \in warned : m <= k
  <2> HIDE DEF warned
  <2>1. QED
    BY <1>1, LeastNumber
<1>3. first \in warned
  <2> HIDE DEF warned
  <2>1. QED
    BY <1>2
<1>4. FirstWarning(pages, provider) = PageWarning(pages[first], provider)
  BY <1>1 DEF FirstWarning
<1>5. QED
  <2> HIDE DEF first
  <2>1. QED
    BY <1>3, <1>4

-----------------------------------------------------------------------------
(* Elements of HWPX documents.                                             *)

LEMMA ElementsAreNumbered ==
  ASSUME NEW xml \in Seq(Element)
  PROVE  /\ Len(xml) \in Nat /\ DOMAIN xml = 1..Len(xml)
         /\ DOMAIN xml \subseteq Nat
         /\ \A n \in DOMAIN xml : xml[n] \in Element
OBVIOUS

(* What the tree of a section says of two elements on one path.            *)
LEMMA Paths ==
  ASSUME NEW xml \in Seq(Element), IsTree(xml), NEW n \in DOMAIN xml,
         NEW m \in xml[n].above
  PROVE  /\ m \in DOMAIN xml /\ m < n /\ m \in Nat /\ n \in Nat
         /\ xml[m].tag # "t"
         /\ xml[m].above \subseteq xml[n].above
         /\ \A k \in xml[n].above : k < m => k \in xml[m].above
         /\ \A k \in xml[m].above : k < m
<1>1. DOMAIN xml = 1..Len(xml) /\ Len(xml) \in Nat
  BY ElementsAreNumbered
<1>2. xml[n].above \subseteq 1..(n - 1)
  BY DEF IsTree
<1>3. m \in DOMAIN xml /\ m < n /\ m \in Nat /\ n \in Nat
  BY <1>1, <1>2
<1>4. xml[m].tag # "t" /\ xml[m].above = {k \in xml[n].above : k < m}
  BY DEF IsTree
<1>5. QED
  BY <1>3, <1>4

LEMMA ReachedIsBelow ==
  ASSUME NEW xml, NEW e, NEW stops, NEW n \in Reached(xml, e, stops)
  PROVE  /\ n \in DOMAIN xml /\ e \in xml[n].above
         /\ \A k \in xml[n].above : k > e => xml[k].tag \notin stops
BY DEF Reached

(***************************************************************************)
(* The texts that belong to a paragraph are those the parser joins.        *)
(***************************************************************************)
LEMMA HomeIsLeast ==
  ASSUME NEW xml \in Seq(Element), IsTree(xml), NEW t \in Readable(xml)
  PROVE  /\ Home(xml, t) \in Holders(xml, t)
         /\ \A j \in Holders(xml, t) : Home(xml, t) <= j
         /\ t \in DOMAIN xml /\ Home(xml, t) \in xml[t].above
<1>1. t \in DOMAIN xml /\ Holders(xml, t) # {}
  BY DEF Readable, Tagged
<1>2. Holders(xml, t) \subseteq xml[t].above
  BY DEF Holders
<1>3. xml[t].above \subseteq Nat
  BY <1>1, Paths
<1>4. \E k \in Holders(xml, t) : \A j \in Holders(xml, t) : k <= j
  BY <1>1, <1>2, <1>3, LeastNumber
<1>5. /\ Home(xml, t) \in Holders(xml, t)
      /\ \A j \in Holders(xml, t) : Home(xml, t) <= j
  BY <1>4 DEF Home
<1>6. QED
  BY <1>1, <1>2, <1>5

(* The least of the holders is a home.                                     *)
LEMMA LeastIsHome ==
  ASSUME NEW xml \in Seq(Element), IsTree(xml), NEW t \in Tagged(xml, "t"),
         NEW n \in Holders(xml, t), \A j \in Holders(xml, t) : n <= j
  PROVE  t \in Readable(xml) /\ Home(xml, t) = n
<1>1. t \in Readable(xml)
  BY DEF Readable
<1>2. /\ Home(xml, t) \in Holders(xml, t) /\ Home(xml, t) <= n /\ n <= Home(xml, t)
      /\ t \in DOMAIN xml
  BY <1>1, HomeIsLeast
<1>3. Holders(xml, t) \subseteq xml[t].above
  BY DEF Holders
<1>4. n \in Nat /\ Home(xml, t) \in Nat
  BY <1>2, <1>3, Paths
<1>5. QED
  BY <1>1, <1>2, <1>4

LEMMA TextsOfParagraph ==
  ASSUME NEW xml \in Seq(Element), IsTree(xml), NEW n \in Paragraphs(xml),
         NEW t \in Tagged(xml, "t")
  PROVE  t \in Reached(xml, n, {"tbl"}) <=> t \in Readable(xml) /\ Home(xml, t) = n
<1>0. /\ n \in DOMAIN xml /\ xml[n].tag = "p" /\ t \in DOMAIN xml
      /\ \A k \in xml[n].above : xml[k].tag \notin {"p", "tbl"}
  BY DEF Paragraphs, Tagged
<1>1. ASSUME t \in Reached(xml, n, {"tbl"})
      PROVE  t \in Readable(xml) /\ Home(xml, t) = n
  <2>1. n \in xml[t].above /\ \A k \in xml[t].above : k > n => xml[k].tag # "tbl"
    BY <1>1, ReachedIsBelow
  <2>2. \A k \in xml[t].above : k \in Nat /\ n \in Nat /\ (k < n => k \in xml[n].above)
    BY <1>0, <2>1, Paths
  <2>3. \A k \in xml[t].above : xml[k].tag # "tbl"
    <3>1. SUFFICES ASSUME NEW k \in xml[t].above PROVE xml[k].tag # "tbl"
      OBVIOUS
    <3>2. k < n \/ k = n \/ k > n
      BY <2>2
    <3>3. QED
      BY <1>0, <2>1, <2>2, <3>2
  <2>4. TablesAbove(xml, t) = {}
    BY <2>3 DEF TablesAbove
  <2>5. n \in Holders(xml, t)
    BY <1>0, <2>1, <2>4 DEF Holders
  <2>6. \A j \in Holders(xml, t) : n <= j
    <3>1. SUFFICES ASSUME NEW j \in Holders(xml, t), j < n PROVE FALSE
      BY <2>2 DEF Holders
    <3>2. j \in xml[t].above /\ xml[j].tag = "p"
      BY <2>4 DEF Holders
    <3>3. QED
      BY <1>0, <2>2, <3>1, <3>2
  <2>7. QED
    BY <2>5, <2>6, LeastIsHome
<1>2. ASSUME t \in Readable(xml), Home(xml, t) = n
      PROVE  t \in Reached(xml, n, {"tbl"})
  <2>1. n \in Holders(xml, t) /\ n \in xml[t].above
    BY <1>2, HomeIsLeast
  <2>2. TablesAbove(xml, t) = {}
    BY <1>0, <2>1 DEF Holders
  <2>3. QED
    BY <1>0, <2>1, <2>2 DEF TablesAbove, Reached
<1>3. QED
  BY <1>1, <1>2

LEMMA TextsOfCell ==
  ASSUME NEW xml \in Seq(Element), IsTree(xml), NEW table \in Tables(xml),
         NEW n \in Cells(xml, table), NEW t \in Tagged(xml, "t")
  PROVE  t \in Reached(xml, n, {"tbl"}) <=> t \in Readable(xml) /\ Home(xml, t) = n
<1>0. /\ n \in DOMAIN xml /\ xml[n].tag = "tc" /\ t \in DOMAIN xml
      /\ table \in xml[n].above /\ table \in DOMAIN xml /\ xml[table].tag = "tbl"
      /\ \A k \in xml[n].above : k > table => xml[k].tag \notin {"tbl", "tc"}
      /\ \A k \in xml[table].above : xml[k].tag # "tbl"
  BY DEF Cells, Reached, Tables, Tagged
<1>1. /\ table < n /\ table \in Nat /\ n \in Nat
      /\ \A k \in xml[n].above : k < table => k \in xml[table].above
  BY <1>0, Paths
<1>2. ASSUME t \in Reached(xml, n, {"tbl"})
      PROVE  t \in Readable(xml) /\ Home(xml, t) = n
  <2>1. n \in xml[t].above /\ \A k \in xml[t].above : k > n => xml[k].tag # "tbl"
    BY <1>2, ReachedIsBelow
  <2>2. /\ \A k \in xml[t].above : k \in Nat /\ (k < n => k \in xml[n].above)
        /\ table \in xml[t].above
    BY <1>0, <1>1, <2>1, Paths
  <2>3. \A k \in xml[t].above : xml[k].tag = "tbl" => k = table
    <3>1. SUFFICES ASSUME NEW k \in xml[t].above, xml[k].tag = "tbl", k # table
                   PROVE  FALSE
      OBVIOUS
    <3>2. k < table \/ (k > table /\ k < n) \/ k = n \/ k > n
      BY <1>1, <2>2, <3>1
    <3>3. k < table => k < n
      BY <1>1, <2>2
    <3>4. QED
      BY <1>0, <1>1, <2>1, <2>2, <3>1, <3>2, <3>3
  <2>4. TablesAbove(xml, t) = {table}
    BY <1>0, <2>2, <2>3 DEF TablesAbove
  <2>5. n \in Holders(xml, t)
    BY <1>0, <1>1, <2>1, <2>4 DEF Holders, Tagged
  <2>6. \A j \in Holders(xml, t) : n <= j
    <3>1. SUFFICES ASSUME NEW j \in Holders(xml, t), j < n PROVE FALSE
      BY <1>1, <2>2 DEF Holders
    <3>2. j \in xml[t].above /\ xml[j].tag = "tc" /\ j > table
      BY <2>4 DEF Holders
    <3>3. QED
      BY <1>0, <2>2, <3>1, <3>2
  <2>7. QED
    BY <2>5, <2>6, LeastIsHome
<1>3. ASSUME t \in Readable(xml), Home(xml, t) = n
      PROVE  t \in Reached(xml, n, {"tbl"})
  <2>1. n \in Holders(xml, t) /\ n \in xml[t].above
    BY <1>3, HomeIsLeast
  <2>2. PICK u \in Tagged(xml, "tbl") : TablesAbove(xml, t) = {u} /\ n > u
    BY <1>0, <2>1 DEF Holders
  <2>3. \A k \in xml[t].above : k \in Nat
    BY <1>0, Paths
  <2>4. \A k \in xml[t].above : k > n => xml[k].tag # "tbl"
    <3>1. SUFFICES ASSUME NEW k \in xml[t].above, k > n, xml[k].tag = "tbl"
                   PROVE  FALSE
      OBVIOUS
    <3>2. k = u
      BY <2>2, <3>1 DEF TablesAbove
    <3>3. QED
      BY <1>1, <2>2, <2>3, <3>1, <3>2
  <2>5. QED
    BY <1>0, <2>1, <2>4 DEF Reached
<1>4. QED
  BY <1>2, <1>3

(* A text is at home where the walk finds its paragraph or its cell.       *)
LEMMA HomesAreUnits ==
  ASSUME NEW xml \in Seq(Element), IsTree(xml), NEW t \in Readable(xml)
  PROVE  \/ Home(xml, t) \in Paragraphs(xml)
         \/ \E table \in Tables(xml) : Home(xml, t) \in Cells(xml, table)
<1> DEFINE h == Home(xml, t)
<1>1. /\ h \in Holders(xml, t) /\ t \in DOMAIN xml /\ h \in xml[t].above
      /\ \A j \in Holders(xml, t) : h <= j
  BY HomeIsLeast
<1>2. /\ h \in DOMAIN xml /\ h \in Nat /\ xml[h].above \subseteq xml[t].above
      /\ \A k \in xml[h].above : k < h /\ k \in Nat
      /\ \A k \in xml[t].above : k < h => k \in xml[h].above
  <2>1. /\ h \in DOMAIN xml /\ h \in Nat /\ xml[h].above \subseteq xml[t].above
        /\ \A k \in xml[h].above : k < h
        /\ \A k \in xml[t].above : k < h => k \in xml[h].above
    BY <1>1, Paths
  <2>2. \A k \in xml[t].above : k \in Nat
    BY <1>1, Paths
  <2>3. QED
    BY <2>1, <2>2
<1>3. \A k \in xml[h].above : k \notin Holders(xml, t)
  <2>1. \A k \in xml[h].above : k < h /\ k \in Nat /\ h \in Nat
    BY <1>2
  <2>2. \A k \in xml[h].above : ~(h <= k)
    BY <2>1
  <2>3. QED
    BY <1>1, <2>2
<1> HIDE DEF h
<1>4. CASE TablesAbove(xml, t) = {}
  <2>1. xml[h].tag = "p"
    BY <1>1, <1>4 DEF Holders
  <2>2. \A k \in xml[h].above : xml[k].tag \notin {"p", "tbl"}
    BY <1>2, <1>3, <1>4 DEF Holders, TablesAbove
  <2>3. QED
    BY <1>2, <2>1, <2>2 DEF Paragraphs, Tagged, h
<1>5. CASE TablesAbove(xml, t) # {}
  <2>1. PICK u \in Tagged(xml, "tbl") :
          TablesAbove(xml, t) = {u} /\ xml[h].tag = "tc" /\ h > u
    BY <1>1, <1>5 DEF Holders
  <2>2. u \in xml[t].above /\ u \in DOMAIN xml /\ xml[u].tag = "tbl" /\ u \in Nat
    BY <1>1, <2>1, Paths DEF TablesAbove, Tagged
  <2>3. u \in xml[h].above
    <3>1. u < h
      BY <1>2, <2>1, <2>2
    <3>2. QED
      BY <1>2, <2>2, <3>1
  <2>4. \A k \in xml[h].above : k > u => xml[k].tag \notin {"tbl", "tc"}
    <3>1. SUFFICES ASSUME NEW k \in xml[h].above, k > u, xml[k].tag \in {"tbl", "tc"}
                   PROVE  FALSE
      OBVIOUS
    <3>2. k \in xml[t].above /\ k # u
      BY <1>2, <2>2, <3>1
    <3>3. CASE xml[k].tag = "tbl"
      BY <2>1, <3>2, <3>3 DEF TablesAbove
    <3>4. CASE xml[k].tag = "tc"
      BY <1>3, <2>1, <3>1, <3>2, <3>4 DEF Holders
    <3>5. QED
      BY <3>1, <3>3, <3>4
  <2>5. \A k \in xml[u].above : xml[k].tag # "tbl"
    <3>1. SUFFICES ASSUME NEW k \in xml[u].above, xml[k].tag = "tbl" PROVE FALSE
      OBVIOUS
    <3>2. k \in xml[t].above /\ k < u
      BY <1>1, <2>2, <3>1, Paths
    <3>3. k = u
      BY <2>1, <3>1, <3>2 DEF TablesAbove
    <3>4. QED
      BY <2>2, <3>2, <3>3
  <2>6. u \in Tables(xml) /\ h \in Cells(xml, u)
    BY <1>2, <2>1, <2>2, <2>3, <2>4, <2>5 DEF Tables, Cells, Tagged, Reached
  <2>7. QED
    BY <2>6 DEF h
<1>6. QED
  BY <1>4, <1>5

(***************************************************************************)
(* Joined texts.                                                           *)
(***************************************************************************)
Piece(xml, S, n) == IF n \in S THEN xml[n].text ELSE <<>>

IsJoinUpTo(xml, S, m, f) ==
  /\ f \in [0..m -> Seq(STRING)] /\ f[0] = <<>>
  /\ \A n \in 1..m : f[n] = f[n - 1] \o Piece(xml, S, n)

LEMMA PieceIsText ==
  ASSUME NEW xml \in Seq(Element), NEW S, NEW n \in 1..Len(xml)
  PROVE  Piece(xml, S, n) \in Seq(STRING)
<1>1. xml[n] \in Element
  BY ElementsAreNumbered
<1>2. xml[n].text \in Seq(STRING)
  BY <1>1 DEF Element
<1>3. CASE n \in S
  BY <1>2, <1>3 DEF Piece
<1>4. CASE n \notin S
  <2>1. Piece(xml, S, n) = <<>>
    BY <1>4 DEF Piece
  <2>2. QED
    BY <2>1
<1>5. QED
  BY <1>3, <1>4

LEMMA JoinsExist ==
  ASSUME NEW xml \in Seq(Element), NEW S, NEW m \in 0..Len(xml)
  PROVE  \E f : IsJoinUpTo(xml, S, m, f)
<1> DEFINE T == {k \in 0..Len(xml) : ~ \E f : IsJoinUpTo(xml, S, k, f)}
<1>0. Len(xml) \in Nat
  OBVIOUS
<1>1. SUFFICES ASSUME T # {} PROVE FALSE
  OBVIOUS
<1>2. PICK k \in T : \A j \in T : k <= j
  <2>1. T \subseteq Nat
    BY <1>0
  <2> HIDE DEF T
  <2>2. QED
    BY <1>1, <2>1, LeastNumber
<1>3. k # 0
  <2>1. IsJoinUpTo(xml, S, 0, [i \in 0..0 |-> <<>>])
    BY DEF IsJoinUpTo
  <2>2. QED
    BY <2>1
<1>4. k - 1 \in 0..Len(xml) /\ k \in 1..Len(xml) /\ k - 1 \notin T
  BY <1>0, <1>2, <1>3
<1>5. PICK f : IsJoinUpTo(xml, S, k - 1, f)
  BY <1>4
<1> DEFINE g == [i \in 0..k |-> IF i = k THEN f[k - 1] \o Piece(xml, S, k) ELSE f[i]]
<1>6. f[k - 1] \in Seq(STRING) /\ f[0] = <<>>
      /\ \A i \in 0..(k - 1) : f[i] \in Seq(STRING)
  BY <1>4, <1>5 DEF IsJoinUpTo
<1>7. f[k - 1] \o Piece(xml, S, k) \in Seq(STRING)
  BY <1>4, <1>6, PieceIsText
<1>8. g \in [0..k -> Seq(STRING)]
  <2>1. \A i \in 0..k : i # k => i \in 0..(k - 1)
    BY <1>4
  <2>2. QED
    BY <1>6, <1>7, <2>1
<1>9. g[0] = <<>>
  BY <1>3, <1>4, <1>6
<1>10. \A n \in 1..k : g[n] = g[n - 1] \o Piece(xml, S, n)
  <2>1. SUFFICES ASSUME NEW n \in 1..k
                 PROVE  g[n] = g[n - 1] \o Piece(xml, S, n)
    OBVIOUS
  <2>2. n - 1 \in 0..k /\ n \in 0..k /\ n - 1 # k /\ g[n - 1] = f[n - 1]
    BY <1>4
  <2>3. CASE n = k
    BY <2>2, <2>3
  <2>4. CASE n # k
    <3>1. n \in 1..(k - 1)
      BY <1>4, <2>4
    <3>2. f[n] = f[n - 1] \o Piece(xml, S, n)
      BY <1>5, <3>1 DEF IsJoinUpTo
    <3>3. QED
      BY <2>2, <2>4, <3>2
  <2>5. QED
    BY <2>3, <2>4
<1>11. IsJoinUpTo(xml, S, k, g)
  <2> HIDE DEF g
  <2>1. QED
    BY <1>8, <1>9, <1>10 DEF IsJoinUpTo
<1>12. QED
  BY <1>2, <1>11

LEMMA WordsAreJoined ==
  ASSUME NEW xml \in Seq(Element), NEW S
  PROVE  \E f : IsJoinUpTo(xml, S, Len(xml), f) /\ Words(xml, S) = f[Len(xml)]
<1> DEFINE step(h) == [n \in 0..Len(xml) |->
                         IF n = 0 THEN <<>>
                         ELSE h[n - 1] \o (IF n \in S THEN xml[n].text ELSE <<>>)]
           upTo == CHOOSE h : h = step(h)
<1>0. Len(xml) \in Nat
  OBVIOUS
<1>1. PICK f : IsJoinUpTo(xml, S, Len(xml), f)
  <2>1. Len(xml) \in 0..Len(xml)
    BY <1>0
  <2>2. QED
    BY <2>1, JoinsExist
<1>2. f = step(f)
  <2>1. \A n \in 0..Len(xml) :
          f[n] = IF n = 0 THEN <<>>
                 ELSE f[n - 1] \o (IF n \in S THEN xml[n].text ELSE <<>>)
    <3>1. SUFFICES ASSUME NEW n \in 0..Len(xml), n # 0
                   PROVE  f[n] = f[n - 1] \o (IF n \in S THEN xml[n].text ELSE <<>>)
      BY <1>1 DEF IsJoinUpTo
    <3>2. n \in 1..Len(xml)
      BY <1>0, <3>1
    <3>3. QED
      BY <1>1, <3>2 DEF IsJoinUpTo, Piece
  <2>2. f \in [0..Len(xml) -> Seq(STRING)]
    BY <1>1 DEF IsJoinUpTo
  <2>3. QED
    BY <2>1, <2>2
<1>3. upTo = step(upTo)
  <2> HIDE DEF step
  <2>1. QED
    BY <1>2
<1>4. Words(xml, S) = upTo[Len(xml)]
  BY DEF Words
<1>5. \A n \in 0..Len(xml) :
        upTo[n] = IF n = 0 THEN <<>>
                  ELSE upTo[n - 1] \o (IF n \in S THEN xml[n].text ELSE <<>>)
  <2> HIDE DEF upTo
  <2>1. QED
    BY <1>3
<1>6. upTo = f
  <2> DEFINE T == {n \in 0..Len(xml) : upTo[n] # f[n]}
  <2>1. T = {}
    <3>1. SUFFICES ASSUME T # {} PROVE FALSE
      OBVIOUS
    <3>2. PICK k \in T : \A j \in T : k <= j
      <4>1. T \subseteq Nat
        <5> HIDE DEF upTo
        <5>1. QED
          BY <1>0
      <4> HIDE DEF T
      <4>2. QED
        BY <3>1, <4>1, LeastNumber
    <3> HIDE DEF upTo
    <3>3. k # 0
      BY <1>0, <1>1, <1>5, <3>2 DEF IsJoinUpTo
    <3>4. k \in 1..Len(xml) /\ k - 1 \in 0..Len(xml) /\ k - 1 \notin T
      BY <1>0, <3>2, <3>3
    <3>5. upTo[k - 1] = f[k - 1]
      BY <3>4
    <3>6. f[k] = f[k - 1] \o Piece(xml, S, k)
      BY <1>1, <3>4 DEF IsJoinUpTo
    <3>7. upTo[k] = upTo[k - 1] \o (IF k \in S THEN xml[k].text ELSE <<>>)
      BY <1>5, <3>2, <3>3
    <3>8. QED
      BY <3>2, <3>5, <3>6, <3>7 DEF Piece
  <2>2. DOMAIN upTo = 0..Len(xml)
    <3> HIDE DEF upTo
    <3>1. QED
      BY <1>3
  <2>3. upTo = [n \in 0..Len(xml) |-> upTo[n]]
    <3> HIDE DEF upTo
    <3>1. QED
      BY <1>3
  <2>4. f = [n \in 0..Len(xml) |-> f[n]]
    BY <1>1 DEF IsJoinUpTo
  <2>5. \A n \in 0..Len(xml) : upTo[n] = f[n]
    BY <2>1
  <2> HIDE DEF upTo
  <2>6. QED
    BY <2>3, <2>4, <2>5
<1>7. QED
  <2> HIDE DEF upTo
  <2>1. QED
    BY <1>1, <1>4, <1>6

LEMMA WordsAreText ==
  ASSUME NEW xml \in Seq(Element), NEW S
  PROVE  Words(xml, S) \in Seq(STRING)
<1>1. PICK f : IsJoinUpTo(xml, S, Len(xml), f) /\ Words(xml, S) = f[Len(xml)]
  BY WordsAreJoined
<1>2. Len(xml) \in 0..Len(xml)
  OBVIOUS
<1>3. QED
  BY <1>1, <1>2 DEF IsJoinUpTo

(* A set with a text in it has words.                                      *)
LEMMA WordsAreKept ==
  ASSUME NEW xml \in Seq(Element), NEW S, NEW t \in DOMAIN xml, t \in S,
         xml[t].text # <<>>
  PROVE  Words(xml, S) # <<>>
<1>1. PICK f : IsJoinUpTo(xml, S, Len(xml), f) /\ Words(xml, S) = f[Len(xml)]
  BY WordsAreJoined
<1>0. Len(xml) \in Nat /\ t \in 1..Len(xml)
  BY ElementsAreNumbered
<1> DEFINE T == {n \in t..Len(xml) : f[n] = <<>>}
<1>2. SUFFICES ASSUME T # {} PROVE FALSE
  BY <1>0, <1>1
<1>3. PICK k \in T : \A j \in T : k <= j
  <2>1. T \subseteq Nat
    BY <1>0
  <2> HIDE DEF T
  <2>2. QED
    BY <1>2, <2>1, LeastNumber
<1>4. k \in 1..Len(xml) /\ k - 1 \in 0..Len(xml) /\ (k # t => k - 1 \in t..Len(xml))
      /\ k - 1 \notin T
  BY <1>0, <1>3
<1>5. f[k] = f[k - 1] \o Piece(xml, S, k) /\ f[k - 1] \in Seq(STRING)
  BY <1>1, <1>4 DEF IsJoinUpTo
<1>6. Piece(xml, S, k) \in Seq(STRING)
  BY <1>4, PieceIsText
<1>7. f[k - 1] = <<>> /\ Piece(xml, S, k) = <<>>
  <2>1. \A a, b \in Seq(STRING) : a \o b = <<>> => a = <<>> /\ b = <<>>
    OBVIOUS
  <2>2. QED
    BY <1>3, <1>5, <1>6, <2>1
<1>8. QED
  BY <1>4, <1>7 DEF Piece

-----------------------------------------------------------------------------
(* Checks of an archive.                                                   *)

LEMMA FirstFailureIsOne ==
  ASSUME NEW checks, DOMAIN checks \subseteq Nat
  PROVE  \/ /\ FirstFailure(checks) = "ok"
            /\ \A i \in DOMAIN checks : checks[i] = "ok"
         \/ /\ FirstFailure(checks) # "ok"
            /\ \E i \in DOMAIN checks :
                 /\ FirstFailure(checks) = checks[i]
                 /\ \A j \in DOMAIN checks : j < i => checks[j] = "ok"
<1> DEFINE failed == {i \in DOMAIN checks : checks[i] # "ok"}
           first == CHOOSE i \in failed : \A j \in failed : i <= j
<1>1. CASE failed = {}
  BY <1>1 DEF FirstFailure
<1>2. CASE failed # {}
  <2>1. failed \subseteq Nat
    OBVIOUS
  <2>2. first \in failed /\ \A j \in failed : first <= j
    <3> HIDE DEF failed
    <3>1. \E i \in failed : \A j \in failed : i <= j
      BY <1>2, <2>1, LeastNumber
    <3>2. QED
      BY <3>1
  <2>3. FirstFailure(checks) = checks[first]
    BY <1>2 DEF FirstFailure
  <2> HIDE DEF first
  <2>4. first \in DOMAIN checks /\ checks[first] # "ok" /\ first \in Nat
    BY <2>2
  <2>5. ASSUME NEW j \in DOMAIN checks, j < first PROVE checks[j] = "ok"
    <3>1. j \notin failed
      BY <2>2, <2>4, <2>5
    <3>2. QED
      BY <3>1
  <2>6. QED
    BY <2>3, <2>4, <2>5
<1>3. QED
  BY <1>1, <1>2

LEMMA NeverEscapes ==
  ASSUME NEW checks, DOMAIN checks \subseteq Nat,
         \A i \in DOMAIN checks : checks[i] # "escaped"
  PROVE  FirstFailure(checks) # "escaped"
BY FirstFailureIsOne

LEMMA RawChecksNeverEscape ==
  ASSUME NEW archive, archive.members \in Seq(ArchiveMember)
  PROVE  RawCode(archive) # "escaped"
<1> DEFINE names == [i \in DOMAIN archive.members |->
             FirstFailure(<<
               Check(SafePath(archive.members[i]), "unsafe_archive_path"),
               Check(archive.members[i].localName, "invalid_archive")>>)]
           directory == Check(archive.directory, "invalid_archive")
<1>1. DOMAIN names \subseteq Nat
  OBVIOUS
<1>2. \A i \in DOMAIN names : names[i] # "escaped"
  <2>1. SUFFICES ASSUME NEW i \in DOMAIN archive.members
                 PROVE  names[i] # "escaped"
    OBVIOUS
  <2> DEFINE path == Check(SafePath(archive.members[i]), "unsafe_archive_path")
             local == Check(archive.members[i].localName, "invalid_archive")
  <2>2. path # "escaped" /\ local # "escaped"
    BY DEF Check
  <2>3. names[i] = FirstFailure(<<path, local>>)
    OBVIOUS
  <2> HIDE DEF path, local, names
  <2>4. QED
    BY <2>2, <2>3, NeverEscapes
<1>3. directory # "escaped"
  BY DEF Check
<1>4. RawCode(archive) = FirstFailure(<<directory, FirstFailure(names)>>)
  BY DEF RawCode
<1> HIDE DEF names, directory
<1>5. FirstFailure(names) # "escaped"
  BY <1>1, <1>2, NeverEscapes
<1>6. QED
  BY <1>3, <1>4, <1>5, NeverEscapes

LEMMA MemberChecksNeverEscape ==
  ASSUME NEW members, NEW i
  PROVE  MemberCode(members, i) # "escaped"
<1> DEFINE m == members[i]
           alias == Check(\A j \in 1..(i - 1) : PathKey(members[j]) # PathKey(m),
                          "invalid_archive")
           kind == Check(m.regular, "invalid_archive")
           size == Check(m.size <= MaxEntrySize /\ m.ratio, "archive_too_large")
           total == Check(TotalSize(members, i) <= MaxTotalSize, "archive_too_large")
<1>1. alias # "escaped" /\ kind # "escaped" /\ size # "escaped" /\ total # "escaped"
  BY DEF Check
<1>2. MemberCode(members, i) = FirstFailure(<<alias, kind, size, total>>)
  BY DEF MemberCode
<1> HIDE DEF alias, kind, size, total
<1>3. QED
  BY <1>1, <1>2, NeverEscapes

(* The member is within the limits if its checks are passed.               *)
LEMMA MemberIsBounded ==
  ASSUME NEW members, NEW i, MemberCode(members, i) = "ok"
  PROVE  members[i].size <= MaxEntrySize /\ TotalSize(members, i) <= MaxTotalSize
<1> DEFINE m == members[i]
           alias == Check(\A j \in 1..(i - 1) : PathKey(members[j]) # PathKey(m),
                          "invalid_archive")
           kind == Check(m.regular, "invalid_archive")
           size == Check(m.size <= MaxEntrySize /\ m.ratio, "archive_too_large")
           total == Check(TotalSize(members, i) <= MaxTotalSize, "archive_too_large")
           checks == <<alias, kind, size, total>>
<1>1. FirstFailure(checks) = "ok"
  BY DEF MemberCode
<1>2. /\ size = "ok" => m.size <= MaxEntrySize
      /\ total = "ok" => TotalSize(members, i) <= MaxTotalSize
  BY DEF Check
<1>3. DOMAIN checks = 1..4 /\ checks[3] = size /\ checks[4] = total
  <2> HIDE DEF alias, kind, size, total
  <2>1. QED
    OBVIOUS
<1> HIDE DEF size, total, checks, m
<1>4. size = "ok" /\ total = "ok"
  BY <1>1, <1>3, FirstFailureIsOne
<1>5. QED
  BY <1>2, <1>4 DEF m

(* Only a broken stream escapes, after the limits were checked, and what   *)
(* passes has numbered sections.                                           *)
LEMMA ArchiveCodes ==
  ASSUME NEW archive, archive.members \in Seq(ArchiveMember)
  PROVE  /\ ArchiveCode(archive) = "escaped" =>
              \E i \in DOMAIN archive.members : archive.members[i].data = "broken"
         /\ ArchiveCode(archive) \in {"escaped", "ok"} => IsBounded(archive.members)
         /\ ArchiveCode(archive) = "ok" => NumbersDiffer(archive.members)
<1> DEFINE members == archive.members
           each == [i \in DOMAIN members |-> MemberCode(members, i)]
           data == [i \in DOMAIN members |-> DataCode(members[i])]
           entries == Check(Len(members) <= MaxEntries, "archive_too_large")
           marker == MarkerCode(members)
           numbers == Check(NumbersDiffer(members), "invalid_archive")
           content == Check(Sections(members) # {}, "missing_content")
           checks == <<RawCode(archive), entries, FirstFailure(each), marker,
                       numbers, content, FirstFailure(data)>>
<1>1. DOMAIN each \subseteq Nat /\ DOMAIN data \subseteq Nat
      /\ DOMAIN data = DOMAIN members
  OBVIOUS
<1>2. \A i \in DOMAIN members : data[i] = "escaped" => members[i].data = "broken"
  BY DEF DataCode, Check
<1>3. ArchiveCode(archive) = FirstFailure(checks)
  BY DEF ArchiveCode
<1>4. /\ entries # "escaped" /\ numbers # "escaped"
      /\ content # "escaped" /\ (numbers = "ok" => NumbersDiffer(members))
      /\ (entries = "ok" => Len(members) <= MaxEntries)
  BY DEF Check
<1>5. RawCode(archive) # "escaped"
  BY RawChecksNeverEscape
<1>6. FirstFailure(each) # "escaped"
  <2>1. \A i \in DOMAIN each : each[i] # "escaped"
    BY MemberChecksNeverEscape
  <2> HIDE DEF each
  <2>2. QED
    BY <1>1, <2>1, NeverEscapes
<1>7. FirstFailure(data) = "escaped" =>
        \E i \in DOMAIN members : members[i].data = "broken"
  <2> HIDE DEF data, members
  <2>1. QED
    BY <1>1, <1>2, FirstFailureIsOne
<1>8. marker = "escaped" => \E i \in DOMAIN members : members[i].data = "broken"
  <2>1. SUFFICES ASSUME marker = "escaped"
                 PROVE  \E i \in DOMAIN members : members[i].data = "broken"
    OBVIOUS
  <2>2. members # <<>> /\ DataCode(members[1]) = "escaped"
    BY <2>1 DEF MarkerCode
  <2>3. members[1].data = "broken"
    BY <2>2 DEF DataCode, Check
  <2>4. QED
    BY <2>2, <2>3
<1>9. FirstFailure(each) = "ok" =>
        \A i \in DOMAIN members :
          members[i].size <= MaxEntrySize /\ TotalSize(members, i) <= MaxTotalSize
  <2>1. SUFFICES ASSUME FirstFailure(each) = "ok", NEW i \in DOMAIN members
                 PROVE  members[i].size <= MaxEntrySize
                        /\ TotalSize(members, i) <= MaxTotalSize
    OBVIOUS
  <2>2. i \in DOMAIN each /\ each[i] = MemberCode(members, i)
    OBVIOUS
  <2> HIDE DEF each, members
  <2>3. MemberCode(members, i) = "ok"
    BY <1>1, <2>1, <2>2, FirstFailureIsOne
  <2>4. QED
    BY <2>3, MemberIsBounded
<1>10. /\ DOMAIN checks = 1..7 /\ DOMAIN checks \subseteq Nat
       /\ checks[1] = RawCode(archive) /\ checks[2] = entries
       /\ checks[3] = FirstFailure(each) /\ checks[4] = marker
       /\ checks[5] = numbers /\ checks[6] = content /\ checks[7] = FirstFailure(data)
  <2> HIDE DEF each, data, entries, marker, numbers, content
  <2>1. QED
    OBVIOUS
<1> HIDE DEF each, data, entries, marker, numbers, content, checks
<1>11. ASSUME ArchiveCode(archive) = "ok"
       PROVE  \A i \in 1..7 : checks[i] = "ok"
  BY <1>3, <1>10, <1>11, FirstFailureIsOne
<1>12. ASSUME ArchiveCode(archive) = "escaped"
       PROVE  /\ \E i \in DOMAIN members : members[i].data = "broken"
              /\ checks[2] = "ok" /\ checks[3] = "ok"
  <2>1. PICK i \in 1..7 : /\ checks[i] = "escaped"
                          /\ \A j \in 1..7 : j < i => checks[j] = "ok"
    BY <1>3, <1>10, <1>12, FirstFailureIsOne
  <2>2. i \in {4, 7}
    <3>1. i \in {1, 2, 3, 4, 5, 6, 7}
      BY <2>1
    <3>2. QED
      BY <1>4, <1>5, <1>6, <1>10, <2>1, <3>1
  <2>3. QED
    BY <1>7, <1>8, <1>10, <2>1, <2>2
<1>13. ArchiveCode(archive) \in {"escaped", "ok"} => IsBounded(members)
  BY <1>4, <1>9, <1>10, <1>11, <1>12 DEF IsBounded
<1>14. QED
  BY <1>4, <1>10, <1>11, <1>12, <1>13

(* The first section that fails, by number, decides.                       *)
LEMMA SectionCodes ==
  ASSUME NEW members \in Seq(ArchiveMember), SectionsCode(members) = "escaped"
  PROVE  \E i \in Sections(members) : members[i].syntax = "raises"
<1> DEFINE failed == {i \in Sections(members) : SectionCode(members[i]) # "ok"}
           numbers == {members[i].section : i \in failed}
           first == CHOOSE i \in failed :
                      \A j \in failed : members[i].section <= members[j].section
<1>1. failed # {} /\ SectionCode(members[first]) = "escaped"
  BY DEF SectionsCode
<1>2. \A i \in failed : members[i].section \in Nat
  <2>1. SUFFICES ASSUME NEW i \in Sections(members) PROVE members[i].section \in Nat
    OBVIOUS
  <2>2. members[i] \in ArchiveMember /\ members[i].section # -1
    BY DEF Sections
  <2>3. QED
    BY <2>2 DEF ArchiveMember
<1>3. first \in failed
  <2> HIDE DEF failed
  <2>1. numbers \subseteq Nat /\ numbers # {}
    BY <1>1, <1>2
  <2>2. PICK n \in numbers : \A k \in numbers : n <= k
    BY <2>1, LeastNumber
  <2>3. \E i \in failed : \A j \in failed : members[i].section <= members[j].section
    BY <2>2
  <2>4. QED
    BY <2>3
<1> HIDE DEF first
<1>4. members[first].syntax = "raises"
  BY <1>1 DEF SectionCode, Check
<1>5. QED
  BY <1>3, <1>4

LEMMA HwpxCodes ==
  ASSUME NEW archive, archive.members \in Seq(ArchiveMember)
  PROVE  /\ ParseHwpx(archive).code = "escaped" =>
              IsBounded(archive.members) /\ HwpxRaises(archive.members)
         /\ ParseHwpx(archive).code = "ok" => NumbersDiffer(archive.members)
<1> DEFINE checks == <<ArchiveCode(archive), SectionsCode(archive.members)>>
<1>1. ParseHwpx(archive).code = FirstFailure(checks)
  BY DEF ParseHwpx
<1>2. DOMAIN checks = {1, 2} /\ DOMAIN checks \subseteq Nat
      /\ checks[1] = ArchiveCode(archive) /\ checks[2] = SectionsCode(archive.members)
  OBVIOUS
<1> HIDE DEF checks
<1>3. ParseHwpx(archive).code = "ok" => ArchiveCode(archive) = "ok"
  BY <1>1, <1>2, FirstFailureIsOne
<1>4. ParseHwpx(archive).code = "escaped" =>
        \/ ArchiveCode(archive) = "escaped"
        \/ ArchiveCode(archive) = "ok" /\ SectionsCode(archive.members) = "escaped"
  <2>1. SUFFICES ASSUME FirstFailure(checks) = "escaped"
                 PROVE  \/ checks[1] = "escaped"
                        \/ checks[1] = "ok" /\ checks[2] = "escaped"
    BY <1>1, <1>2
  <2>2. PICK i \in {1, 2} : /\ checks[i] = "escaped"
                            /\ \A j \in {1, 2} : j < i => checks[j] = "ok"
    BY <1>2, <2>1, FirstFailureIsOne
  <2>3. QED
    BY <2>2
<1>5. QED
  BY <1>3, <1>4, ArchiveCodes, SectionCodes DEF HwpxRaises

-----------------------------------------------------------------------------
(* Addresses of HWPX blocks.                                               *)

LEMMA SectionsAreTrees ==
  ASSUME NEW members \in Seq(ArchiveMember), NEW i \in Sections(members)
  PROVE  /\ i \in DOMAIN members
         /\ members[i].xml \in Seq(Element) /\ IsTree(members[i].xml)
<1>1. i \in DOMAIN members /\ members[i] \in ArchiveMember
  BY DEF Sections
<1>2. members[i].xml \in {x \in Seq(Element) : IsTree(x)}
  BY <1>1 DEF ArchiveMember
<1>3. QED
  BY <1>1, <1>2

LEMMA PlacesAreFinite ==
  ASSUME NEW n \in Nat, NEW S, S \subseteq 1..n
  PROVE  IsFiniteSet(S)
<1>1. IsFiniteSet(1..n)
  BY FS_Interval, 1 \in Int, n \in Int
<1>2. S \in SUBSET (1..n)
  OBVIOUS
<1>3. QED
  BY <1>1, <1>2, FS_Subset

(* What is counted before grows from one to the next.                      *)
LEMMA CountsDiffer ==
  ASSUME NEW S, IsFiniteSet(S), NEW T \in SUBSET S, NEW x \in S, x \notin T
  PROVE  Cardinality(T) # Cardinality(S)
BY FS_Subset

LEMMA ParagraphNumbersDiffer ==
  ASSUME NEW xml \in Seq(Element), NEW m \in Paragraphs(xml),
         NEW n \in Paragraphs(xml), m # n
  PROVE  ParagraphNumber(xml, m) # ParagraphNumber(xml, n)
<1>1. Paragraphs(xml) \subseteq 1..Len(xml) /\ Len(xml) \in Nat
  BY ElementsAreNumbered DEF Paragraphs, Tagged
<1>2. IsFiniteSet(Paragraphs(xml))
  BY <1>1, PlacesAreFinite
<1>3. ASSUME NEW a \in Paragraphs(xml), NEW b \in Paragraphs(xml), a < b
      PROVE  ParagraphNumber(xml, a) # ParagraphNumber(xml, b)
  <2> DEFINE upTo(c) == {k \in Paragraphs(xml) : k < c}
  <2>1. a \in Nat /\ b \in Nat /\ \A k \in Paragraphs(xml) : k \in Nat
    BY <1>1
  <2>2. /\ \A k \in Paragraphs(xml) : k < a => k < b
        /\ a < b /\ ~(a < a)
    BY <1>3, <2>1
  <2>5. upTo(a) \in SUBSET upTo(b) /\ a \in upTo(b) /\ a \notin upTo(a)
    BY <2>2
  <2>3. IsFiniteSet(upTo(b))
    BY <1>2, FS_Subset
  <2> HIDE DEF upTo
  <2>4. Cardinality(upTo(a)) # Cardinality(upTo(b))
    BY <2>3, <2>5, CountsDiffer
  <2>6. QED
    BY <2>4 DEF ParagraphNumber, upTo
<1>4. m < n \/ n < m
  BY <1>1
<1>5. QED
  BY <1>3, <1>4

LEMMA TablesAreFinite ==
  ASSUME NEW members \in Seq(ArchiveMember)
  PROVE  IsFiniteSet(AllTables(members))
<1> DEFINE places(i) == {i} \X Tables(members[i].xml)
           f == [i \in Sections(members) |-> places(i)]
           S == {places(i) : i \in Sections(members)}
<1>1. IsFiniteSet(Sections(members))
  <2>1. Sections(members) \subseteq 1..Len(members) /\ Len(members) \in Nat
    BY DEF Sections
  <2>2. QED
    BY <2>1, PlacesAreFinite
<1>2. \A i \in Sections(members) : IsFiniteSet(places(i))
  <2>1. SUFFICES ASSUME NEW i \in Sections(members) PROVE IsFiniteSet(places(i))
    OBVIOUS
  <2>2. /\ Tables(members[i].xml) \subseteq 1..Len(members[i].xml)
        /\ Len(members[i].xml) \in Nat
    BY SectionsAreTrees, ElementsAreNumbered DEF Tables, Tagged
  <2>3. IsFiniteSet(Tables(members[i].xml))
    BY <2>2, PlacesAreFinite
  <2>4. QED
    BY <2>3, FS_Singleton, FS_Product
<1>3. f \in Surjection(Sections(members), S)
  <2> HIDE DEF places
  <2>1. QED
    BY DEF Surjection
<1>4. IsFiniteSet(S)
  <2> HIDE DEF f, S
  <2>1. QED
    BY <1>1, <1>3, FS_Surjection
<1>5. \A T \in S : IsFiniteSet(T)
  <2> HIDE DEF places
  <2>1. QED
    BY <1>2
<1>6. AllTables(members) = UNION S
  BY DEF AllTables
<1> HIDE DEF S
<1>7. QED
  BY <1>4, <1>5, <1>6, FS_UNION

LEMMA TableNumbersDiffer ==
  ASSUME NEW members \in Seq(ArchiveMember), NEW i \in Sections(members),
         NEW s \in Tables(members[i].xml), NEW t \in Tables(members[i].xml), s # t
  PROVE  TableNumber(members, <<i, s>>) # TableNumber(members, <<i, t>>)
<1> DEFINE tables == Tables(members[i].xml)
           upTo(c) == {a \in AllTables(members) : ComesBefore(members, a, <<i, c>>)}
<1>1. \A k \in tables : k \in Nat /\ <<i, k>> \in AllTables(members)
  <2>1. tables \subseteq Nat
    BY SectionsAreTrees, ElementsAreNumbered DEF Tables, Tagged
  <2>2. \A k \in tables : <<i, k>> \in AllTables(members)
    BY DEF AllTables
  <2>3. QED
    BY <2>1, <2>2
<1>2. \A j \in Sections(members) : members[j].section \in Int
  <2>1. \A j \in DOMAIN members : members[j] \in ArchiveMember
    OBVIOUS
  <2>2. QED
    BY <2>1 DEF Sections, ArchiveMember
<1>3. ASSUME NEW a \in tables, NEW b \in tables, a < b
      PROVE  TableNumber(members, <<i, a>>) # TableNumber(members, <<i, b>>)
  <2>1. upTo(a) \subseteq upTo(b)
    <3>1. SUFFICES ASSUME NEW c \in AllTables(members),
                          ComesBefore(members, c, <<i, a>>)
                   PROVE  ComesBefore(members, c, <<i, b>>)
      OBVIOUS
    <3>2. PICK j \in Sections(members) : c \in {j} \X Tables(members[j].xml)
      BY DEF AllTables
    <3>3. c[2] \in Nat
      <4>1. Tables(members[j].xml) \subseteq Nat
        BY SectionsAreTrees, ElementsAreNumbered DEF Tables, Tagged
      <4>2. QED
        BY <3>2, <4>1
    <3>4. a \in Nat /\ b \in Nat
      BY <1>1
    <3>5. QED
      BY <1>3, <3>1, <3>3, <3>4 DEF ComesBefore
  <2>2. <<i, a>> \in upTo(b)
    BY <1>1, <1>3 DEF ComesBefore
  <2>3. <<i, a>> \notin upTo(a)
    BY <1>1, <1>2 DEF ComesBefore
  <2>4. IsFiniteSet(upTo(b))
    BY TablesAreFinite, FS_Subset
  <2> HIDE DEF upTo
  <2>5. Cardinality(upTo(a)) # Cardinality(upTo(b))
    BY <2>1, <2>2, <2>3, <2>4, CountsDiffer
  <2>6. QED
    BY <2>5 DEF TableNumber, upTo
<1>4. s < t \/ t < s
  <2>1. s \in Nat /\ t \in Nat
    BY <1>1
  <2>2. QED
    BY <2>1
<1>5. QED
  BY <1>3, <1>4

(* A cell that no nested table comes before takes its own address.         *)
LEMMA AddressIsOwn ==
  ASSUME NEW xml \in Seq(Element), IsTree(xml), NEW c,
         LET nested == Reached(xml, c, {}) \cap Tagged(xml, "tbl")
         IN nested = {} \/ \E n \in OwnAddresses(xml, c) : \A m \in nested : n < m
  PROVE  Address(xml, c) = OwnAddress(xml, c)
<1> DEFINE found == Reached(xml, c, {}) \cap Tagged(xml, "cellAddr")
           own == OwnAddresses(xml, c)
           nested == Reached(xml, c, {}) \cap Tagged(xml, "tbl")
           first(S) == CHOOSE n \in S : \A m \in S : n <= m
<1>1. own \subseteq found
  BY DEF OwnAddresses, Reached
<1>2. found \subseteq Nat /\ own \subseteq Nat /\ found \subseteq DOMAIN xml
  BY <1>1, ElementsAreNumbered DEF Tagged
<1>3. /\ Address(xml, c) = IF found = {} THEN <<>> ELSE xml[first(found)].pair
      /\ OwnAddress(xml, c) = IF own = {} THEN <<>> ELSE xml[first(own)].pair
  BY DEF Address, FirstPair, OwnAddress
<1>4. CASE found = {}
  BY <1>1, <1>3, <1>4
<1>5. CASE found # {}
  <2>1. PICK l \in found : \A m \in found : l <= m
    <3> HIDE DEF found
    <3>1. QED
      BY <1>2, <1>5, LeastNumber
  <2>2. l \in own
    <3>1. SUFFICES ASSUME l \notin own PROVE FALSE
      OBVIOUS
    <3>2. l \in DOMAIN xml /\ c \in xml[l].above /\ xml[l].tag = "cellAddr"
      BY <2>1 DEF Reached, Tagged
    <3>3. PICK k \in xml[l].above : k > c /\ xml[k].tag = "tbl"
      BY <3>1, <3>2 DEF OwnAddresses, Reached, Tagged
    <3>4. k \in DOMAIN xml /\ k < l /\ k \in Nat /\ l \in Nat /\ c \in Nat
      BY <3>2, <3>3, Paths
    <3>5. c \in xml[k].above
      <4>1. c < k
        BY <3>3, <3>4
      <4>2. QED
        BY <3>2, <3>3, <4>1, Paths
    <3>6. k \in nested
      BY <3>3, <3>4, <3>5 DEF Reached, Tagged
    <3>7. PICK n \in own : n < k
      BY <3>6
    <3>8. l <= n /\ n \in Nat
      BY <1>1, <1>2, <2>1, <3>7
    <3>9. QED
      BY <3>4, <3>7, <3>8
  <2>3. \A m \in own : l <= m
    BY <1>1, <2>1
  <2> HIDE DEF found, own
  <2>4. first(found) = l
    <3>1. \A n \in found : (\A m \in found : n <= m) => n = l
      BY <1>2, <2>1
    <3>2. QED
      BY <2>1, <3>1
  <2>5. first(own) = l
    <3>1. \A n \in own : (\A m \in own : n <= m) => n = l
      BY <1>2, <2>2, <2>3
    <3>2. QED
      BY <2>2, <2>3, <3>1
  <2>6. own # {}
    BY <2>2
  <2> HIDE DEF first
  <2>7. QED
    BY <1>3, <1>5, <2>4, <2>5, <2>6
<1>6. QED
  BY <1>4, <1>5

LEMMA ParagraphPlace ==
  ASSUME NEW members \in Seq(ArchiveMember), NEW a \in ParagraphPlaces(members)
  PROVE  \E i, n : /\ i \in Sections(members) /\ n \in Paragraphs(members[i].xml)
                   /\ a = <<i, n>> /\ Text(members[i].xml, n) # <<>>
BY DEF ParagraphPlaces

LEMMA CellPlace ==
  ASSUME NEW members \in Seq(ArchiveMember), NEW a \in CellPlaces(members)
  PROVE  \E i, n, t : /\ i \in Sections(members) /\ t \in Tables(members[i].xml)
                      /\ a = <<i, n>> /\ n \in Cells(members[i].xml, t)
<1>1. PICK i \in Sections(members) :
        a \in {i} \X UNION {Cells(members[i].xml, t) : t \in Tables(members[i].xml)}
  BY DEF CellPlaces
<1>2. QED
  BY <1>1

LEMMA TableOfCell ==
  ASSUME NEW xml, NEW t \in Tables(xml), NEW n \in Cells(xml, t)
  PROVE  TableOf(xml, n) \in Tables(xml) /\ n \in Cells(xml, TableOf(xml, n))
BY DEF TableOf

(* A place is of one kind.                                                 *)
LEMMA PlacesAreParagraphsOrCells ==
  ASSUME NEW members \in Seq(ArchiveMember), NEW a \in ParagraphPlaces(members)
  PROVE  a \notin CellPlaces(members)
<1>1. PICK i, n : /\ i \in Sections(members) /\ n \in Paragraphs(members[i].xml)
                   /\ a = <<i, n>>
  BY ParagraphPlace
<1>2. SUFFICES ASSUME a \in CellPlaces(members) PROVE FALSE
  OBVIOUS
<1>3. PICK j, m, t :
        /\ j \in Sections(members) /\ t \in Tables(members[j].xml)
        /\ a = <<j, m>> /\ m \in Cells(members[j].xml, t)
  BY <1>2, CellPlace
<1>4. i = j /\ n = m
  BY <1>1, <1>3
<1>5. members[i].xml[n].tag = "p"
  BY <1>1 DEF Paragraphs, Tagged
<1>6. n \in Cells(members[i].xml, t)
  BY <1>3, <1>4
<1>7. members[i].xml[n].tag = "tc"
  BY <1>6 DEF Cells, Tagged
<1>8. QED
  BY <1>5, <1>7

(***************************************************************************)
(* Two blocks have one address only if a table is badly addressed.         *)
(***************************************************************************)
LEMMA DuplicatesNeedBadTables ==
  ASSUME NEW members \in Seq(ArchiveMember), NumbersDiffer(members),
         NEW a \in ParagraphPlaces(members) \cup CellPlaces(members),
         NEW b \in ParagraphPlaces(members) \cup CellPlaces(members),
         a # b, BlockOf(members, a).id = BlockOf(members, b).id
  PROVE  \E i \in Sections(members) : \E t \in Tables(members[i].xml) :
           ~IsWellAddressed(members[i].xml, t)
<1>1. \A p : BlockOf(members, p).id =
               IF p \in CellPlaces(members) THEN CellId(members, p[1], p[2])
               ELSE ParagraphId(members, p[1], p[2])
  BY DEF BlockOf
<1>2. \A i, n : /\ ParagraphId(members, i, n).unit = "p"
                /\ ParagraphId(members, i, n).section = members[i].section
                /\ ParagraphId(members, i, n).number =
                     ParagraphNumber(members[i].xml, n)
                /\ CellId(members, i, n).unit = "table"
                /\ CellId(members, i, n).section = members[i].section
                /\ CellId(members, i, n).number =
                     TableNumber(members, <<i, TableOf(members[i].xml, n)>>)
                /\ CellId(members, i, n).cell =
                     <<Address(members[i].xml, n), Span(members[i].xml, n)>>
  BY DEF ParagraphId, CellId
<1>3. CASE a \in CellPlaces(members) /\ b \in CellPlaces(members)
  <2>1. PICK i, n, s :
          /\ i \in Sections(members) /\ s \in Tables(members[i].xml)
          /\ a = <<i, n>> /\ n \in Cells(members[i].xml, s)
    BY <1>3, CellPlace
  <2>2. PICK j, m, t :
          /\ j \in Sections(members) /\ t \in Tables(members[j].xml)
          /\ b = <<j, m>> /\ m \in Cells(members[j].xml, t)
    BY <1>3, CellPlace
  <2>3. CellId(members, i, n) = CellId(members, j, m)
    <3>1. BlockOf(members, a).id = CellId(members, i, n)
      BY <1>1, <1>3, <2>1
    <3>2. BlockOf(members, b).id = CellId(members, j, m)
      BY <1>1, <1>3, <2>2
    <3>3. QED
      BY <3>1, <3>2
  <2>4. i = j
    <3>1. members[i].section = members[j].section
      BY <1>2, <2>3
    <3>2. QED
      BY <2>1, <2>2, <3>1 DEF NumbersDiffer
  <2> DEFINE xml == members[i].xml
             table == TableOf(xml, n)
  <2>5. /\ table \in Tables(xml) /\ n \in Cells(xml, table)
        /\ TableOf(xml, m) \in Tables(xml) /\ m \in Cells(xml, TableOf(xml, m))
    BY <2>1, <2>2, <2>4, TableOfCell
  <2>6. TableOf(xml, m) = table
    <3>1. TableNumber(members, <<i, table>>)
            = TableNumber(members, <<i, TableOf(xml, m)>>)
      BY <1>2, <2>3, <2>4
    <3>2. QED
      BY <2>1, <2>5, <3>1, TableNumbersDiffer
  <2>7. Address(xml, n) = Address(xml, m)
    BY <1>2, <2>3, <2>4
  <2>8. n # m
    BY <2>1, <2>2, <2>4
  <2>9. xml \in Seq(Element) /\ IsTree(xml)
    BY <2>1, SectionsAreTrees
  <2>10. ~IsWellAddressed(xml, table)
    <3>1. SUFFICES ASSUME IsWellAddressed(xml, table) PROVE FALSE
      OBVIOUS
    <3> HIDE DEF xml, table
    <3>2. Address(xml, n) = OwnAddress(xml, n)
      BY <2>5, <2>9, <3>1, AddressIsOwn DEF IsWellAddressed
    <3>3. Address(xml, m) = OwnAddress(xml, m)
      BY <2>5, <2>6, <2>9, <3>1, AddressIsOwn DEF IsWellAddressed
    <3>4. OwnAddress(xml, n) # OwnAddress(xml, m)
      BY <2>5, <2>6, <2>8, <3>1 DEF IsWellAddressed
    <3>5. QED
      BY <2>7, <3>2, <3>3, <3>4
  <2>11. QED
    BY <2>1, <2>5, <2>10
<1>4. CASE a \notin CellPlaces(members) /\ b \notin CellPlaces(members)
  <2>1. PICK i, n : /\ i \in Sections(members) /\ n \in Paragraphs(members[i].xml)
                   /\ a = <<i, n>>
    BY <1>4, ParagraphPlace
  <2>2. PICK j, m : /\ j \in Sections(members) /\ m \in Paragraphs(members[j].xml)
                   /\ b = <<j, m>>
    BY <1>4, ParagraphPlace
  <2>3. ParagraphId(members, i, n) = ParagraphId(members, j, m)
    <3>1. BlockOf(members, a).id = ParagraphId(members, i, n)
      BY <1>1, <1>4, <2>1
    <3>2. BlockOf(members, b).id = ParagraphId(members, j, m)
      BY <1>1, <1>4, <2>2
    <3>3. QED
      BY <3>1, <3>2
  <2>4. i = j
    <3>1. members[i].section = members[j].section
      BY <1>2, <2>3
    <3>2. QED
      BY <2>1, <2>2, <3>1 DEF NumbersDiffer
  <2>5. n # m
    BY <2>1, <2>2, <2>4
  <2>6. members[i].xml \in Seq(Element)
    BY <2>1, SectionsAreTrees
  <2>7. ParagraphNumber(members[i].xml, n) = ParagraphNumber(members[i].xml, m)
    BY <1>2, <2>3, <2>4
  <2>8. QED
    BY <2>1, <2>2, <2>4, <2>5, <2>6, <2>7, ParagraphNumbersDiffer
<1>5. CASE a \in CellPlaces(members) /\ b \notin CellPlaces(members)
  <2>1. BlockOf(members, a).id.unit = "table" /\ BlockOf(members, b).id.unit = "p"
    BY <1>1, <1>2, <1>5
  <2>2. QED
    BY <2>1
<1>6. CASE a \notin CellPlaces(members) /\ b \in CellPlaces(members)
  <2>1. BlockOf(members, a).id.unit = "p" /\ BlockOf(members, b).id.unit = "table"
    BY <1>1, <1>2, <1>6
  <2>2. QED
    BY <2>1
<1>7. QED
  BY <1>3, <1>4, <1>5, <1>6

-----------------------------------------------------------------------------
(* The ingest of HWPX files.                                               *)

(* A block is made of the texts at home in its paragraph or cell.          *)
LEMMA TextsAreAtHome ==
  ASSUME NEW members \in Seq(ArchiveMember), NEW i \in Sections(members), NEW n,
         <<i, n>> \in ParagraphPlaces(members) \cup CellPlaces(members)
  PROVE  Text(members[i].xml, n) =
           Words(members[i].xml, {t \in Readable(members[i].xml) :
                                    Home(members[i].xml, t) = n})
<1> DEFINE xml == members[i].xml
           found == Reached(xml, n, {"tbl"}) \cap Tagged(xml, "t")
           home == {t \in Readable(xml) : Home(xml, t) = n}
<1>1. xml \in Seq(Element) /\ IsTree(xml)
  BY SectionsAreTrees
<1>2. Readable(xml) \subseteq Tagged(xml, "t")
  BY DEF Readable
<1>3. \/ n \in Paragraphs(xml)
      \/ \E s \in Tables(xml) : n \in Cells(xml, s)
  <2>1. CASE <<i, n>> \in ParagraphPlaces(members)
    <3>1. PICK j, m : /\ j \in Sections(members) /\ m \in Paragraphs(members[j].xml)
                   /\ <<i, n>> = <<j, m>>
      BY <2>1, ParagraphPlace
    <3>2. QED
      BY <3>1
  <2>2. CASE <<i, n>> \in CellPlaces(members)
    <3>1. PICK j, m, s :
            /\ j \in Sections(members) /\ s \in Tables(members[j].xml)
            /\ <<i, n>> = <<j, m>> /\ m \in Cells(members[j].xml, s)
      BY <2>2, CellPlace
    <3>2. QED
      BY <3>1
  <2>3. QED
    BY <2>1, <2>2
<1>4. Text(xml, n) = Words(xml, found)
  BY DEF Text
<1> HIDE DEF xml
<1>5. \A t \in Tagged(xml, "t") :
        t \in Reached(xml, n, {"tbl"}) <=> t \in Readable(xml) /\ Home(xml, t) = n
  BY <1>1, <1>3, TextsOfParagraph, TextsOfCell
<1>6. found = home
  BY <1>2, <1>5
<1>7. QED
  BY <1>4, <1>6 DEF xml

(* A text that is at home somewhere is in a block.                         *)
LEMMA HomesAreStored ==
  ASSUME NEW members \in Seq(ArchiveMember), NEW i \in Sections(members),
         NEW t \in Readable(members[i].xml), members[i].xml[t].text # <<>>
  PROVE  <<i, Home(members[i].xml, t)>>
           \in ParagraphPlaces(members) \cup CellPlaces(members)
<1> DEFINE xml == members[i].xml
           h == Home(xml, t)
<1>1. xml \in Seq(Element) /\ IsTree(xml)
  BY SectionsAreTrees
<1>2. h \in Paragraphs(xml) \/ \E s \in Tables(xml) : h \in Cells(xml, s)
  BY <1>1, HomesAreUnits
<1>3. CASE h \in Paragraphs(xml)
  <2>1. t \in Tagged(xml, "t") /\ t \in DOMAIN xml
    BY DEF Readable, Tagged
  <2>2. t \in Reached(xml, h, {"tbl"})
    BY <1>1, <1>3, <2>1, TextsOfParagraph
  <2>3. Text(xml, h) # <<>>
    BY <1>1, <2>1, <2>2, WordsAreKept DEF Text
  <2>4. <<i, h>> \in ParagraphPlaces(members)
    BY <1>3, <2>3 DEF ParagraphPlaces
  <2>5. QED
    BY <2>4
<1>4. CASE \E s \in Tables(xml) : h \in Cells(xml, s)
  <2>1. <<i, h>> \in CellPlaces(members)
    BY <1>4 DEF CellPlaces
  <2>2. QED
    BY <2>1
<1>5. QED
  BY <1>2, <1>3, <1>4

LEMMA HwpxBlocksOf ==
  ASSUME NEW archive, ParseHwpx(archive).code = "ok"
  PROVE  LET members == archive.members
             blocks == ParseHwpx(archive).blocks
         IN /\ DOMAIN blocks = ParagraphPlaces(members) \cup CellPlaces(members)
            /\ \A p \in DOMAIN blocks : blocks[p] = BlockOf(members, p)
BY DEF ParseHwpx

LEMMA NoBlocksIfRefused ==
  ASSUME NEW archive, ParseHwpx(archive).code # "ok"
  PROVE  DOMAIN ParseHwpx(archive).blocks = {}
BY DEF ParseHwpx

LEMMA HwpxBlocksHaveTexts ==
  ASSUME NEW archive, archive.members \in Seq(ArchiveMember),
         NEW p \in DOMAIN ParseHwpx(archive).blocks
  PROVE  ParseHwpx(archive).blocks[p].text \in Seq(STRING)
<1> DEFINE members == archive.members
<1>1. /\ p \in ParagraphPlaces(members) \cup CellPlaces(members)
      /\ ParseHwpx(archive).blocks[p].text = Text(members[p[1]].xml, p[2])
  <2>1. ParseHwpx(archive).code = "ok"
    BY NoBlocksIfRefused
  <2>2. /\ p \in ParagraphPlaces(members) \cup CellPlaces(members)
        /\ ParseHwpx(archive).blocks[p] = BlockOf(members, p)
    BY <2>1, HwpxBlocksOf
  <2>3. BlockOf(members, p).text = Text(members[p[1]].xml, p[2])
    BY DEF BlockOf
  <2>4. QED
    BY <2>2, <2>3
<1>2. p[1] \in Sections(members)
  BY <1>1, ParagraphPlace, CellPlace
<1>3. members[p[1]].xml \in Seq(Element)
  BY <1>2, SectionsAreTrees
<1>4. QED
  BY <1>1, <1>3, WordsAreText DEF Text
-----------------------------------------------------------------------------
(* The ingest.                                                             *)

LEMMA StoredStep == StoredIsExtracted /\ [IngestNext]_ingestVars => StoredIsExtracted'
<1> SUFFICES ASSUME StoredIsExtracted, [IngestNext]_ingestVars
             PROVE  StoredIsExtracted'
  OBVIOUS
<1>1. CASE RefuseFile \/ RaiseOther
  BY <1>1 DEF RefuseFile, RaiseOther, StoredIsExtracted
<1>2. CASE StoreParseFailure \/ MarkUnavailable
  BY <1>2 DEF StoreParseFailure, MarkUnavailable, StoredIsExtracted
<1>3. CASE StoreDocument
  BY <1>3 DEF StoreDocument, Accepted, StoredIsExtracted
<1>4. CASE UNCHANGED ingestVars
  BY <1>4 DEF ingestVars, StoredIsExtracted
<1>5. QED
  BY <1>1, <1>2, <1>3, <1>4 DEF IngestNext

(* A parser finds texts, and those of a PDF file are from its pages.       *)
LEMMA BlocksHaveTexts ==
  ASSUME NEW f \in Inputs, f.format # "other", NEW i \in DOMAIN Parsed(f).blocks
  PROVE  Parsed(f).blocks[i].text \in Texts
<1>1. CASE f.format = "hwpx"
  <2>1. f.document.members \in Seq(ArchiveMember)
    BY <1>1, InputAssumption
  <2>2. Parsed(f) = ParseHwpx(f.document)
    BY <1>1 DEF Parsed
  <2>3. QED
    BY <2>1, <2>2, HwpxBlocksHaveTexts DEF Texts
<1>2. CASE f.format = "pdf"
  <2> DEFINE pages == f.document.pages
  <2>1. pages \in Seq(PdfPage) /\ Parsed(f) = ParsePdf(f.document, f.provider)
    BY <1>2, InputAssumption DEF Parsed
  <2>2. i \in Addresses(f.document, f.provider)
        /\ Parsed(f).blocks[i] = BlockAt(f.document, i)
    BY <2>1 DEF ParsePdf
  <2>3. PICK n \in DOMAIN pages : i \in PageBlocks(pages[n], n, f.provider)
    BY <2>2 DEF Addresses
  <2>4. pages[n] \in PdfPage
    BY <2>1
  <2>5. QED
    <3>1. i[1] = n /\ i[2] \in {"ocr", "text", "cell"}
          /\ i[3] \in DOMAIN OnPage(pages[n])[i[2]]
      BY <2>3, PageBlocksAreOnPage
    <3>2. OnPage(pages[n])[i[2]][i[3]].text \in Texts
      BY <2>4, <3>1, TextsOnPage
    <3>3. QED
      BY <2>2, <3>1, <3>2 DEF BlockAt
<1>3. QED
  BY <1>1, <1>2, InputAssumption

(* A rule belongs to one block, since addresses are distinct.              *)
LEMMA ExtractedMissesAreKnown == StoredIsExtracted => MissedRefusalsAreKnown
<1> SUFFICES ASSUME StoredIsExtracted,
                    NEW i \in DOMAIN stored.blocks, NEW r \in stored.rules,
                    r.block = stored.blocks[i].id, r.rule.operator # "not_in",
                    Refused(stored.blocks[i].text, r.rule)
             PROVE  IsKnownMiss(stored.blocks[i].text, r.rule)
  BY DEF MissedRefusalsAreKnown
<1>1. stored # NoDocument
  BY DEF NoDocument
<1>2. /\ input \in Inputs /\ input.format # "other"
      /\ stored.blocks = Parsed(input).blocks
      /\ stored.rules = Rules(stored.blocks)
      /\ ~HasDuplicates(stored.blocks)
  BY <1>1 DEF StoredIsExtracted
<1>3. stored.blocks[i].text \in Seq(STRING)
  BY <1>2, BlocksHaveTexts DEF Texts
<1>4. PICK j \in DOMAIN stored.blocks :
        r.block = stored.blocks[j].id /\ r.rule \in Chosen(stored.blocks[j].text)
  BY <1>2 DEF Rules
<1>5. i = j
  BY <1>2, <1>4 DEF HasDuplicates
<1>6. QED
  BY <1>3, <1>4, <1>5, RefusalsReachRules

(* A page that has no block has a warning, and then the file has one.      *)
LEMMA ExtractedPagesAreAccountedFor == StoredIsExtracted => PagesAreAccountedFor
<1> DEFINE pages == input.document.pages
           parsed == ParsePdf(input.document, input.provider)
           warning == FirstWarning(pages, input.provider)
<1> SUFFICES ASSUME StoredIsExtracted, stored.exists, input.format = "pdf",
                    NEW n \in DOMAIN pages,
                    ~ \E i \in DOMAIN stored.blocks : stored.blocks[i].page = n
             PROVE  /\ attachment.status = "requires_review"
                    /\ AttachmentFailures(attachment) =
                         {IF input.provider THEN "attachment_parse"
                          ELSE "scan_pdf_ocr_required"}
  BY DEF PagesAreAccountedFor
<1>1. stored # NoDocument
  BY DEF NoDocument
<1>2. /\ input \in Inputs /\ Parsed(input) = parsed /\ parsed.code = "ok"
      /\ stored.blocks = parsed.blocks /\ attachment = ParsedRow(parsed)
      /\ pages \in Seq(PdfPage) /\ input.provider \in BOOLEAN
  BY <1>1, InputAssumption DEF StoredIsExtracted, Parsed
<1>3. parsed.warning = warning /\ PdfCode(input.document, input.provider) = "ok"
  BY <1>2 DEF ParsePdf
<1>4. PageBlocks(pages[n], n, input.provider) = {}
  <2>1. SUFFICES ASSUME NEW id \in PageBlocks(pages[n], n, input.provider)
                 PROVE  FALSE
    OBVIOUS
  <2>2. id \in DOMAIN parsed.blocks /\ parsed.blocks[id].page = id[1]
    BY <1>3, <2>1 DEF ParsePdf, Addresses, BlockAt
  <2>3. id[1] = n
    BY <2>1, PageBlocksAreOnPage
  <2>4. QED
    BY <1>2, <2>2, <2>3
<1>5. PageWarning(pages[n], input.provider) # "none"
  BY <1>2, <1>4, UnreadPageWarns
<1>6. PICK m \in DOMAIN pages :
        warning # "none" /\ warning = PageWarning(pages[m], input.provider)
  BY <1>2, <1>5, FirstWarningIsOne
<1>7. warning = OcrWarning(pages[m], input.provider)
  BY <1>6 DEF PageWarning
<1>8. attachment.status = "requires_review"
      /\ attachment.error = warning /\ attachment.review
  BY <1>2, <1>3, <1>6 DEF ParsedRow, StatusOf
<1>9. IF input.provider
      THEN warning \in {"ocr_failed:pixel_limit", "ocr_failed:timeout",
                        "ocr_failed:output"}
      ELSE warning = "ocr_required"
  BY <1>2, <1>6, <1>7 DEF OcrWarning
<1>10. QED
  BY <1>2, <1>8, <1>9 DEF AttachmentFailures

(***************************************************************************)
(* Exceptions.  The row stays as it is when one is raised, so that nothing *)
(* but ExceptionsAreReal tells what was parsed.                            *)
(***************************************************************************)
LEMMA ExceptionsStep ==
  ExceptionsAreReal /\ StoredIsExtracted /\ [IngestNext]_ingestVars => ExceptionsAreReal'
<1> SUFFICES ASSUME ExceptionsAreReal, StoredIsExtracted, [IngestNext]_ingestVars
             PROVE  ExceptionsAreReal'
  OBVIOUS
<1>1. CASE RefuseFile
  BY <1>1 DEF RefuseFile, ExceptionsAreReal
<1>2. CASE StoreParseFailure \/ StoreDocument \/ MarkUnavailable
  BY <1>2 DEF StoreParseFailure, StoreDocument, MarkUnavailable, ExceptionsAreReal
<1>3. CASE RaiseOther
  BY <1>3 DEF RaiseOther, Accepted, ExceptionsAreReal, StoredIsExtracted
<1>4. CASE UNCHANGED ingestVars
  BY <1>4 DEF ingestVars, ExceptionsAreReal
<1>5. QED
  BY <1>1, <1>2, <1>3, <1>4 DEF IngestNext

(* PdfParser numbers its blocks, and leaves no exception of its own.       *)
LEMMA PdfEscapes ==
  ASSUME NEW f \in Inputs, f.format = "pdf"
  PROVE  /\ Parsed(f).code = "escaped" => PdfRaises(f.document, f.provider)
         /\ ~HasDuplicates(Parsed(f).blocks)
<1>1. Parsed(f) = ParsePdf(f.document, f.provider)
  BY DEF Parsed
<1>2. Parsed(f).code = PdfCode(f.document, f.provider)
  BY <1>1 DEF ParsePdf
<1>3. \A o \in DOMAIN LibraryCode : LibraryCode[o] = "escaped" => o = "raises"
  BY DEF LibraryCode
<1>4. f.document.opens \in DOMAIN LibraryCode /\ f.document.tables \in DOMAIN LibraryCode
  BY InputAssumption
<1>5. Parsed(f).code = "escaped" => PdfRaises(f.document, f.provider)
  BY <1>2, <1>3, <1>4 DEF PdfCode, PdfRaises
<1>6. \A i \in DOMAIN Parsed(f).blocks : Parsed(f).blocks[i].id = i
  <2>1. SUFFICES ASSUME NEW i \in DOMAIN Parsed(f).blocks
                 PROVE  Parsed(f).blocks[i].id = i
    OBVIOUS
  <2>2. Parsed(f).blocks[i] = BlockAt(f.document, i)
    BY <1>1 DEF ParsePdf
  <2>3. QED
    BY <2>2 DEF BlockAt
<1>7. QED
  BY <1>5, <1>6 DEF HasDuplicates

LEMMA HwpxDuplicates ==
  ASSUME NEW archive, archive.members \in Seq(ArchiveMember),
         ParseHwpx(archive).code = "ok", HasDuplicates(ParseHwpx(archive).blocks)
  PROVE  \E i \in Sections(archive.members) :
           \E t \in Tables(archive.members[i].xml) :
             ~IsWellAddressed(archive.members[i].xml, t)
<1> DEFINE members == archive.members
           blocks == ParseHwpx(archive).blocks
<1>1. PICK a, b \in DOMAIN blocks : a # b /\ blocks[a].id = blocks[b].id
  BY DEF HasDuplicates
<1>2. /\ DOMAIN blocks = ParagraphPlaces(members) \cup CellPlaces(members)
      /\ \A p \in DOMAIN blocks : blocks[p] = BlockOf(members, p)
  BY HwpxBlocksOf
<1>3. NumbersDiffer(members)
  BY HwpxCodes
<1> HIDE DEF blocks
<1>4. BlockOf(members, a).id = BlockOf(members, b).id
  BY <1>1, <1>2
<1>5. QED
  BY <1>1, <1>2, <1>3, <1>4, DuplicatesNeedBadTables

LEMMA RealExceptionsAreKnown == ExceptionsAreReal => EscapesAreKnown
<1> DEFINE members == input.document.members
           pdf == input.document
<1>1. ASSUME ExceptionsAreReal, raised = "untranslated"
      PROVE  \/ input.format = "hwpx" /\ IsBounded(members) /\ HwpxRaises(members)
             \/ input.format = "pdf" /\ PdfRaises(pdf, input.provider)
  <2>1. /\ input \in Inputs /\ input.format \in {"hwpx", "pdf"}
        /\ Parsed(input).code = "escaped"
    BY <1>1, InputAssumption DEF ExceptionsAreReal
  <2>2. CASE input.format = "hwpx"
    <3>1. Parsed(input) = ParseHwpx(input.document) /\ members \in Seq(ArchiveMember)
      BY <2>1, <2>2, InputAssumption DEF Parsed
    <3>2. IsBounded(members) /\ HwpxRaises(members)
      BY <2>1, <3>1, HwpxCodes
    <3>3. QED
      BY <2>2, <3>2
  <2>3. CASE input.format = "pdf"
    BY <2>1, <2>3, PdfEscapes
  <2>4. QED
    BY <2>1, <2>2, <2>3
<1>2. ASSUME ExceptionsAreReal, raised = "duplicate_block_id"
      PROVE  /\ input.format = "hwpx"
             /\ \E i \in Sections(members) : \E t \in Tables(members[i].xml) :
                  ~IsWellAddressed(members[i].xml, t)
  <2>1. /\ input \in Inputs /\ input.format \in {"hwpx", "pdf"}
        /\ Parsed(input).code = "ok" /\ HasDuplicates(Parsed(input).blocks)
    BY <1>2, InputAssumption DEF ExceptionsAreReal
  <2>2. input.format = "hwpx"
    BY <2>1, PdfEscapes
  <2>3. Parsed(input) = ParseHwpx(input.document) /\ members \in Seq(ArchiveMember)
    BY <2>1, <2>2, InputAssumption DEF Parsed
  <2>4. \E i \in Sections(members) : \E t \in Tables(members[i].xml) :
          ~IsWellAddressed(members[i].xml, t)
    BY <2>1, <2>3, HwpxDuplicates
  <2>5. QED
    BY <2>2, <2>4
<1>3. QED
  BY <1>1, <1>2 DEF EscapesAreKnown

(* A text is in the block of its home, and its home has a block.           *)
LEMMA ExtractedWordsAreInOneBlock == StoredIsExtracted => WordsAreInOneBlock
<1> DEFINE members == input.document.members
           places == ParagraphPlaces(members) \cup CellPlaces(members)
<1> SUFFICES ASSUME StoredIsExtracted, stored.exists, input.format = "hwpx",
                    NEW i \in Sections(members)
             PROVE  LET xml == members[i].xml IN
                    /\ \A n \in DOMAIN xml : <<i, n>> \in DOMAIN stored.blocks =>
                         stored.blocks[<<i, n>>].text =
                           Words(xml, {t \in Readable(xml) : Home(xml, t) = n})
                    /\ \A t \in Readable(xml) : xml[t].text # <<>> =>
                         <<i, Home(xml, t)>> \in DOMAIN stored.blocks
  BY DEF WordsAreInOneBlock
<1>1. stored # NoDocument
  BY DEF NoDocument
<1>2. /\ members \in Seq(ArchiveMember)
      /\ ParseHwpx(input.document).code = "ok"
      /\ stored.blocks = ParseHwpx(input.document).blocks
  BY <1>1, InputAssumption DEF StoredIsExtracted, Parsed
<1>3. /\ DOMAIN stored.blocks = places
      /\ \A p \in places : stored.blocks[p] = BlockOf(members, p)
  BY <1>2, HwpxBlocksOf
<1>4. \A n : BlockOf(members, <<i, n>>).text = Text(members[i].xml, n)
  BY DEF BlockOf
<1> HIDE DEF members
<1>5. \A n : <<i, n>> \in places =>
        stored.blocks[<<i, n>>].text =
          Words(members[i].xml, {t \in Readable(members[i].xml) :
                                   Home(members[i].xml, t) = n})
  <2>1. SUFFICES ASSUME NEW n, <<i, n>> \in places
                 PROVE  stored.blocks[<<i, n>>].text =
                          Words(members[i].xml,
                                {t \in Readable(members[i].xml) :
                                   Home(members[i].xml, t) = n})
    OBVIOUS
  <2>2. stored.blocks[<<i, n>>].text = Text(members[i].xml, n)
    BY <1>3, <1>4, <2>1
  <2>3. QED
    BY <1>2, <2>1, <2>2, TextsAreAtHome
<1>6. \A t \in Readable(members[i].xml) : members[i].xml[t].text # <<>> =>
        <<i, Home(members[i].xml, t)>> \in places
  BY <1>2, HomesAreStored
<1>7. QED
  BY <1>3, <1>5, <1>6

LEMMA InitExtracted == IngestInit => StoredIsExtracted
BY DEF IngestInit, StoredIsExtracted

LEMMA InitRaisedNothing == IngestInit => ExceptionsAreReal
BY DEF IngestInit, ExceptionsAreReal

(***************************************************************************)
(* Whatever the files, a stored rule turns a refusal that follows its      *)
(* condition at once into a requirement in the two known ways only.        *)
(***************************************************************************)
THEOREM IngestedRefusals == IngestSpec => []MissedRefusalsAreKnown
BY InitExtracted, StoredStep, ExtractedMissesAreKnown, PTL DEF IngestSpec

(***************************************************************************)
(* For PDF files of any number of pages: a page from which no block is     *)
(* stored is one that a person is asked to look at, and listed as a scan   *)
(* if there was no OCR.                                                    *)
(***************************************************************************)
THEOREM NoPageIsLost == IngestSpec => []PagesAreAccountedFor
BY InitExtracted, StoredStep, ExtractedPagesAreAccountedFor, PTL DEF IngestSpec

(***************************************************************************)
(* For HWPX files of any number of members and elements, and any PDF       *)
(* files: what leaves the ingest as an exception was raised by a library   *)
(* that decompresses, parses or reads a file within the limits, or comes   *)
(* from a badly addressed table of an HWPX file.                           *)
(***************************************************************************)
THEOREM OnlyKnownEscapes == IngestSpec => []EscapesAreKnown
<1>1. IngestInit => StoredIsExtracted /\ ExceptionsAreReal
  BY InitExtracted, InitRaisedNothing
<1>2. StoredIsExtracted /\ ExceptionsAreReal /\ [IngestNext]_ingestVars
        => (StoredIsExtracted /\ ExceptionsAreReal)'
  BY StoredStep, ExceptionsStep
<1>3. QED
  BY <1>1, <1>2, RealExceptionsAreKnown, PTL DEF IngestSpec

(***************************************************************************)
(* For sections of any shape: a stored block has the texts of its          *)
(* paragraph or cell and no others, and no text of one is lost.            *)
(***************************************************************************)
THEOREM NoWordIsLost == IngestSpec => []WordsAreInOneBlock
BY InitExtracted, StoredStep, ExtractedWordsAreInOneBlock, PTL DEF IngestSpec
=============================================================================

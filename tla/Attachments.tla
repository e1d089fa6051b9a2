----------------------------- MODULE Attachments -----------------------------
(***************************************************************************)
(* The attachments of one notice version: process_notice_attachments of    *)
(* concurrent collectors, DocumentIngestor, and the assessments that come  *)
(* to reference the rules generated from a document.                       *)
(*                                                                         *)
(* As in AssessmentReview, a SELECT sees its own instant and everything    *)
(* from the first write to the COMMIT is one atomic step.  The row a       *)
(* session loaded stays in its identity map: a flush sends an UPDATE of    *)
(* those columns only that differ from what the session LOADED.            *)
(*                                                                         *)
(* Downloads and parsers are their outcomes.  A document, its blocks,      *)
(* evidence and generated rules are one generation number, new with every  *)
(* parse.  parse_error_code is left out, and requires_review, which is     *)
(* TRUE of every row but the pending ones whatever the order of outcomes.  *)
(***************************************************************************)
EXTENDS Naturals, FiniteSets

CONSTANTS
  Attachments,  \* attachments.id
  Collectors,   \* concurrent collections of the notice
  Limit,        \* _MAX_ATTACHMENTS_PER_NOTICE
  MaxAttempts,  \* bound: attempts of an attachment
  MaxParses     \* bound: stored parses

ASSUME AttachmentAssumption ==
  /\ Attachments \subseteq Nat /\ IsFiniteSet(Attachments)
  /\ Limit \in Nat \ {0} /\ MaxAttempts \in Nat /\ MaxParses \in Nat

Retryable == {"pending", "failed", "missing"}

Finished == {"parsed", "requires_review"}

Row == [status: Retryable \cup Finished, attempts: Nat]

VARIABLES
  row,         \* attachments: parse_status and attempt_count
  document,    \* live generation of an attachment's document, or 0
  ruled,       \* generations that have generated rules
  assessed,    \* generations whose rules rule_assessments reference
  session,     \* state of each collector
  parses,      \* generations stored so far
  overlapped,  \* history: attachments two collectors ever held at once
  clean        \* history: no collection was aborted or met another one

vars == <<row, document, ruled, assessed, session, parses, overlapped, clean>>

(* What a session holds: the rows it loaded and has not dealt with.        *)
IsSession(s) ==
  /\ s.pc \in {"idle", "selected", "working"}
  /\ DOMAIN s.loaded \subseteq Attachments
  /\ s.loaded \in [DOMAIN s.loaded -> Row]

NoSession == [pc |-> "idle", loaded |-> [a \in {} |-> a]]

Held(c) == DOMAIN session[c].loaded

Init ==
  /\ row = [a \in Attachments |-> [status |-> "pending", attempts |-> 0]]
  /\ document = [a \in Attachments |-> 0]
  /\ ruled = {} /\ assessed = {} /\ parses = 0
  /\ session = [c \in Collectors |-> NoSession]
  /\ overlapped = {} /\ clean = TRUE

-----------------------------------------------------------------------------
(* Selection: pending rows first, then the fewest attempts, then the id.   *)

Rank(r) == IF r.status = "pending" THEN 0 ELSE 1

(* Seeded fault: no order but that of the table.                           *)
FaultByIdOnly(rows, a, b) == a < b

Precedes(rows, a, b) ==
  \/ Rank(rows[a]) < Rank(rows[b])
  \/ /\ Rank(rows[a]) = Rank(rows[b])
     /\ \/ rows[a].attempts < rows[b].attempts
        \/ rows[a].attempts = rows[b].attempts /\ a < b

Open == {a \in Attachments : row[a].status \in Retryable}

Selected ==
  {a \in Open : Cardinality({b \in Open : Precedes(row, b, a)}) < Limit}

Select(c) ==
  /\ session[c].pc = "idle"
  /\ Selected # {}
  /\ \A a \in Selected : row[a].attempts < MaxAttempts
  /\ session' = [session EXCEPT ![c] =
       [pc |-> "selected", loaded |-> [a \in Selected |-> row[a]]]]
  /\ overlapped' = overlapped \cup
       {a \in Selected : \E d \in Collectors \ {c} : a \in Held(d)}
  /\ clean' = (clean /\ \A d \in Collectors : session[d].pc = "idle")
  /\ UNCHANGED <<row, document, ruled, assessed, parses>>

(* attempt_count of what was loaded, plus one, in a transaction of its own *)
Bump(c) ==
  LET loaded == session[c].loaded
      bumped == [a \in DOMAIN loaded |->
                   [loaded[a] EXCEPT !.attempts = @ + 1]]
  IN
  /\ session[c].pc = "selected"
  /\ row' = [a \in Attachments |->
       IF a \in Held(c) THEN [row[a] EXCEPT !.attempts = bumped[a].attempts]
       ELSE row[a]]
  /\ session' = [session EXCEPT ![c] = [pc |-> "working", loaded |-> bumped]]
  /\ UNCHANGED <<document, ruled, assessed, parses, overlapped, clean>>

-----------------------------------------------------------------------------
(* Outcomes.                                                               *)

(* a is the first row of the list c has not dealt with.                    *)
IsNext(c, a) ==
  /\ session[c].pc = "working"
  /\ a \in Held(c)
  /\ \A b \in Held(c) \ {a} : Precedes(session[c].loaded, a, b)

Drop(c, a) ==
  LET rest == Held(c) \ {a} IN
  session' = [session EXCEPT ![c] =
    IF rest = {} THEN NoSession
    ELSE [pc |-> "working", loaded |-> [b \in rest |-> session[c].loaded[b]]]]

(* The flush: the status is sent only when it differs from the loaded one. *)
Flushed(c, a, status) ==
  [row[a] EXCEPT !.status =
     IF session[c].loaded[a].status = status THEN @ ELSE status]

(* Seeded fault: foreign keys are not enforced.                            *)
FaultUnreferenced(a) == TRUE

(* The generated rules of a may be deleted: foreign_keys=ON.               *)
Deletable(a) == document[a] \notin assessed

(* Seeded faults: the old document stays, or a failure asks for review.    *)
FaultKeepsDocument(c, a, status) ==
  /\ row' = [row EXCEPT ![a] = Flushed(c, a, status)]
  /\ UNCHANGED document

FaultAsksReview(c, a, status) ==
  /\ row' = [row EXCEPT ![a] = Flushed(c, a, "requires_review")]
  /\ document' = [document EXCEPT ![a] = 0]

(* mark_missing, mark_failed and the parse failure of ingest.              *)
StoreFailure(c, a, status) ==
  /\ row' = [row EXCEPT ![a] = Flushed(c, a, status)]
  /\ document' = [document EXCEPT ![a] = 0]

FailAttachment(c, a) ==
  /\ IsNext(c, a)
  /\ Deletable(a)
  /\ \E status \in {"missing", "failed"} : StoreFailure(c, a, status)
  /\ Drop(c, a)
  /\ UNCHANGED <<ruled, assessed, parses, overlapped, clean>>

(* Seeded faults: a parse that needs review stays to be retried, or gets   *)
(* the status of a rule that needs review.                                 *)
FaultRetries(warned) == IF warned THEN "failed" ELSE "parsed"

FaultStatusName(warned) == IF warned THEN "review_required" ELSE "parsed"

(* A warning of the parser asks for review.                                *)
ParsedStatus(warned) == IF warned THEN "requires_review" ELSE "parsed"

(* A document that is already there keeps its row; the rest is replaced.   *)
StoreParsed(c, a) ==
  /\ IsNext(c, a)
  /\ parses < MaxParses
  /\ Deletable(a)
  /\ \E warned, rules \in BOOLEAN :
       /\ row' = [row EXCEPT ![a] = Flushed(c, a, ParsedStatus(warned))]
       /\ ruled' = IF rules THEN ruled \cup {parses + 1} ELSE ruled
  /\ document' = [document EXCEPT ![a] = parses + 1]
  /\ parses' = parses + 1
  /\ Drop(c, a)
  /\ UNCHANGED <<assessed, overlapped, clean>>

(***************************************************************************)
(* A crash, or an exception that is no DocumentIngestError: a body that    *)
(* breaks off, a locked database, a foreign key that still references the  *)
(* rules to delete.  The open transaction rolls back, the rest of the list *)
(* is not looked at.                                                       *)
(***************************************************************************)
AbortCollection(c) ==
  /\ session[c].pc # "idle"
  /\ session' = [session EXCEPT ![c] = NoSession]
  /\ clean' = FALSE
  /\ UNCHANGED <<row, document, ruled, assessed, parses, overlapped>>

(* A search or reverse match persists rule assessments of generated rules. *)
Assess(a) ==
  /\ document[a] \in ruled \ assessed
  /\ assessed' = assessed \cup {document[a]}
  /\ UNCHANGED <<row, document, ruled, session, parses, overlapped, clean>>

CollectorStep(c) ==
  \/ Select(c)
  \/ Bump(c)
  \/ \E a \in Attachments : FailAttachment(c, a) \/ StoreParsed(c, a)
  \/ AbortCollection(c)

Next ==
  \/ \E c \in Collectors : CollectorStep(c)
  \/ \E a \in Attachments : Assess(a)

Spec == Init /\ [][Next]_vars

-----------------------------------------------------------------------------
(* Properties.                                                             *)

(* Every variable keeps the shape of its rows.                             *)
TypeOK ==
  /\ row \in [Attachments -> Row]
  /\ document \in [Attachments -> 0..parses]
  /\ ruled \subseteq 1..parses
  /\ assessed \subseteq ruled
  /\ parses \in Nat
  /\ DOMAIN session = Collectors
  /\ \A c \in Collectors : IsSession(session[c])
  /\ overlapped \subseteq Attachments
  /\ clean \in BOOLEAN

(***************************************************************************)
(* However collectors interleave and columns are left out of flushes, a    *)
(* document is never behind an attachment that would be downloaded again:  *)
(* its rules, once assessed, would make every retry fail.                  *)
(***************************************************************************)
DocumentsAreFinished ==
  \A a \in Attachments : document[a] # 0 => row[a].status \in Finished

(***************************************************************************)
(* Rules that an assessment references stay: no failure and no new parse   *)
(* of any collector takes the document behind them away.                   *)
(***************************************************************************)
AssessedRulesSurvive ==
  assessed \subseteq {document[a] : a \in Attachments}

(***************************************************************************)
(* An attachment no two collectors ever held at once is finished exactly   *)
(* when it has a document, across retries, aborts and crashes.             *)
(***************************************************************************)
SoleCollectorIsExact ==
  \A a \in Attachments \ overlapped :
    row[a].status \in Finished <=> document[a] # 0

(* A row that failed was tried once more than any other open one, at most. *)
TriesAreFair ==
  \A a, b \in Open :
    row[a].status # "pending" => row[a].attempts <= row[b].attempts + 1

(***************************************************************************)
(* As long as collections run one after the other and to their end, the    *)
(* limit starves nobody: no failing attachment is tried a second time more *)
(* often than any other that is still open.                                *)
(***************************************************************************)
RetriesAreFair == clean => TriesAreFair

(***************************************************************************)
(* The strengthening.  A collector holds rows it loaded as retryable; an   *)
(* attachment no two ever held at once has one holder at most, and still   *)
(* the status this one loaded.                                             *)
(***************************************************************************)
HoldsRetryable ==
  \A c \in Collectors : \A a \in Held(c) :
    session[c].loaded[a].status \in Retryable

SoleHolder ==
  \A a \in Attachments \ overlapped : \A c, d \in Collectors :
    a \in Held(c) /\ a \in Held(d) => c = d

HolderIsUpToDate ==
  \A a \in Attachments \ overlapped : \A c \in Collectors :
    a \in Held(c) => session[c].loaded[a].status = row[a].status

AttachmentInv ==
  /\ TypeOK
  /\ DocumentsAreFinished
  /\ AssessedRulesSurvive
  /\ SoleCollectorIsExact
  /\ HoldsRetryable
  /\ SoleHolder
  /\ HolderIsUpToDate

(***************************************************************************)
(* While every collection has met no other and come to its end: there is   *)
(* one at a time and it holds the rows as they are, those it selected come *)
(* before all others, and a pending row has been tried at most once, by    *)
(* the collection that is working on it.                                   *)
(***************************************************************************)
OneAtATime ==
  \A c, d \in Collectors :
    session[c].pc # "idle" /\ session[d].pc # "idle" => c = d

HoldsTheRows ==
  \A c \in Collectors : \A a \in Held(c) : session[c].loaded[a] = row[a]

SelectedComeFirst ==
  \A c \in Collectors : session[c].pc = "selected" =>
    \A a \in Held(c), b \in Open \ Held(c) : Precedes(row, a, b)

PendingIsUntried ==
  \A a \in Attachments : row[a].status = "pending" =>
    \/ row[a].attempts = 0
    \/ /\ row[a].attempts = 1
       /\ \E c \in Collectors : session[c].pc = "working" /\ a \in Held(c)

IdleHoldsNothing ==
  \A c \in Collectors : session[c].pc = "idle" => Held(c) = {}

CleanInv ==
  OneAtATime /\ HoldsTheRows /\ SelectedComeFirst /\ PendingIsUntried /\ TriesAreFair

FairInv == IdleHoldsNothing /\ (clean => CleanInv)

-----------------------------------------------------------------------------
(***************************************************************************)
(* repositories.py:165 promises "durable failure states".  A collector     *)
(* that loaded a failed row and fails again deletes the document another   *)
(* collector stored meanwhile, but does not send the status it believes to *)
(* be there already: the row stays parsed, has no document and is never    *)
(* downloaded again.                                                       *)
(***************************************************************************)
FailureStateIsDurable ==
  \A a \in Attachments : row[a].status \in Finished => document[a] # 0
=============================================================================

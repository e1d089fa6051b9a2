---------------------------- MODULE ReviewLedger ----------------------------
(***************************************************************************)
(* What the review of assessments promises: every accepted review happens  *)
(* in one instant.  It starts from the assessment as it stands, after the  *)
(* last accepted review and with the status it has, adds one entry to a    *)
(* ledger that is never edited, and leaves the assessment reviewed, until  *)
(* a change of the notice asks for a human again.                          *)
(*                                                                         *)
(* An assessment that was reopened does not stand as its last review left  *)
(* it: it gets no further review.                                          *)
(***************************************************************************)
EXTENDS Naturals, Sequences

CONSTANTS
  Assessments,
  Programs,
  ProgramOf,  \* program of an assessment
  Verdicts    \* sets of overrides an assessment may be given

VARIABLES
  stored,  \* assessments made so far
  status,  \* review status of each
  ledger   \* entries [before, after] of each, oldest first

vars == <<stored, status, ledger>>

Init ==
  /\ stored = {}
  /\ status = [a \in Assessments |-> "automatic"]
  /\ ledger = [a \in Assessments |-> <<>>]

Persist(a) ==
  /\ a \notin stored
  /\ stored' = stored \cup {a}
  /\ \E st \in {"automatic", "review_required"} :
       status' = [status EXCEPT ![a] = st]
  /\ UNCHANGED ledger

Change(p) ==
  /\ status' = [a \in Assessments |->
       IF a \in stored /\ ProgramOf[a] = p /\ status[a] = "reviewed"
       THEN "review_required" ELSE status[a]]
  /\ UNCHANGED <<stored, ledger>>

Latest(a) ==
  IF ledger[a] = <<>> THEN [status |-> status[a], overrides |-> {}]
  ELSE ledger[a][Len(ledger[a])].after

Review(a, overrides) ==
  /\ a \in stored
  /\ status' = [status EXCEPT ![a] = "reviewed"]
  /\ Latest(a).status = status[a]
  /\ ledger' = [ledger EXCEPT ![a] = Append(@,
       [before |-> Latest(a),
        after  |-> [status |-> "reviewed", overrides |-> overrides]])]
  /\ UNCHANGED stored

Next ==
  \/ \E a \in Assessments : Persist(a)
  \/ \E p \in Programs : Change(p)
  \/ \E a \in Assessments : \E overrides \in Verdicts[a] : Review(a, overrides)

Spec == Init /\ [][Next]_vars
=============================================================================

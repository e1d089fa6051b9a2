------------------------------- MODULE Matching -------------------------------
(***************************************************************************)
(* What a search presents: the programs it could assess, by verdict and    *)
(* then by deadline (matching/forward.py, cli/search.py).  Days that are   *)
(* left are compared as the dates they are counted to; the programs have   *)
(* no reference date of their own and are assessed for the day.            *)
(***************************************************************************)
EXTENDS AssessmentEngine

CONSTANT Catalogue  \* programs: id, application_end and rules

ASSUME CatalogueAssumption ==
  /\ IsFiniteSet(Catalogue)
  /\ \A q \in Catalogue : q.id \in Nat /\ q.end \in Date \cup {Nothing}

(* A program with input errors is reported apart and not ranked.           *)
Ranked == {q \in Catalogue : InputErrors(q.rules) = {}}

(* Seeded fault: a deadline that is missing counts as zero days left.      *)
FaultDueToday(q, day) ==
  CASE q.end = Nothing -> [state |-> "open", date |-> day]
    [] q.end # Nothing /\ Before(q.end, day) -> [state |-> "expired", date |-> q.end]
    [] OTHER -> [state |-> "open", date |-> q.end]

DeadlineFor(q, day) ==
  CASE q.end = Nothing -> [state |-> "missing", date |-> Nothing]
    [] q.end # Nothing /\ Before(q.end, day) -> [state |-> "expired", date |-> q.end]
    [] OTHER -> [state |-> "open", date |-> q.end]

StatusRank(final) ==
  CASE final = "eligible"     -> 0
    [] final = "conditional"  -> 1
    [] final = "needs_review" -> 2
    [] final = "ineligible"   -> 3

DeadlineRank(state) ==
  CASE state = "open"    -> 0
    [] state = "missing" -> 1
    [] state = "expired" -> 2

Final(q, day) == Assessment(profile, q.rules, day).final

(* The days left of a program that is open, and then the id.               *)
ClosesFirst(a, b, day) ==
  LET s == DeadlineFor(a, day)
      t == DeadlineFor(b, day)
  IN \/ DeadlineRank(s.state) < DeadlineRank(t.state)
     \/ s.state = "open" /\ t.state = "open" /\ Before(s.date, t.date)
     \/ /\ s.state = t.state
        /\ s.state = "open" => s.date = t.date
        /\ a.id < b.id

RanksBefore(a, b, day) ==
  LET s == StatusRank(Final(a, day))
      t == StatusRank(Final(b, day))
  IN s < t \/ (s = t /\ ClosesFirst(a, b, day))

-----------------------------------------------------------------------------
(***************************************************************************)
(* From one day to the next, a program overtakes another only because a    *)
(* verdict has changed or the deadline of the other has passed: nothing    *)
(* else that depends on the day moves the list of a search.                *)
(***************************************************************************)
HasJustClosed(q) ==
  /\ DeadlineFor(q, reference).state # "expired"
  /\ DeadlineFor(q, reference').state = "expired"

RankingMovesByReason ==
  [][\A a, b \in Ranked :
       RanksBefore(a, b, reference) /\ ~RanksBefore(a, b, reference') =>
         \/ Final(a, reference) # Final(a, reference')
         \/ Final(b, reference) # Final(b, reference')
         \/ HasJustClosed(a)]_vars
=============================================================================

---------------------------- MODULE Eligibility ----------------------------
(***************************************************************************)
(* The finite vocabularies of an eligibility assessment and the fixed      *)
(* precedence that folds condition outcomes into one final status          *)
(* (domain/enums.py, rules/aggregate.py).                                  *)
(***************************************************************************)

ConditionStatus ==
  {"satisfied", "unsatisfied", "conditional", "unknown", "conflict"}

FinalStatus == {"eligible", "conditional", "ineligible", "needs_review"}

ReviewStatus == {"automatic", "review_required", "reviewed"}

(***************************************************************************)
(* aggregate_final_status: the code takes a sequence but only asks which   *)
(* statuses occur in it, so the operator takes the set of them.            *)
(***************************************************************************)
AggregateFinalStatus(statuses) ==
  CASE statuses = {}                             -> "needs_review"
    [] "unsatisfied" \in statuses                -> "ineligible"
    [] /\ "unsatisfied" \notin statuses
       /\ statuses \cap {"unknown", "conflict"} # {} -> "needs_review"
    [] /\ statuses # {}
       /\ statuses \cap {"unsatisfied", "unknown", "conflict"} = {}
       /\ "conditional" \in statuses             -> "conditional"
    [] OTHER                                     -> "eligible"
=============================================================================

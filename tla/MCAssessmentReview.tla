------------------------ MODULE MCAssessmentReview ------------------------
(***************************************************************************)
(* A small instance: two assessments of one program, the first with two    *)
(* conditions, the second with one.  Each assessment accepts one form that *)
(* the other refuses as foreign (or as unknown, while the owner is not     *)
(* stored); the other two forms are refused by both.                       *)
(***************************************************************************)
EXTENDS AssessmentReview, TLC

CONSTANTS a1, a2, c1, c2, c3, p1, r1, r2

MCOwnerOf == [c \in RuleAssessments |-> IF c = c3 THEN a2 ELSE a1]
MCRuleOf == [c \in RuleAssessments |-> IF c = c2 THEN 2 ELSE 1]
MCAutomaticStatus ==
  [c \in RuleAssessments |-> IF c = c2 THEN "unknown" ELSE "satisfied"]
MCProgramOf == [a \in Assessments |-> p1]

Asks(ra, rule, st) == [ra |-> ra, rule |-> rule, status |-> st]

MCForms ==
  {<<Asks(c2, 2, "unsatisfied")>>,
   <<Asks(c3, 1, "satisfied")>>,
   <<Asks(BadId, 1, "unknown")>>,
   <<Asks(c1, 1, "satisfied"), Asks(c1, 1, "unsatisfied")>>}

PlainForms == {<<>>, <<Asks(c2, 2, "unsatisfied")>>}

Symmetry == Permutations(Reviewers)
=============================================================================

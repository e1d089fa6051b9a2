--------------------------- MODULE MCCaseWorkflow ---------------------------
(* Two clerks on one case, or one clerk on two; two clock values.          *)
EXTENDS CaseWorkflow, TLC

CONSTANTS k1, k2

Symmetry == Permutations(Clerks)
=============================================================================

SPECIFICATION Spec
CONSTANTS
  k1 = k1  k2 = k2
  Cases = {1}
  CaseIds = {1, 2}
  Clerks = {k1, k2}
  Times = {1, 2}
INVARIANTS
  LedgerReplaysToRow
PROPERTIES
  OnlyOvertakenIsRefused
  FollowsLifecycle
SYMMETRY Symmetry

SPECIFICATION Spec
CONSTANTS
  c1 = c1  c2 = c2
  Attachments = {1, 2, 3}
  Collectors = {c1, c2}
  Limit = 2
  MaxAttempts = 2
  MaxParses = 2
INVARIANTS
  TypeOK
  DocumentsAreFinished
  AssessedRulesSurvive
  SoleCollectorIsExact
  RetriesAreFair
SYMMETRY Symmetry
CHECK_DEADLOCK FALSE

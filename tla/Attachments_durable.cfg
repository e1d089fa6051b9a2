SPECIFICATION Spec
CONSTANTS
  c1 = c1  c2 = c2
  Attachments = {1}
  Collectors = {c1, c2}
  Limit = 20
  MaxAttempts = 3
  MaxParses = 1
INVARIANTS
  FailureStateIsDurable
CHECK_DEADLOCK FALSE

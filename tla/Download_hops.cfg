SPECIFICATION FetchFairSpec
CONSTANTS
  Urls <- MCUrls
  MaxRedirects = 3
  MaxBytes = 3
  MaxChunk = 2
INVARIANTS
  BudgetsHold
  ResponsesAreClosed
PROPERTIES
  FetchEnds
CHECK_DEADLOCK FALSE

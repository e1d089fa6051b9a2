SPECIFICATION IngestSpec
CONSTANTS
  MaxEntries = 3
  MaxEntrySize = 2
  MaxTotalSize = 4
  MaxDecodeRounds = 2
  MaxPages = 2
  MinTextChars = 2
  Inputs <- MCInputs
INVARIANTS
  EscapesAreKnown
  PagesAreAccountedFor
  WordsAreInOneBlock
  MissedRefusalsAreKnown
CHECK_DEADLOCK FALSE

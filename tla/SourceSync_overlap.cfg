SPECIFICATION Spec
CONSTANTS
  p1 = p1  p2 = p2
  Sources = {"kstartup", "bizinfo"}
  Selections <- MCSelections
  KeySets <- MCKeySets
  Syncs = {p1, p2}
  PageItems = {1}
  MaxPages = 2
  MaxRuns = 3
INVARIANTS
  TypeOK
  FreshMeansComplete
  EveryRunEnds
  InventoryFollowsFreshness
  KnownFailuresAreIsolated
CHECK_DEADLOCK FALSE
SYMMETRY Symmetry

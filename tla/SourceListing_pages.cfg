SPECIFICATION Spec
CONSTANTS
  n1 = n1  n2 = n2  n3 = n3  n4 = n4  n5 = n5
  Notices = {n1, n2, n3, n4, n5}
  PageSizes = {1, 2, 3}
  MaxPageSize = 2
  MaxPages = 3
  MaxEdits = 3
  Unstated = Unstated
INVARIANTS
  FreshMissesOnlyTheMoved
CHECK_DEADLOCK FALSE
SYMMETRY Symmetry

SPECIFICATION Spec
CONSTANTS
  a1 = a1  a2 = a2  c1 = c1  c2 = c2  c3 = c3  p1 = p1  r1 = r1  r2 = r2
  BadId = BadId
  Assessments = {a1, a2}
  Programs = {p1}
  RuleAssessments = {c1, c2, c3}
  Reviewers = {r1, r2}
  ProgramOf <- MCProgramOf
  OwnerOf <- MCOwnerOf
  RuleOf <- MCRuleOf
  AutomaticStatus <- MCAutomaticStatus
  Forms <- MCForms
  MaxReviews = 2
  MaxChanges = 1
INVARIANTS
  ReviewHistoryIsLinear
  AcceptedOverridesAreOwn
  ConflictsAreReal
PROPERTIES
  NoReopeningIsOverwritten
  ReviewsAreAtomic
SYMMETRY Symmetry

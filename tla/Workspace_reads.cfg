SPECIFICATION Spec
CONSTANTS
  s1 = s1  s2 = s2  a1 = a1
  Sessions = {s1, s2}
  Companies <- CompanyProfiles
  Attachments = {a1}
  Notices <- SourceNotices
  First <- FirstNotice
  MaxPublished = 2
  MaxParses = 2
  MaxMatches = 1
  MaxReviews = 2
  MaxMoves = 1
INVARIANTS
  AssessmentsFitTheirNotices
  ReportsAreExplained
PROPERTY
  AcceptedReviewsSawTheLedger
SYMMETRY Symmetry

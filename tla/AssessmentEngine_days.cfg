CONSTANTS
  Nothing = Nothing
  Blank = Blank
  seoul = seoul
  busan = busan
  revenue = revenue
  Calendar <- MCCalendar
  Profiles <- MCProfiles
  Pool <- MCPool
  Catalogue <- MCCatalogue
  MaxRules = 3
SPECIFICATION Spec
INVARIANTS
  MonthsAreCompleted
  PromotionIgnoresOrder
  ContradictionsAreNotDecided
  SilenceNeverQualifies
  RoadmapExplainsTheVerdict
PROPERTIES
  VerdictsAgeOneWay
  RankingMovesByReason
CHECK_DEADLOCK FALSE

SPECIFICATION Spec
CONSTANTS
  i1 = i1  i2 = i2  s1 = s1  s2 = s2  r1 = r1  r2 = r2
  NoDate = NoDate
  Identities = {i1, i2}
  SourceOf <- TwoSources
  NoticeId <- MCNoticeId
  Contents <- MCContents
  Folded <- MCFolded
  Similar <- MCSimilar
  Ingestors = {r1, r2}
  MaxAttempts = 2
  MaxCommits = 3
INVARIANTS
  TypeOK
  DerivedStateIsCurrent
  SoleIngestsChain
  LostRacesHaveWinners
SYMMETRY Symmetry

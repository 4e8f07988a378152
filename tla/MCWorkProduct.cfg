CONSTANTS
  l1 = l1
  l2 = l2
  l3 = l3
  Launches <- MCLaunches
  MaxCommits = 5
  MaxEdits = 2
  MaxBoards = 3
  Scenes <- MCScenes
SPECIFICATION WorkProductSpec
SYMMETRY MCSymmetry
INVARIANTS
  SeedIsSound
  VerdictIsExact
PROPERTIES
  MirrorIsRewrittenOnlyBlindly
  HostKeepsItsOwn
CHECK_DEADLOCK FALSE

CONSTANTS
  Ids <- MCIds
  Active <- MCActive
  Icebox = "Icebox"
  Inserted <- MCInserted
  Texts <- MCTexts
  MaxTouches = 2
  MaxWrites = 2
  MaxSteps = 3
  Labels <- MCLabels
  Awkward <- MCAwkward
  Fronts <- MCFronts
  MaxReforms = 3
  MaxRevisions = 2
  Writers <- MCWriters
  Units <- MCUnits
  Text <- MCText
  First <- MCFirst
  MaxReplaces = 4
  MaxAppends = 4
  Moments <- MCMoments
  Stamping <- MCStamping
  LastDay = 49000
  MaxAge = 259200
SPECIFICATION MCSpec
INVARIANTS
  RewriteIsFaithful
  ReadersSeeWhole
PROPERTIES
  CardsSurvive
  LintSettles
  NoteKeepsItsWord
  StampsTellTheTime
CHECK_DEADLOCK FALSE

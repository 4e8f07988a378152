CONSTANTS
  TurnIds <- MCTurnIds
  Statuses <- MCStatuses
  MaxNudges = 2
  MaxReinjections = 2
  MaxOpens = 2
SPECIFICATION FairSpec
INVARIANTS
  TypeOK
  RecordTracksTurn
  StoppedTurnIsWatched
  OneGraceLoopPerTurn
PROPERTIES
  StoppedTurnResolves
  KeepsThePromise

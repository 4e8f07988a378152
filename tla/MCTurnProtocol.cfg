CONSTANTS
  TurnIds <- MCTurnIds
  Statuses <- MCStatuses
  MaxNudges = 0
  MaxReinjections = 1
  MaxOpens = 2
  Retries = 1
  UntilModes <- MCBoth
  Tags <- MCBoth
  MaxReports = 1
  MaxAborts = 1
  MaxMisses = 1
SPECIFICATION FairProtocolSpec
INVARIANTS
  ProtocolTypeOK
  VerdictsAreTrue
PROPERTIES
  DriveReturns
  RerunsOnlyAsNewTurn
CHECK_DEADLOCK FALSE

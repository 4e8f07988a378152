CONSTANTS
  t1 = t1
  t2 = t2
  TurnIds <- MCTurnIds
  Statuses <- MCStatuses
  Tasks <- MCTasks
  MaxNudges = 1
  MaxReinjections = 1
  MaxOpens = 2
  MaxInputs = 3
  MaxReports = 1
SPECIFICATION ServerSpec
SYMMETRY TaskSymmetry
INVARIANTS
  TimersAreAccountedFor
  DeliveredUntilBegun
  EffectsCatchUp
CHECK_DEADLOCK FALSE

CONSTANTS
  l1 = l1
  l2 = l2
  Launches <- MCLaunches
  Nodes <- MCNodes
  Siblings = {1, 2, 3}
  Scenes <- MCScenes
SPECIFICATION ProvisionSpec
INVARIANTS
  NothingIsLeftHalfMade
  StatusIsTrue
  CommandsReachTheInstance
  GateForetells
PROPERTIES
  MarkerGoesAway
CHECK_DEADLOCK FALSE

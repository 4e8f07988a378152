CONSTANTS
  p1 = p1
  p2 = p2
  Drivers <- MCTwoDrivers
  HbDeadline = 1
  MaxTurns = 2
  MaxTime = 2
SPECIFICATION LivenessSpec
SYMMETRY DriverSymmetry
INVARIANTS
  IdsSurviveDamage
  NoPhantomStream
CHECK_DEADLOCK FALSE

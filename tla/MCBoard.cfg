CONSTANTS
  u1 = u1
  u2 = u2
  Cards <- MCCards
  Blockers <- MCBlockers
  Created <- MCCreated
  Users <- MCUsers
  MaxCommands = 2
SPECIFICATION BoardSpec
SYMMETRY UserSymmetry
INVARIANTS
  BoardAndNotesAgree
  ReadyInDependencyOrder
  OneImplementorPerCard
CHECK_DEADLOCK FALSE

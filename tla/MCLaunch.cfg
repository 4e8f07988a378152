CONSTANTS
  p1 = p1
  p2 = p2
  q1 = q1
  cid1 = cid1
  cid2 = cid2
  port1 = port1
  port2 = port2
  Names <- MCNames
  Starters <- MCStarters
  Stoppers <- MCStoppers
  Cids <- MCCids
  Ports <- MCPorts
  Cards <- MCCards
  Faults = TRUE
SPECIFICATION LaunchSpec
SYMMETRY MCSymmetry
INVARIANTS
  ClaimsStayApart
  RunningIsOnRecord
CHECK_DEADLOCK FALSE

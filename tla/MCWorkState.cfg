CONSTANTS
  Senders <- MCBoth
  TurnBeat <- MCTurnBeat
  Label <- MCLabel
  Interval <- MCInterval
  Timeout <- MCTimeout
  Multiplier = 3
  SendTimeout = 1
  MaxHeld = 1
  Lingering = TRUE
  MaxFaults = 1
SPECIFICATION WorkSpec
INVARIANTS
  ReportedAsItIs
  ActiveIsRecent
  LiveTaskIsNotStale
CHECK_DEADLOCK FALSE

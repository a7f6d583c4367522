CONSTANTS
  NumFiles = 3
  MaxUnits = 1
  Breaks <- BreaksOf1
  MaxSend = 1
  Troubles = {"start", "stat", "burst", "late", "regrow", "unseen", "nobackup", "overrun"}
SPECIFICATION Running
INVARIANTS TypeOK
PROPERTIES NeverDropped KeepsPolling
CHECK_DEADLOCK FALSE

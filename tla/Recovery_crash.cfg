CONSTANTS
  NumFiles = 2
  MaxUnits = 2
  Breaks <- BreaksOf
  MaxSend = 1
  Troubles = {"start", "late", "partial", "torn", "nobackup", "overrun"}
  MaxCrashes = 1
SPECIFICATION RSpec
INVARIANTS RTypeOK NoLossInCurrent RecoveryInv
PROPERTIES RestartLosesOnlyQueued RereadsOnlyAfterCrash
CHECK_DEADLOCK FALSE

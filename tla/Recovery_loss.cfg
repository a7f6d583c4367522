CONSTANTS
  NumFiles = 1
  MaxUnits = 2
  Breaks <- BreaksOf
  MaxSend = 1
  Troubles = {}
  MaxCrashes = 1
SPECIFICATION RSpec
PROPERTIES RestartLosesNothing
CHECK_DEADLOCK FALSE

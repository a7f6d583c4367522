CONSTANTS
  NumFiles = 2
  MaxUnits = 3
  Breaks <- BreaksOf3
  MaxSend = 2
  Troubles = {"start", "partial", "torn", "overrun"}
SPECIFICATION Spec
INVARIANTS LosesOnlyUnended CutOnlyByWrites
PROPERTIES NeverReread CheckpointCovered
CHECK_DEADLOCK FALSE

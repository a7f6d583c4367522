CONSTANTS
  NumFiles = 2
  MaxUnits = 2
  Breaks <- BreaksOf2
  MaxSend = 2
  Troubles = {"stat"}
SPECIFICATION Spec
INVARIANTS NoLoss

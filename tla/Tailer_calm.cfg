CONSTANTS
  NumFiles = 3
  MaxUnits = 2
  Breaks <- BreaksOf2
  MaxSend = 1
  Troubles = {"overrun"}
SPECIFICATION Spec
INVARIANTS CalmInv NoLoss QueueInOrder
PROPERTIES Delivers

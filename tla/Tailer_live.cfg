CONSTANTS
  NumFiles = 2
  MaxUnits = 2
  Breaks <- BreaksOf2
  MaxSend = 1
  Troubles = {}
SPECIFICATION LiveSpec
PROPERTIES Delivered

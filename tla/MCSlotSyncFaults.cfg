SPECIFICATION Spec
CONSTANTS
  MinSize = 1
  MaxWrites = 2
  MaxResizes = 0
  QueueLen = 1
  Tries = 2
  MaxFaults = 1
  Lossy <- MovedData
  Hasty = {}
  Short <- Anywhere
  Asks <- AllTemps
  MaxWire = 1
INVARIANTS Custody Intact CleanShown
PROPERTIES Forward
CHECK_DEADLOCK FALSE

SPECIFICATION Spec
CONSTANTS
  MinSize = 1
  MaxWrites = 1
  MaxResizes = 1
  QueueLen = 1
  Tries = 1
  MaxFaults = 1
  Lossy <- SizeOrRetrieve
  Hasty = {}
  Short <- Anywhere
  Asks = {"hot"}
  MaxWire = 1
INVARIANTS Whole
CHECK_DEADLOCK FALSE

SPECIFICATION FairSpec
CONSTANTS
  MinSize = 1
  MaxWrites = 2
  MaxResizes = 2
  QueueLen = 1
  Tries = 2
  MaxFaults = 1
  Lossy <- RetriedOrSize
  Hasty = {}
  Short = {}
  Asks = {"hot"}
  MaxWire = 1
INVARIANTS SizesAgree
PROPERTIES CatchesUp
CHECK_DEADLOCK FALSE

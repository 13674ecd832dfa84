SPECIFICATION FairSpec
CONSTANTS
  Long = 4
  StreamMax = 8
  MaxLost = 2
  Lossy <- Recovered
  Whims <- Anything
  MaxWhims = 2
INVARIANTS Framed
PROPERTIES Connects Realigns
CHECK_DEADLOCK FALSE

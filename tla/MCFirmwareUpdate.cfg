SPECIFICATION FairSpec
CONSTANTS
  Chunks = 2
  OldSize = 0
  Manual = {"stm", "esp", "both", "unsigned"}
  MaxPulls = 1
  Alone = {"esp", "stm"}
  MaxCrashes = 2
  MaxFaults = 1
  MaxRaces = 1
INVARIANTS  CardTrusted BootsWhole DisplayFirst
PROPERTIES ComesUp Installs
CHECK_DEADLOCK FALSE

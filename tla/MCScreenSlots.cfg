SPECIFICATION FairSpec
CONSTANTS
  ttc = ttc
  weather = weather
  clock = clock
  Screens = {ttc, weather, clock}
  Transit = ttc
  Interactive = {weather}
  First = ttc
  Timing <- ThreeTurns
  MaxWhims = 3
INVARIANTS Kept Released
PROPERTIES TakesTurns
CHECK_DEADLOCK FALSE

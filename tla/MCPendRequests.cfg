SPECIFICATION FairSpec
CONSTANTS
  s1 = s1
  s2 = s2
  Slots = {s1, s2}
  Temps = {"cold", "hot"}
  None = None
  Groups <- Both
  Calls = {"time", "setCalibration"}
  QueueLen = 2
  Resends = 2
  MaxPosts = 3
  MaxWire = 2
INVARIANTS  AnswersLand 
PROPERTY Drains

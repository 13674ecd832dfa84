SPECIFICATION Spec
CONSTANTS
  Slots = {s1, s2}
  Values = {x}
  Junk = Junk
  Away = Away
  None = None
  Unit = 2
  Words = 5
  s1 = s1
  s2 = s2
  Limit <- TwoAndOne
  AddAt = {"remote"}
  MoveTo = {"remote", "ephemeral"}
  Marks = {TRUE}
  Temps <- OneWarm
  Spare = 2
  SplitWorth = 1
  Needs = {1, 3}
INVARIANTS WellFormed CacheFresh
  
CHECK_DEADLOCK FALSE

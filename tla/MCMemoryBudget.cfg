SPECIFICATION FairSpec
CONSTANTS
  s1 = s1
  s2 = s2
  s3 = s3
  Slots = {s1, s2, s3}
  StmHeap = 5
  EspHeap = 5
  Buffer = 1
  SplitMin = 0
  Excess = 1
  MaxSize <- LargeAndSmall
INVARIANTS Promised
PROPERTIES Ends

SPECIFICATION FairSpec
CONSTANTS
  Slots = {"a", "b"}
  MaxTries = 2
  MaxRx = 1
  MaxOwed = 1
INVARIANTS RegistrationNotWiped
PROPERTIES LendsBuffer HeldReplyNotMissed OperationEnds ServicerGetsIn

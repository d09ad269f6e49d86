SPECIFICATION Spec
CONSTANTS
  N = 1
  Depth = 2
  Scale = 2
  Range32 = 4
  Own <- MCOwn
  Saved <- MCSaved
  MaxEvents = 3
  Together = 2
  Queued = 1
INVARIANT Obeys
PROPERTY Answers
CHECK_DEADLOCK FALSE

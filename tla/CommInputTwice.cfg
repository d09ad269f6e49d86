SPECIFICATION Spec
CONSTANTS
  Size = 4
  Range8 = 8
  Arrivals = 2
  Switching = {}
  MaxPending = 3
INVARIANT ForEachElement

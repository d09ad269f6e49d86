SPECIFICATION FairSpec
CONSTANTS
  Size = 4
  Range8 = 8
  Arrivals = 4
  Switching = {2, 3}
  MaxPending = 3
INVARIANT TypeOK
INVARIANT NothingInvented
INVARIANT InOrder
INVARIANT RoutedByType
PROPERTY AllHandled
PROPERTY MainReturns

SPECIFICATION Spec
CONSTANTS
  Animations <- MCAnimations
  Blank <- MCBlank
  Rates = {57600, 9600}
  PageWords = 4
  HeaderWords = 2
  Pages = 5
  MaxCuts = 2
  Garbage = Garbage
  Nothing = Nothing
INVARIANT TypeOK
INVARIANT Recoverable
INVARIANT RateKept
INVARIANT WrittenSoFar
PROPERTY OnePageAtRisk

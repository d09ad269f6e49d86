SPECIFICATION Spec
CONSTANTS
  N = 4
  Range32 = 65536
  Size = 26
  Requests <- MCRequests
INVARIANT TypeOK
INVARIANT ExecutesTheLine
INVARIANT AsDocumented
INVARIANT AcceptedOnly

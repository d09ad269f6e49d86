SPECIFICATION FairSpec
CONSTANTS
  Byte = {"a", "b"}
  Size = 4
  MaxText = 2
INVARIANT TypeOK
INVARIANT RoomForNext
PROPERTY AreDrained
PROPERTY MainLoopTurns

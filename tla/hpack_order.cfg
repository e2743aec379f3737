SPECIFICATION MCSpec
CONSTANTS
  KeyLimit = 1
  MaxWord = 2
  MaxHeaders = 2
  MaxLine = 2
  Blocks <- MCBlocks
  StaticTable <- MCStatic
  StaticSize = 61
  Sensitive = {"cookie"}
  FieldSize <- MCFieldSize
  FirstRing = 2
  TableSizes = {0, 1, 2, 3, 4}
  ListLimit = 4
  Frames <- MCFrames
  Foreign <- MCForeign
  MaxSent = 2
  MaxPiece = 1
  Capacity = 33
  MaxFrame = 20
INVARIANT NewestFirst
CHECK_DEADLOCK FALSE

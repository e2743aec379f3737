SPECIFICATION MCSpec
CONSTANTS
  Streams = {s1, s2}
  Default = 8
  Word = 64
  InitialWindows = {0, 3, 8, 11}
  Targets = {0, 5, 8, 12, 22}
  MaxPad = 1
  MaxBytes = 6
  SendDefault = 2
  SendWord = 8
  Sizes = {0, 2}
  Increments = {3}
  MaxChunks = 2
  MaxCalls = 3
  MaxCredit = 6
  MaxLives = 2
SYMMETRY Symmetry
INVARIANT WaiterIsHeld
CHECK_DEADLOCK FALSE

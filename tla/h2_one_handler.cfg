SPECIFICATION Spec
CONSTANTS
  Modes = {"server"}
  RequestIds <- MCRequestIds
  PushIds = {}
  KMax <- MCKMax
  MaxConcurrent = 2
  MaxFrames <- MCMaxFrames
INVARIANTS
  HandlerStartedOnce
CHECK_DEADLOCK FALSE

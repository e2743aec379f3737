SPECIFICATION FairSpec
CONSTANTS
  Handlers = {"h1", "h2"}
  Confs <- MCConfs
  MaxSends = 1
  MaxQueue = 0
INVARIANTS
  WaitersAccounted
  QuietWhenStopped
  SentBeforeStop
PROPERTIES
  StopCompletes
  SendsAnswered
CHECK_DEADLOCK FALSE

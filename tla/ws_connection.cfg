SPECIFICATION FairSpec
CONSTANTS
  Modes = {"app", "once", "loop"}
  Scripts <- MCScripts
  Defects = {"none", "version"}
  Welcome <- MCWelcome
  MaxTimeouts = 1
  RingSize = 5
  MaxMessageSize = 40

  
  
PROPERTY EveryMessageAnswered
CHECK_DEADLOCK FALSE

SPECIFICATION MCFairSpec
CONSTANTS
  Requests <- MCRequests
  Answers <- MCAnswers
  MaxSent = 2
  MaxTimeouts = 1
  Capacity = 5
  RingSize = 9
  Handlers = {h1, h2}
  MaxIdle = 1
  MaxRequests = 3
  MaxLinks = 4
INVARIANTS
  
  
  
  RunsOnce
PROPERTY ExchangeEnds
CHECK_DEADLOCK FALSE

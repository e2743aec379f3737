SPECIFICATION MCSpec
CONSTANTS
  Tokens <- MCTokens
  Scripts <- MCScripts
  TlsScripts <- MCTlsScripts
  Answers <- MCAnswers
  HeaderLimit <- MCHeaderLimit
  Carried <- MCCarried
  Bodies = {1}
  Responses <- MCResponses
  MaxRequests = 2
  MaxControl = 1
  Streams = {s1, s2}
  Events = {"Headers", "Data"}
  MaxCount = 2
  MaxBatches = 3
INVARIANTS NothingLost BothAgreed 
PROPERTIES SetupEnds RequestEnds RefinesNotices EverythingAnnounced
CHECK_DEADLOCK FALSE

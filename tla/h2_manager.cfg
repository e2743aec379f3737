SPECIFICATION Spec
CONSTANTS
  Modes = {"server", "serverTls", "serverActive", "client"}
  RequestIds <- MCRequestIds
  PushIds <- MCPushIds
  KMax <- MCKMax
  MaxConcurrent = 1
  MaxFrames <- MCMaxFrames
INVARIANTS
  HotStreamInTable
  EndedMessageCompletes
  ClosedStreamWillRetire
  EventsReachHandler
  LatestGoawayCoversAccepted
PROPERTIES
  AcceptedOnce
  RefusedMeansUnprocessed
CHECK_DEADLOCK FALSE

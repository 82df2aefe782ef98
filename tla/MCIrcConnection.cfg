SPECIFICATION FairSpec
CONSTANTS
  HasPassword = TRUE
  PingAfter = 1
  DeadAfter = 3
  MaxInbox = 2
INVARIANT TypeOK
INVARIANT SocketOwned
INVARIANT OutageReported
PROPERTY DisconnectFromLoopReturns
PROPERTY OutageEnds

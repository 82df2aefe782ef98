SPECIFICATION FairSpec
CONSTANTS
  HasPassword = TRUE
  PingAfter = 1
  DeadAfter = 3
  MaxInbox = 2
PROPERTY TypedIsWritten

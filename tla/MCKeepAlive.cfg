SPECIFICATION TimelySpec
CONSTANTS
  HasPassword = FALSE
  PingAfter = 1
  DeadAfter = 3
  MaxInbox = 2
  AnswerDelay = 1
INVARIANT NeverDropped

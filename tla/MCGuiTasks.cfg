SPECIFICATION FairSpec
CONSTANTS
  Irc = Irc
  Http = Http
  Threads <- MCThreads
  Gui = Gui
  Nobody = Nobody
  MaxPosts = 2
INVARIANT TypeOK
INVARIANT FifoOnce
PROPERTY StableWhileIterating
PROPERTY FlaggedTasksRun
PROPERTY CallsReturn
PROPERTY ImplementsTaskQueue

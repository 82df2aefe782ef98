SPECIFICATION FairSpec
CONSTANTS
  Irc = Irc
  Http = Http
  Threads <- MCThreads
  Gui = Gui
  Nobody = Nobody
  MaxPosts = 2
PROPERTY EveryTaskRuns

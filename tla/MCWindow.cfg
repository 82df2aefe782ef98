SPECIFICATION Spec
CONSTANTS
  None = None
  Channel = {"c1", "c2"}
  Network = {"n1", "n2"}
  Home <- MCHome
  NameOf <- MCNames
  ChannelSeq <- MCChannels
  Letter = {97, 98}
  EntryName <- MCEntries
  MaxItems = 3
  MaxTyped = 1
INVARIANT WindowTypeOK
INVARIANT SelectionValid
INVARIANT KeysGoToShown
INVARIANT KindsKept
INVARIANT InitiallyEditsAndRepliesRight
CHECK_DEADLOCK FALSE

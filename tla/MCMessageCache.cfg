SPECIFICATION Spec
CONSTANTS
  None = None
  Absent = Absent
  Torn = Torn
  Names = 1
  FileNames <- MCFileNames
  CacheSize = 1
  MaxIds = 2
  MaxMessages = 3
  MaxStarts = 2
INVARIANT TypeOK
INVARIANT InOrder
INVARIANT UnsavedIsMarked
INVARIANT SavedWhenUnfocused
INVARIANT InitiallyFilesSurvive
PROPERTY UnreadableStays
CHECK_DEADLOCK FALSE

SPECIFICATION Spec
CONSTANTS
  Content = {"a", "b"}
  PicturesOf <- MCPicturesOf
  Broken = {"w"}
  Has <- MCHas
  Reloads <- MCReloads
  Heights = {2, 3}
  MaxMade = 2
  MaxListed = 2
INVARIANT SelectedHasKeys
INVARIANT PicturesRight
PROPERTY FollowsEnd
CHECK_DEADLOCK FALSE

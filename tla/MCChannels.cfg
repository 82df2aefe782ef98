SPECIFICATION Spec
CONSTANTS
  A = A
  B = B
  Client <- MCClient
  Status = Status
  None = None
  Name = {Status, Room}
  MaxChannels = 3
  MaxMessages = 2
SYMMETRY MCSymmetry
INVARIANT TypeOK
INVARIANT ItemsCurrent
INVARIANT ActiveCovered
INVARIANT ListCovered
INVARIANT MessageShown
INVARIANT TypedGoesToShown

SPECIFICATION Spec
CONSTANTS
  CR = CR
  LF = LF
  Byte = {x, CR, LF}
  MaxBytes = 7
INVARIANT TypeOK
INVARIANT NoByteLost
INVARIANT NoLineWaits
INVARIANT SegmentationInvisible
INVARIANT InitiallyTextsParsed
CHECK_DEADLOCK FALSE

CONSTANTS
  MinPerThread = 1
  MaxLength = 4
SPECIFICATION FairSpec
INVARIANTS InterruptedHalf FindRight NoStragglers
PROPERTY Ends
CHECK_DEADLOCK FALSE

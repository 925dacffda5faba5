CONSTANTS
  Kind = {"for_each", "for_each_async", "accumulate", "find"}
  MinPerThread = 2
  MaxLength = 6
  MaxHardware = 4
  CanThrow = TRUE
SPECIFICATION FairSpec
INVARIANTS EachOnce NoStragglers FindRight
PROPERTY Ends
CHECK_DEADLOCK FALSE

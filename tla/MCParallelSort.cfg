CONSTANTS
  Elem = {1, 2, 3, 4}
  Key <- MCKey
  Kind = {"sequential", "futures", "pool", "chunk"}
  w1 = w1
  w2 = w2
  w3 = w3
  Main = Main
  Worker = {w1, w2, w3}
  Hardware = 3
  Pending = Pending
  Null = Null
SPECIFICATION FairSpec
INVARIANTS Sorted NoStragglers NoDeadlock
PROPERTY Termination
CHECK_DEADLOCK FALSE

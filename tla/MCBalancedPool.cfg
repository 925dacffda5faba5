CONSTANTS
  a = a
  b = b
  c = c
  d = d
  Task = {a, c, d}
  Roots = {a}
  Children <- MCChildren
  ThreadCount = 3
  UIntSize = 16
  Awaiting = {a}
  CanThrow = {"thread"}
  Owner = Owner
  Null = Null
SPECIFICATION FairSpec
INVARIANTS QueuesFrozen MembersAlive FuturesSettled RoundComplete
PROPERTIES ImplementsTaskPool TasksRun ShutdownEnds
CHECK_DEADLOCK FALSE

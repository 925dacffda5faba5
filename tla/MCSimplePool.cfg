CONSTANTS
  a = a
  b = b
  c = c
  d = d
  Task = {a, b, c, d}
  Roots = {a, b}
  Children <- MCChildren
  ThreadCount = 3
  Awaiting = {a}
  Throwing = {b}
  CanThrow = TRUE
  Owner = Owner
  Null = Null
SPECIFICATION FairSpec
INVARIANTS MembersAlive FuturesSettled
PROPERTIES ImplementsTaskPool TasksRun ShutdownEnds
CHECK_DEADLOCK FALSE

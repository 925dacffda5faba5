CONSTANTS
  a = a
  b = b
  c = c
  d = d
  Task = {a, b, c}
  Roots = {a, b}
  Children <- MCChildren
  ThreadCount = 2
  Awaiting = {a}
  Throwing = {b}
  CanThrow = TRUE
  Owner = Owner
  Null = Null
SPECIFICATION FairSpec
PROPERTY WorkersExit
CHECK_DEADLOCK FALSE

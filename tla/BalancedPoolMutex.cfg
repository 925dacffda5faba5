CONSTANTS
  a = a
  b = b
  c = c
  d = d
  Task = {a}
  Roots = {a}
  Children <- MCChildren
  ThreadCount = 2
  UIntSize = 16
  Awaiting = {}
  CanThrow = {}
  Owner = Owner
  Null = Null
SPECIFICATION Spec
INVARIANT MutexOutlivesWorkers
CHECK_DEADLOCK FALSE

CONSTANTS
  Thread = {t1, t2, t3}
  Value = {a, b}
  Node = {n1, n2, n3}
  Pusher = t1
  Remover = t2
  Null = Null
  Front = Front
  Calls <- RoleCalls
SYMMETRY Symmetry
SPECIFICATION Spec
INVARIANTS ListIntact DeadUnreachable SeesSnapshot NoDeadlock
PROPERTY ImplementsAtomicList

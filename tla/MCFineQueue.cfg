CONSTANTS
  Thread = {t1, t2, t3}
  Value = {a, b}
  Node = {n1, n2, n3, n4}
  Producer = t1
  Null = Null
  Calls <- AnyCall
SYMMETRY Symmetry
SPECIFICATION Spec
INVARIANTS ListIntact OneOwner NoDataRace NoDeadlock
PROPERTY ImplementsFifo

CONSTANTS
  Thread = {t1, t2, t3}
  Value = {a, b}
  Null = Null
  Calls <- AnyCall
  Capacity = 2
SYMMETRY Symmetry
SPECIFICATION Spec
INVARIANT NoLostWakeup
PROPERTY ImplementsFifo

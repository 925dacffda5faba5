CONSTANTS
  Thread = {t1, t2}
  Value = {a}
  Node = {n1, n2, n3}
  Producer = t1
  Null = Null
  Calls <- TestCalls
SPECIFICATION FairSpec
PROPERTY FrontDelivered
CHECK_DEADLOCK FALSE

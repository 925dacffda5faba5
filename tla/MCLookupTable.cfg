CONSTANTS
  t1 = t1
  t2 = t2
  t3 = t3
  k1 = k1
  k2 = k2
  k3 = k3
  a = a
  b = b
  Thread = {t1, t2, t3}
  Key = {k1, k2, k3}
  Value = {a, b}
  Hash <- MCHash
  NumBuckets = 2
  Calls <- MCCalls
  Absent = Absent
  End = End
  Null = Null
SPECIFICATION FairSpec
INVARIANTS KeysUnique IteratorsValid
PROPERTIES ImplementsTable ReadersEnd

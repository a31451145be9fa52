CONSTANTS
  t1 = t1
  t2 = t2
  t3 = t3
  t4 = t4
  n1 = n1
  s1 = s1
  s2 = s2
  NULL = NULL
  Txn = {t1, t2, t3}
  Sender = {s1}
  Node = {n1}
  Attr <- Alike
  Strategy = {"BY_CODE"}
  KzallocFails = {TRUE, FALSE}
SPECIFICATION FairSpec
INVARIANTS
  BacklogBound
PROPERTIES
  DeadProcessFreed
  DroppedFreed
  UnregisterReturns

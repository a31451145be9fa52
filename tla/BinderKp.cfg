CONSTANTS
  t1 = t1
  t2 = t2
  t3 = t3
  t4 = t4
  n1 = n1
  s1 = s1
  s2 = s2
  NULL = NULL
  Txn = {t1, t2, t3, t4}
  Sender = {s1, s2}
  Node = {n1}
  Attr <- Mixed
  Strategy = {"SKIP", "BY_DATA"}
  KzallocFails = {TRUE, FALSE}
SPECIFICATION Spec
INVARIANTS
  TypeOK
  MemorySafe
  OutstandingExact
  LatestSurvives
  NoSilentLoss
  WqOutlivesWork
PROPERTIES
  FreedOnceAndClean
SYMMETRY Symmetry

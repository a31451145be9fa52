CONSTANTS
  t1 = t1
  t2 = t2
  NULL = NULL
  Thread = {t1, t2}
  Commands <- AllCommands
  MaxLoads = 2
SPECIFICATION Spec
INVARIANTS
  ResultMeans
  WrittenInside
PROPERTIES
  ChangedAsAsked
SYMMETRY Symmetry

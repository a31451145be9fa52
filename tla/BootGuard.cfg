CONSTANTS
  c1 = c1
  c2 = c2
  n1 = n1
  n2 = n2
  Cpu = {c1, c2}
  Net = {n1, n2}
  Files = 2
SPECIFICATION FairSpec
INVARIANTS
  NothingLeftBehind
  TablesOutliveUsers
  FamilyOutlivesSenders
  NoBootLoop
  GoodModuleStays

PROPERTIES
  UnloadEnds

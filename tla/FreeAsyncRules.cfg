CONSTANTS
  rpcA = rpcA
  rpcB = rpcB
  h = h
  e1 = e1
  e2 = e2
  r1 = r1
  NONE = NONE
  Rpc = {rpcA, rpcB}
  Code = {1}
  Bucket = {h}
  Hash <- Collide
  Entry = {e1, e2}
  Strategies = {"SKIP", "BY_DATA"}
  Reader = {r1}
SPECIFICATION FairSpec
INVARIANTS
  NoUseAfterFree
  ListsIntact
PROPERTIES
  LookupReturns
  RulesReclaimed
  RefinesTable

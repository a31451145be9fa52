SPECIFICATION FairSpec
CONSTANTS
  t1 = t1
  t2 = t2
  p = p
  c1 = c1
  Thread = {t1, t2}
  Poller = p
  Ops = {"connect", "disconnect", "command", "setCallback"}
  Callback = {c1}
  MaxQueue = 1
  MaxFd = 3
  NULL = NULL
INVARIANTS ReferencesExact FamilyKnown DescriptorsLive NoDescriptorLeak
PROPERTIES DisconnectReturns
CHECK_DEADLOCK TRUE

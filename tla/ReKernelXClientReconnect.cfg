SPECIFICATION Spec
CONSTANTS
  t1 = t1
  t2 = t2
  c1 = c1
  p = p
  Thread = {t1}
  Poller = p
  Ops = {"connect", "disconnect"}
  Callback = {}
  MaxQueue = 1
  MaxFd = 3
  NULL = NULL
PROPERTIES BlocksUntilDisconnect
CHECK_DEADLOCK TRUE

CONSTANTS
  a = a
  b = b
  d = d
  c1 = c1
  NONE = NONE
  Task = {a, b, d}
  uid <- Uids
  p1 = p1
  p2 = p2
  Pid = {p1, p2}
  Freezers <- FreezersOf
  Cpu = {c1}
  Calls <- AllCalls
  Room = 1
SPECIFICATION Spec
INVARIANTS
  TaskLive
  EventTrue
  FrozenReported
SYMMETRY Symmetry

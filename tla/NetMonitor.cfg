CONSTANTS
  h = h
  e1 = e1
  e2 = e2
  c1 = c1
  c2 = c2
  NONE = NONE
  LOST = LOST
  Uid = {1000, 10000}
  Bucket = {h}
  Hash <- Collide
  Entry = {e1, e2}
  Packet <- AllPackets
  Cpu = {c1, c2}
SPECIFICATION FairSpec
INVARIANTS
  WalkSafe
  TableIntact
  EventsJustified
  NothingMissed
PROPERTIES
  EntriesReclaimed

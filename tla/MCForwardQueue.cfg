SPECIFICATION FairSpec
CONSTANTS
  p1 = p1
  p2 = p2
  w1 = w1
  w2 = w2
  Producer = {p1, p2}
  Worker = {w1, w2}
  kMaxForwardQueueSize = 8
  MaxTasks = 11
CHECK_DEADLOCK FALSE
INVARIANTS
  TypeOK
  OneSideWaits
  NoLostWakeup
  Drained
PROPERTIES
  TasksSent
  ShutdownEnds

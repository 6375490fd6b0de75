\* A join and a change of mode, nothing lost.
CONSTANTS
  s1 = s1
  s2 = s2
  Server = {s1, s2}
  InitiallyUp = {s1, s2}
  NoServer = NoServer
  ModeOrder <- TwoModes
  InitialMembers <- OneMember
  InitialMode = "CRAQ"
  Joiner = s2
  MaxModeChanges = 1
  MaxNewerRpcs = 0
  MaxThreads = 2
  MaxFaults = 0
SPECIFICATION Spec
INVARIANT RingCaughtUp
CHECK_DEADLOCK FALSE

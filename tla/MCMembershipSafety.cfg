\* A member and a server outside the ring, two changes of mode; epochs arrive by
\* Reconfigure, by heartbeat and by RPC.
CONSTANTS
  s1 = s1
  s2 = s2
  Server = {s1, s2}
  InitiallyUp = {s1, s2}
  NoServer = NoServer
  ModeOrder <- TwoModes
  InitialMembers <- OneMember
  InitialMode = "CRAQ"
  Joiner = NoServer
  MaxModeChanges = 2
  MaxNewerRpcs = 1
  MaxThreads = 2
  MaxFaults = 0
SPECIFICATION Spec
INVARIANTS
  TypeOK
  SameEpochSameConfig
  RingNotAhead
  ReforwardedOnce

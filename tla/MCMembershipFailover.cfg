\* A join and one fault.
CONSTANTS
  s1 = s1
  s2 = s2
  Server = {s1, s2}
  InitiallyUp = {s1, s2}
  NoServer = NoServer
  ModeOrder <- OneMode
  InitialMembers <- OneMember
  InitialMode = "CRAQ"
  Joiner = s2
  MaxModeChanges = 0
  MaxNewerRpcs = 0
  MaxThreads = 2
  MaxFaults = 1
SPECIFICATION FairSpec
PROPERTIES
  Settles
  DeadRemoved

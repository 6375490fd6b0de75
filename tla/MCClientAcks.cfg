SPECIFICATION FairSpec
CONSTANTS
  Key = {k1}
  MaxRequests = 4
  BenchSize = 2
  StallTicks = 1
  MaxBehind = 2
  MaxEpoch = 2
  MaxFaults = 2
CHECK_DEADLOCK FALSE
INVARIANTS
  TypeOK
  CountsMatch
  ClaimsWereAcked
PROPERTIES
  CommandsEnd
  DrainEnds

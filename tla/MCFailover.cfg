\* One write, and two faults that befall three servers and their messages.
SPECIFICATION FairSpec
CONSTANTS
  a = a
  b = b
  c = c
  Ring <- MCRing
  NoValue = NoValue
  Value = {r1}
  MaxVersion = 1
  LastPutEpoch = 3
  MaxRetryCount = 3
  MaxFaults = 2
CHECK_DEADLOCK FALSE
INVARIANTS
  TypeOK
  AckedSurvives
  CleanWasAcked
PROPERTIES
  WritesSettle
  TrafficEnds

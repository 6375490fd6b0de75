\* Two writes and one crash.
SPECIFICATION Spec
CONSTANTS
  a = a
  b = b
  c = c
  Ring <- MCRing
  NoValue = NoValue
  Value = {r1, r2}
  MaxVersion = 2
  LastPutEpoch = 2
  MaxRetryCount = 3
  MaxFaults = 1
CHECK_DEADLOCK FALSE
INVARIANT RecordsAgree

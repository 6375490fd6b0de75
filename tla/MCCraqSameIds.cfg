SPECIFICATION Spec
CONSTANTS
  r1 = r1
  r2 = r2
  k1 = k1
  NoValue = NoValue
  Value <- MCRequest
  MaxVersion = 2
  RingSize = 3
  Key <- MCKey
  KeyOf <- MCKeyOf
  IdOf <- MCSameId
  HeadIndex <- MCHeadIndex
  MaxRetryCount = 0
  MaxFaults = 0
CHECK_DEADLOCK FALSE
PROPERTY
  PendingUntilAcked

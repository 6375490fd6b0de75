SPECIFICATION SpecReads
CONSTANTS
  r1 = r1
  r2 = r2
  k1 = k1
  c1 = c1
  Reader = {c1}
  NoValue = NoValue
  Value <- MCRequest
  MaxVersion = 2
  RingSize = 3
  Key <- MCKey
  KeyOf <- MCKeyOf
  IdOf <- MCDistinctIds
  HeadIndex <- MCHeadIndex
  MaxRetryCount = 1
  MaxFaults = 1
CHECK_DEADLOCK FALSE
INVARIANT CommitAckedSeenByTail
PROPERTIES
  Converges
  ImplementsVersionedStore
